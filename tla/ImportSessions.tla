--------------------------- MODULE ImportSessions ---------------------------
(***************************************************************************)
(* The import sessions of the manager server: a browser uploads a usage    *)
(* export in chunks, the server keeps the bytes in a .part file beside a   *)
(* metadata file, and when the upload is whole imports it in batches.      *)
(*                                                                         *)
(* A prefix digest is the prefix itself (SHA-256 without collisions), so   *)
(* ReceivedBytes is Len(digest).  All uploads have the same name and size. *)
(* Everything under m.mu is one step; the copy of a chunk and the import   *)
(* run outside the mutex.                                                  *)
(***************************************************************************)
EXTENDS Integers, SequencesExt

CONSTANTS
    Client,       \* browser tabs, each with at most one request on the wire
    Nobody,       \* the caller of a request whose tab has gone away
    Block,        \* contents of one chunk
    FileSize,     \* chunks in every file
    MaxSessions,  \* config.MaxSessions
    MaxId,        \* bound: sessions ever created
    MaxFaults     \* bound: crashes, failing writes, lost answers, expiries

ASSUME ImportAssumption ==
    /\ Nobody \notin Client
    /\ FileSize \in Nat \ {0} /\ MaxSessions \in Nat \ {0}
    /\ MaxId \in Nat /\ MaxFaults \in Nat

VARIABLES
    mem,       \* m.sessions: id -> session, with state.cancelRequested
    disk,      \* id -> the metadata file
    data,      \* id -> the chunks in the .part file
    synced,    \* id -> how many of them survive a power loss
    verified,  \* the ids with prefixVerified
    chunk,     \* id -> the chunk being copied, or NoChunk
    job,       \* id -> batches the running import has committed, or NoJob
    issued,    \* ids given out so far
    imported,  \* chunks whose events are in the event store
    call,      \* tab -> its request on the wire
    late,      \* one request whose tab no longer waits
    reply,     \* tab -> the answer on the wire
    faults     \* faults so far

server == <<mem, disk, data, synced, verified, chunk, job, issued, imported>>
wire == <<call, late, reply>>

Id == 1 .. MaxId
NoJob == -1
NoChunk == [by |-> Nobody, block |-> << >>, copied |-> FALSE, cancellers |-> {}]
NoCall == [op |-> "none", id |-> 0, key |-> 0, digest |-> << >>, block |-> << >>]
Taken == [NoCall EXCEPT !.op = "taken"]
NoSession == [status |-> "none", digest |-> << >>, key |-> 0, retryable |-> FALSE, cancel |-> FALSE]
NoReply == [code |-> "none", id |-> 0, s |-> NoSession]

Init ==
    /\ mem = [i \in Id |-> NoSession] /\ disk = mem
    /\ data = [i \in Id |-> << >>]
    /\ synced = [i \in Id |-> 0]
    /\ verified = {}
    /\ chunk = [i \in Id |-> NoChunk]
    /\ job = [i \in Id |-> NoJob]
    /\ issued = 0
    /\ imported = {}
    /\ call = [c \in Client |-> NoCall]
    /\ late = NoCall
    /\ reply = [c \in Client |-> NoReply]
    /\ faults = 0

-----------------------------------------------------------------------------
Fault == faults < MaxFaults /\ faults' = faults + 1
NoFault == UNCHANGED faults

\* sessionReservesDisk.
Reserves(s) ==
    \/ s.status \in {"uploading", "ready", "processing"}
    \/ s.status = "failed" /\ s.retryable

\* activeSessionCountLocked; with files of one size it is reservedBytesLocked too.
Active ==
    {i \in Id : \/ chunk[i] # NoChunk \/ job[i] # NoJob
                \/ mem[i].cancel \/ Reserves(mem[i])}

Cancelled(s) == [s EXCEPT !.status = "cancelled", !.retryable = FALSE, !.cancel = FALSE]

\* The callers in who get answer a.
Tell(who, a) ==
    /\ reply' = [t \in Client |-> IF t \in who THEN a ELSE reply[t]]
    /\ call' = [t \in Client |-> IF t \in who THEN NoCall ELSE call[t]]

\* The request of c is answered with a.
Answer(c, a) == Tell({c}, a) /\ late' = IF c = Nobody THEN NoCall ELSE late

\* The handler of c's request goes on after m.mu is released.
Take(c) ==
    /\ call' = [t \in Client |-> IF t = c THEN Taken ELSE call[t]]
    /\ late' = IF c = Nobody THEN NoCall ELSE late
    /\ UNCHANGED reply

\* The answer shows neither the resume key nor a cancel request.
Ok(id, s) == [code |-> "ok", id |-> id, s |-> [s EXCEPT !.key = 0, !.cancel = FALSE]]
Refusal(code) == [NoReply EXCEPT !.code = code]

\* The manager writes the metadata (temporary file, sync, rename) and then
\* publishes the same session in memory.
Save(id, s) == mem' = [mem EXCEPT ![id] = s] /\ disk' = [disk EXCEPT ![id] = s]

Refuse(c, code) ==
    Answer(c, Refusal(code)) /\ NoFault /\ UNCHANGED server

\* A session the caller may ask about: findSessionLocked.
Found(id) == id \in Id /\ mem[id].status # "none"

-----------------------------------------------------------------------------
WithKey(key) == {i \in Id : key # 0 /\ mem[i].status # "none" /\ mem[i].key = key}

\* Mutant: one session too many.
FullByOne == Cardinality(Active) > MaxSessions

\* The session limit is reached.
Full == Cardinality(Active) >= MaxSessions

\* Create: a known resume key returns its session, whatever its status.
Create(c, r) ==
    \/ \E i \in WithKey(r.key) :
         Answer(c, Ok(i, mem[i])) /\ NoFault /\ UNCHANGED server
    \/ /\ WithKey(r.key) = {}
       /\ Full
       /\ Refuse(c, "limit")
    \/ /\ WithKey(r.key) = {}
       /\ ~Full
       /\ issued < MaxId
       /\ LET s == [NoSession EXCEPT !.status = "uploading", !.key = r.key]
          IN  Save(issued + 1, s) /\ Answer(c, Ok(issued + 1, s))
       /\ issued' = issued + 1
       /\ NoFault
       /\ UNCHANGED <<data, synced, verified, chunk, job, imported>>

\* Get.
GetSession(c, r) ==
    IF Found(r.id)
    THEN Answer(c, Ok(r.id, mem[r.id])) /\ NoFault /\ UNCHANGED server
    ELSE Refuse(c, "not_found")

AcceptsValidation(id) ==
    /\ chunk[id] = NoChunk
    /\ \/ mem[id].status \in {"uploading", "ready"}
       \/ mem[id].status = "failed" /\ mem[id].retryable

\* ValidatePrefix: the digest of the caller's own file against the bytes on disk.
ValidatePrefix(c, r) ==
    LET id == r.id
    IN  CASE ~Found(id) -> Refuse(c, "not_found")
          [] Found(id) /\ ~AcceptsValidation(id) -> Refuse(c, "conflict")
          [] OTHER ->
               IF r.digest = mem[id].digest
               THEN /\ verified' = verified \cup {id}
                    /\ Answer(c, Ok(id, mem[id]))
                    /\ NoFault
                    /\ UNCHANGED <<mem, disk, data, synced, chunk, job, issued, imported>>
               ELSE Refuse(c, "file_mismatch")

\* Why WriteChunk refuses a request, "" when it does not.  The offset of the
\* request is the length of its digest.
ChunkRefusal(id, r) ==
    LET s == mem[id]
    IN  IF ~Found(id) THEN "not_found"
        ELSE IF chunk[id] # NoChunk \/ s.status # "uploading" \/ Len(r.digest) # Len(s.digest)
             THEN "conflict"
        ELSE IF r.digest # << >> /\ (id \notin verified \/ r.digest # s.digest)
             THEN "file_mismatch"
        ELSE IF Len(s.digest) = FileSize \/ Len(data[id]) # Len(s.digest)
             THEN "conflict"
        ELSE ""

\* WriteChunk up to its first unlock.
StartChunk(c, r) ==
    \/ ChunkRefusal(r.id, r) # "" /\ Refuse(c, ChunkRefusal(r.id, r))
    \/ /\ ChunkRefusal(r.id, r) = ""
       /\ chunk' = [chunk EXCEPT ![r.id] = [NoChunk EXCEPT !.by = c, !.block = r.block]]
       /\ Take(c)
       /\ NoFault
       /\ UNCHANGED <<mem, disk, data, synced, verified, job, issued, imported>>

\* io.Copy has put the chunk into the file; nothing is synced yet.
CopyChunk(id) ==
    /\ chunk[id] # NoChunk /\ ~chunk[id].copied
    /\ chunk' = [chunk EXCEPT ![id].copied = TRUE]
    /\ data' = [data EXCEPT ![id] = @ \o chunk[id].block]
    /\ NoFault
    /\ UNCHANGED <<wire, mem, disk, synced, verified, job, issued, imported>>

\* Mutant: the file is not synced before the metadata is published.
ChunkEndsUnsynced(id, file, who, a) ==
    /\ data' = [data EXCEPT ![id] = file]
    /\ chunk' = [chunk EXCEPT ![id] = NoChunk]
    /\ Tell(who, a)
    /\ UNCHANGED <<synced, late, job, issued, imported>>

\* What the end of a chunk has in common: finishChunkLocked wakes the cancellers.
ChunkEnds(id, file, who, a) ==
    /\ data' = [data EXCEPT ![id] = file]
    /\ synced' = [synced EXCEPT ![id] = Len(file)]
    /\ chunk' = [chunk EXCEPT ![id] = NoChunk]
    /\ Tell(who, a)
    /\ UNCHANGED late
    /\ UNCHANGED <<job, issued, imported>>

\* WriteChunk after the copy: a cancellation came in meanwhile.  The metadata
\* write may fail, and then the disk still holds the cancel request.
ChunkCancelled(id) ==
    LET s == Cancelled(mem[id])
    IN  /\ chunk[id] # NoChunk /\ mem[id].cancel
        /\ mem' = [mem EXCEPT ![id] = s]
        /\ \/ disk' = [disk EXCEPT ![id] = s] /\ NoFault
           \/ UNCHANGED disk /\ Fault
        /\ ChunkEnds(id, << >>, {chunk[id].by} \cup chunk[id].cancellers, Ok(id, s))
        /\ UNCHANGED verified

\* The copy, the sync or the metadata write fails and the file is rolled back.
ChunkFails(id) ==
    /\ chunk[id] # NoChunk /\ ~mem[id].cancel
    /\ IF chunk[id].by = Nobody THEN NoFault ELSE Fault
    /\ ChunkEnds(id, SubSeq(data[id], 1, Len(mem[id].digest)), {chunk[id].by}, Refusal("unavailable"))
    /\ verified' = verified \ {id}
    /\ UNCHANGED <<mem, disk>>

\* The chunk is synced, then the metadata is published and the caller answered.
ChunkStored(id) ==
    LET file == data[id]
        s == [mem[id] EXCEPT !.digest = file,
                             !.status = IF Len(file) = FileSize THEN "ready" ELSE @]
    IN  /\ chunk[id] # NoChunk /\ chunk[id].copied /\ ~mem[id].cancel
        /\ Save(id, s)
        /\ ChunkEnds(id, file, {chunk[id].by}, Ok(id, s))
        /\ verified' = verified \ {id}
        /\ NoFault

EndChunk(id) == ChunkCancelled(id) \/ ChunkFails(id) \/ ChunkStored(id)

-----------------------------------------------------------------------------
\* Why Complete refuses to start an import, "" when it does not.
CompleteRefusal(id) ==
    LET s == mem[id]
    IN  IF ~Found(id) THEN "not_found"
        ELSE IF \/ chunk[id] # NoChunk
                \/ s.status \in {"cancelled", "uploading"}
                \/ s.status = "failed" /\ ~s.retryable
                \/ Len(data[id]) # FileSize THEN "conflict"
        ELSE IF data[id] # s.digest THEN "file_mismatch"
        ELSE ""

\* Complete: idempotent while the import runs and after it has succeeded.
Complete(c, r) ==
    LET id == r.id
        s == [mem[id] EXCEPT !.status = "processing", !.retryable = FALSE, !.cancel = FALSE]
    IN  \/ /\ Found(id) /\ chunk[id] = NoChunk /\ mem[id].status \in {"processing", "completed"}
           /\ Answer(c, Ok(id, mem[id])) /\ NoFault /\ UNCHANGED server
        \/ /\ ~(Found(id) /\ chunk[id] = NoChunk /\ mem[id].status \in {"processing", "completed"})
           /\ CompleteRefusal(id) # ""
           /\ Refuse(c, CompleteRefusal(id))
        \/ /\ Found(id) /\ mem[id].status \notin {"processing", "completed"}
           /\ CompleteRefusal(id) = ""
           /\ Save(id, s)
           /\ job' = [job EXCEPT ![id] = 0]
           /\ Answer(c, Ok(id, s))
           /\ NoFault
           /\ UNCHANGED <<data, synced, verified, chunk, issued, imported>>

\* The importer commits one batch; events already known are skipped.
ImportBatch(id) ==
    /\ job[id] # NoJob /\ job[id] < Len(data[id])
    /\ imported' = imported \cup {data[id][job[id] + 1]}
    /\ job' = [job EXCEPT ![id] = @ + 1]
    /\ NoFault
    /\ UNCHANGED <<wire, mem, disk, data, synced, verified, chunk, issued>>

Failed(s, retryable) == [s EXCEPT !.status = "failed", !.retryable = retryable, !.cancel = FALSE]
Completed(s) == [s EXCEPT !.status = "completed", !.retryable = FALSE]

\* Mutant: success wins over a cancel request.
OutcomesSuccessFirst(id) ==
    IF job[id] = Len(data[id]) THEN {[Completed(mem[id]) EXCEPT !.cancel = FALSE]}
    ELSE IF mem[id].cancel THEN {Cancelled(mem[id])} ELSE {}

\* The session after an import: a cancel request wins over success and failure.
Outcomes(id) ==
    IF mem[id].cancel THEN {Cancelled(mem[id])}
    ELSE (IF job[id] = Len(data[id]) THEN {Completed(mem[id])} ELSE {})
         \cup (IF faults < MaxFaults THEN {Failed(mem[id], TRUE), Failed(mem[id], FALSE)} ELSE {})

\* The locked end of runImport.  When the last metadata write fails, memory
\* holds a retryable failure and the disk the processing session.
EndImport(id) ==
    /\ job[id] # NoJob
    /\ job' = [job EXCEPT ![id] = NoJob]
    /\ \E s \in Outcomes(id) :
         \/ /\ Save(id, s)
            /\ IF s.status = "failed" THEN Fault ELSE NoFault
            /\ IF Reserves(s) THEN UNCHANGED <<data, synced>>
               ELSE data' = [data EXCEPT ![id] = << >>] /\ synced' = [synced EXCEPT ![id] = 0]
         \/ /\ Fault
            /\ UNCHANGED disk
            /\ IF s.status = "cancelled"
               THEN /\ mem' = [mem EXCEPT ![id] = s]
                    /\ data' = [data EXCEPT ![id] = << >>] /\ synced' = [synced EXCEPT ![id] = 0]
               ELSE mem' = [mem EXCEPT ![id] = Failed(s, TRUE)] /\ UNCHANGED <<data, synced>>
    /\ UNCHANGED <<wire, verified, chunk, issued, imported>>

-----------------------------------------------------------------------------
\* Cancel of a session whose chunk is being copied: the request is persisted,
\* the copy is stopped, and the caller waits for it.
CancelChunk(c, id) ==
    /\ chunk[id] # NoChunk
    /\ Save(id, [mem[id] EXCEPT !.cancel = TRUE])
    /\ chunk' = [chunk EXCEPT ![id].cancellers = @ \cup {c}]
    /\ Take(c)
    /\ UNCHANGED <<data, synced, verified, job, issued, imported>>

\* Cancel of a running import: the answer still says processing.
CancelImport(c, id) ==
    LET s == [mem[id] EXCEPT !.cancel = TRUE]
    IN  /\ chunk[id] = NoChunk /\ job[id] # NoJob
        /\ Save(id, s)
        /\ Answer(c, Ok(id, s))
        /\ UNCHANGED <<data, synced, verified, chunk, job, issued, imported>>

CancelIdle(c, id) ==
    /\ chunk[id] = NoChunk /\ job[id] = NoJob
    /\ Save(id, Cancelled(mem[id]))
    /\ data' = [data EXCEPT ![id] = << >>] /\ synced' = [synced EXCEPT ![id] = 0]
    /\ Answer(c, Ok(id, Cancelled(mem[id])))
    /\ UNCHANGED <<verified, chunk, job, issued, imported>>

\* Cancel.
Cancel(c, r) ==
    \/ ~Found(r.id) /\ Refuse(c, "not_found")
    \/ /\ Found(r.id) /\ mem[r.id].status \in {"completed", "cancelled"}
       /\ Answer(c, Ok(r.id, mem[r.id])) /\ NoFault /\ UNCHANGED server
    \/ /\ Found(r.id) /\ mem[r.id].status \notin {"completed", "cancelled"}
       /\ CancelChunk(c, r.id) \/ CancelImport(c, r.id) \/ CancelIdle(c, r.id)
       /\ NoFault

\* The handler of one request.
Handle(c, r) ==
    \/ r.op = "create" /\ Create(c, r)
    \/ r.op = "get" /\ GetSession(c, r)
    \/ r.op = "validate" /\ ValidatePrefix(c, r)
    \/ r.op = "chunk" /\ StartChunk(c, r)
    \/ r.op = "complete" /\ Complete(c, r)
    \/ r.op = "cancel" /\ Cancel(c, r)

Serve(c) == Handle(c, call[c])
ServeLate == Handle(Nobody, late)

-----------------------------------------------------------------------------
\* cleanupExpiredLocked, run by every request: the session outlived its TTL.
Expire(id) ==
    /\ Found(id) /\ chunk[id] = NoChunk /\ job[id] = NoJob
    /\ mem[id].status # "processing"
    /\ mem' = [mem EXCEPT ![id] = NoSession] /\ disk' = [disk EXCEPT ![id] = NoSession]
    /\ data' = [data EXCEPT ![id] = << >>] /\ synced' = [synced EXCEPT ![id] = 0]
    /\ Fault
    /\ UNCHANGED <<wire, verified, chunk, job, issued, imported>>

\* Mutant: an interrupted import is taken for a finished one.
ResumedAsDone(s, d) == IF s.status = "processing" THEN Completed(s) ELSE s

\* Mutant: an interrupted import stays in processing.
ResumedAsIs(s, d) == s

\* ensureInitializedLocked: the session read from metadata s beside file d.
Resumed(s, d) ==
    LET kept == IF IsPrefix(s.digest, d) THEN s.digest ELSE d
        full == Len(kept) = FileSize
        r == [s EXCEPT !.digest = kept]
    IN  CASE ~IsPrefix(s.digest, d) /\ ~IsPrefix(d, s.digest) ->
               [Failed(s, FALSE) EXCEPT !.digest = << >>]
          [] s.status = "processing" ->
               [r EXCEPT !.status = IF full THEN "ready" ELSE "uploading", !.retryable = FALSE]
          [] s.status = "uploading" -> [r EXCEPT !.status = IF full THEN "ready" ELSE @]
          [] s.status \in {"ready", "failed"} ->
               IF full THEN r ELSE [r EXCEPT !.status = "uploading", !.retryable = FALSE]

Recovered(s, d) ==
    CASE s.cancel /\ s.status # "processing" -> NoSession
      [] s.cancel /\ s.status = "processing" -> Cancelled(s)
      [] ~s.cancel /\ Reserves(s) -> Resumed(s, d)
      [] OTHER -> s

\* The server stops without warning and starts again: what was not synced may
\* be lost, every request on the wire fails, and the manager reads its directory.
Crash ==
    /\ Fault
    /\ \E lost \in SUBSET {i \in Id : synced[i] < Len(data[i])} :
         LET file(i) == IF i \in lost THEN SubSeq(data[i], 1, synced[i]) ELSE data[i]
             new == [i \in Id |-> Recovered(disk[i], file(i))]
         IN  /\ mem' = new /\ disk' = new
             /\ data' = [i \in Id |-> IF Reserves(new[i]) THEN new[i].digest ELSE << >>]
    /\ synced' = [i \in Id |-> Len(data'[i])]
    /\ verified' = {}
    /\ chunk' = [i \in Id |-> NoChunk]
    /\ job' = [i \in Id |-> NoJob]
    /\ reply' = [c \in Client |-> IF call[c] = NoCall THEN reply[c] ELSE Refusal("network")]
    /\ call' = [c \in Client |-> NoCall]
    /\ late' = NoCall
    /\ UNCHANGED <<issued, imported>>

\* Tab c gives up its request: it finds a in its place, or sends r instead.  A
\* request the server has not read yet is dropped or comes late.  A request that
\* comes late and a broken connection are faults.
HangUp(c, r, a) ==
    /\ call' = [call EXCEPT ![c] = r]
    /\ reply' = [reply EXCEPT ![c] = a]
    /\ \/ UNCHANGED late
       \/ call[c] \notin {NoCall, Taken} /\ late = NoCall /\ late' = call[c]
    /\ IF late' = late /\ a = NoReply THEN NoFault ELSE Fault
    /\ chunk' = [i \in Id |-> [chunk[i] EXCEPT !.by = IF @ = c THEN Nobody ELSE @,
                                               !.cancellers = @ \ {c}]]
    /\ UNCHANGED <<mem, disk, data, synced, verified, job, issued, imported>>

\* The connection breaks before the answer reaches the tab.
Lose(c) ==
    /\ call[c] # NoCall \/ reply[c].code \notin {"none", "network"}
    /\ HangUp(c, NoCall, Refusal("network"))

Background ==
    \/ ServeLate
    \/ \E c \in Client : Serve(c) \/ Lose(c)
    \/ \E id \in Id : CopyChunk(id) \/ EndChunk(id) \/ ImportBatch(id) \/ EndImport(id) \/ Expire(id)
    \/ Crash

-----------------------------------------------------------------------------
Statuses == {"none", "uploading", "ready", "processing", "completed", "failed", "cancelled"}
Session == [status : Statuses, digest : Seq(Block), key : Nat, retryable : BOOLEAN, cancel : BOOLEAN]

\* Types of the manager's state and of its files.
SessionsTypeOK ==
    /\ mem \in [Id -> Session] /\ disk \in [Id -> Session]
    /\ data \in [Id -> Seq(Block)]
    /\ synced \in [Id -> Nat]
    /\ verified \subseteq Id
    /\ job \in [Id -> Nat \cup {NoJob}]
    /\ issued \in 0 .. MaxId
    /\ imported \subseteq Block
    /\ faults \in 0 .. MaxFaults

\* At most MaxSessions sessions hold disk space, across restarts too.
ActiveWithinLimit == Cardinality(Active) <= MaxSessions

\* The types and the limit.
SessionsConsistent == SessionsTypeOK /\ ActiveWithinLimit
=============================================================================
