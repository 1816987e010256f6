------------------------- MODULE ImportUploadProofs -------------------------
(***************************************************************************)
(* Proofs about the import sessions and the tabs that use them, for any    *)
(* tabs, files and numbers, whatever crashes, failing metadata writes and  *)
(* lost or late requests do.                                               *)
(*                                                                         *)
(* - At most MaxSessions sessions hold disk space.  The limit is looked at *)
(*   in Create only, so the proof is that nothing else takes a place.  A   *)
(*   restart rebuilds the sessions from the disk, which may be older than  *)
(*   memory; therefore SessionSound says that a session which the disk     *)
(*   would bring back has a place already.                                 *)
(* - StoreInv: memory, the metadata and the .part files agree about the    *)
(*   bytes of a session, which are the beginning of a file.                *)
(* - WireInv: what a tab asks for, what it is answered and what a chunk    *)
(*   under way will answer fit what the tab waits for.                     *)
(* - AckInv: what was confirmed to a tab stays.                            *)
(***************************************************************************)
EXTENDS ImportUpload, FiniteSetTheorems, SequenceTheorems, TLAPS

\* The fields of a session; what digest and key are does not matter.
SessionShape(s) ==
    s \in [status : Statuses, digest : {s.digest}, key : {s.key},
           retryable : BOOLEAN, cancel : BOOLEAN]

ChunkShape(k) ==
    k \in [by : {k.by}, block : {k.block}, copied : BOOLEAN, cancellers : {k.cancellers}]

\* Session i has a place.
HasPlace(i) == chunk[i] # NoChunk \/ job[i] # NoJob \/ mem[i].cancel \/ Reserves(mem[i])

SessionSound(i) ==
    /\ SessionShape(mem[i]) /\ SessionShape(disk[i]) /\ ChunkShape(chunk[i])
    \* what is copied or imported has the status for it
    /\ chunk[i] # NoChunk => mem[i].status = "uploading"
    /\ job[i] # NoJob => mem[i].status = "processing"
    \* a cancel request is on disk before it counts
    /\ mem[i].cancel => disk[i].cancel
    \* an id that was not given out is free
    /\ i > issued => mem[i].status = "none" /\ disk[i].status = "none"
    \* what a restart brings back has a place
    /\ Reserves(disk[i]) /\ ~disk[i].cancel => HasPlace(i)

Domains == DOMAIN mem = Id /\ DOMAIN disk = Id /\ DOMAIN chunk = Id /\ DOMAIN job = Id

SoundInv == Domains /\ issued \in Nat /\ \A i \in Id : SessionSound(i)

LimitInv == SoundInv /\ ActiveWithinLimit

\* No session takes a place.
NoNewPlace == \A i \in Id : HasPlace(i)' => HasPlace(i)

-----------------------------------------------------------------------------
LEMMA ShapeOfNone == SessionShape(NoSession) /\ ~Reserves(NoSession) /\ ~NoSession.cancel
  BY DEF SessionShape, NoSession, Reserves, Statuses

LEMMA ShapeOfNoChunk == ChunkShape(NoChunk)
  BY DEF ChunkShape, NoChunk

\* The ends a session may come to.
LEMMA SessionEnds ==
  ASSUME NEW s, SessionShape(s), NEW b \in BOOLEAN
  PROVE  /\ SessionShape(Cancelled(s)) /\ ~Reserves(Cancelled(s)) /\ ~Cancelled(s).cancel
         /\ Cancelled(s).status = "cancelled"
         /\ SessionShape(Failed(s, b)) /\ ~Failed(s, b).cancel
         /\ Failed(s, b).status = "failed" /\ Reserves(Failed(s, b)) = b
         /\ SessionShape(Completed(s)) /\ ~Reserves(Completed(s))
         /\ Completed(s).cancel = s.cancel /\ Completed(s).status = "completed"
<1>1. /\ Cancelled(s) \in [status : {"cancelled"}, digest : {s.digest}, key : {s.key},
                           retryable : {FALSE}, cancel : {FALSE}]
      /\ Failed(s, b) \in [status : {"failed"}, digest : {s.digest}, key : {s.key},
                           retryable : {b}, cancel : {FALSE}]
      /\ Completed(s) \in [status : {"completed"}, digest : {s.digest}, key : {s.key},
                           retryable : {FALSE}, cancel : {s.cancel}]
  BY DEF Cancelled, Failed, Completed, SessionShape
<1>2. s.cancel \in BOOLEAN
  BY DEF SessionShape
<1>3. QED
  BY <1>1, <1>2 DEF SessionShape, Reserves, Statuses

\* What a restart makes of a session on disk.
LEMMA RecoveredSession ==
  ASSUME NEW s, SessionShape(s), NEW d
  PROVE  /\ SessionShape(Recovered(s, d))
         /\ ~Recovered(s, d).cancel
         /\ s.status = "none" => Recovered(s, d).status = "none"
         /\ Reserves(Recovered(s, d)) => Reserves(s) /\ ~s.cancel
<1>0. s.cancel \in BOOLEAN /\ s.retryable \in BOOLEAN
  BY DEF SessionShape
<1>1. CASE s.cancel
  BY <1>1, SessionEnds, ShapeOfNone DEF Recovered, NoSession
<1>2. CASE ~s.cancel /\ Reserves(s)
  <2>1. Recovered(s, d) = Resumed(s, d)
    BY <1>2 DEF Recovered
  <2>2. SessionShape(Resumed(s, d)) /\ ~Resumed(s, d).cancel
    BY <1>2 DEF Resumed, Reserves, Failed, SessionShape, Statuses
  <2>3. s.status # "none"
    BY <1>2 DEF Reserves
  <2>4. QED
    BY <1>2, <2>1, <2>2, <2>3
<1>3. CASE ~s.cancel /\ ~Reserves(s)
  BY <1>3 DEF Recovered
<1>4. QED
  BY <1>0, <1>1, <1>2, <1>3

\* A tab that goes away is taken out of a chunk; nothing else changes.
Without(k, c) == [k EXCEPT !.by = IF @ = c THEN Nobody ELSE @, !.cancellers = @ \ {c}]

LEMMA LeftChunk ==
  ASSUME NEW k, ChunkShape(k), NEW c \in Client
  PROVE  ChunkShape(Without(k, c)) /\ (k = NoChunk => Without(k, c) = NoChunk)
<1>1. ChunkShape(Without(k, c))
  BY DEF ChunkShape, Without
<1>2. ASSUME k = NoChunk PROVE Without(k, c) = NoChunk
  <2>1. Without(k, c) \in [by : {Nobody}, block : {<< >>}, copied : {FALSE}, cancellers : {{}}]
    BY <1>2, ImportAssumption DEF Without, NoChunk
  <2>2. QED
    BY <2>1 DEF NoChunk
<1>3. QED
  BY <1>1, <1>2

-----------------------------------------------------------------------------
\* A step that touches one session only, if at all.
Elsewhere(id) ==
    \A i \in Id : i # id => /\ mem'[i] = mem[i] /\ disk'[i] = disk[i]
                            /\ chunk'[i] = chunk[i] /\ job'[i] = job[i]

LEMMA OneSession ==
  ASSUME SoundInv, NEW id \in Id, Elsewhere(id), Domains', issued' = issued,
         SessionSound(id)', HasPlace(id)' => HasPlace(id)
  PROVE  SoundInv' /\ NoNewPlace
<1>1. ASSUME NEW i \in Id PROVE SessionSound(i)' /\ (HasPlace(i)' => HasPlace(i))
  <2>1. CASE i = id
    BY <2>1
  <2>2. CASE i # id
    <3>1. /\ mem'[i] = mem[i] /\ disk'[i] = disk[i]
          /\ chunk'[i] = chunk[i] /\ job'[i] = job[i]
      BY <2>2 DEF Elsewhere
    <3>2. HasPlace(i)' <=> HasPlace(i)
      BY <3>1 DEF HasPlace
    <3>3. QED
      BY <3>1, <3>2 DEF SoundInv, SessionSound
  <2>3. QED
    BY <2>1, <2>2
<1>2. QED
  BY <1>1 DEF SoundInv, NoNewPlace

\* Both copies of the session change together.
LEMMA SavedSession ==
  ASSUME Domains, NEW id \in Id, NEW s, Save(id, s)
  PROVE  /\ mem'[id] = s /\ disk'[id] = s
         /\ DOMAIN mem' = Id /\ DOMAIN disk' = Id
         /\ \A i \in Id : i # id => mem'[i] = mem[i] /\ disk'[i] = disk[i]
  BY DEF Save, Domains

LEMMA ServerUnchanged ==
  ASSUME SoundInv, UNCHANGED <<mem, disk, chunk, job, issued>>
  PROVE  SoundInv' /\ NoNewPlace
  BY DEF SoundInv, Domains, SessionSound, HasPlace, NoNewPlace

\* Create aside, the handler of a request gives nobody a place.
LEMMA HandleStep ==
  ASSUME SoundInv, NEW c, NEW r, Handle(c, r), ~Create(c, r)
  PROVE  SoundInv' /\ NoNewPlace
<1> USE DEF SoundInv
<1>0. ASSUME NEW i \in Id PROVE SessionSound(i)
  OBVIOUS
<1>u. ASSUME UNCHANGED server PROVE SoundInv' /\ NoNewPlace
  BY <1>u, ServerUnchanged DEF server
<1>g. CASE GetSession(c, r)
  BY <1>g, <1>u, ServerUnchanged DEF GetSession, Refuse
<1>v. CASE ValidatePrefix(c, r)
  BY <1>v, <1>u, ServerUnchanged DEF ValidatePrefix, Refuse
<1>s. CASE StartChunk(c, r)
  <2>1. CASE Refuse(c, ChunkRefusal(r.id, r))
    BY <2>1, <1>u DEF Refuse
  <2>2. CASE /\ ChunkRefusal(r.id, r) = ""
             /\ chunk' = [chunk EXCEPT ![r.id] = [NoChunk EXCEPT !.by = c, !.block = r.block]]
             /\ UNCHANGED <<mem, disk, job, issued>>
    <3>1. r.id \in Id /\ mem[r.id].status = "uploading"
      BY <2>2 DEF ChunkRefusal, Found
    <3>2. ChunkShape([NoChunk EXCEPT !.by = c, !.block = r.block])
      BY DEF NoChunk, ChunkShape
    <3>3. job[r.id] = NoJob /\ HasPlace(r.id)
      BY <3>1 DEF SessionSound, HasPlace, Reserves
    <3>4. SessionSound(r.id)'
      BY <2>2, <3>1, <3>2, <3>3 DEF SessionSound, HasPlace, Reserves, Domains
    <3>5. QED
      BY <2>2, <3>1, <3>3, <3>4, OneSession DEF Elsewhere, Domains
  <2>3. QED
    BY <1>s, <2>1, <2>2 DEF StartChunk
<1>m. CASE Complete(c, r)
  <2>1. CASE UNCHANGED server
    BY <2>1, <1>u
  <2>2. CASE ~UNCHANGED server
    <3> DEFINE id == r.id
    <3> DEFINE t == [mem[id] EXCEPT !.status = "processing", !.retryable = FALSE, !.cancel = FALSE]
    <3>1. /\ id \in Id /\ mem[id].status \notin {"none", "processing", "completed"}
          /\ CompleteRefusal(id) = "" /\ Save(id, t) /\ job' = [job EXCEPT ![id] = 0]
          /\ UNCHANGED <<chunk, issued>>
      BY <1>m, <2>2 DEF Complete, Refuse, Found
    <3>2. chunk[id] = NoChunk
      BY <3>1 DEF CompleteRefusal
    <3>3. SessionShape(t) /\ t.status = "processing" /\ ~t.cancel
      BY <3>1 DEF SessionSound, SessionShape, Statuses
    <3>4. HasPlace(id)
      BY <3>1 DEF CompleteRefusal, Found, SessionSound, SessionShape, Statuses, HasPlace, Reserves
    <3> HIDE DEF t
    <3>5. mem'[id] = t /\ disk'[id] = t /\ Domains' /\ Elsewhere(id)
      BY <3>1, SavedSession DEF Domains, Elsewhere
    <3>6. SessionSound(id)'
      BY <3>1, <3>2, <3>3, <3>5 DEF SessionSound, HasPlace, Reserves
    <3>7. QED
      BY <3>1, <3>4, <3>5, <3>6, OneSession
  <2>3. QED
    BY <2>1, <2>2
<1>c. CASE Cancel(c, r)
  <2> DEFINE id == r.id
  <2>1. CASE UNCHANGED server
    BY <2>1, <1>u
  <2>2. CASE ~UNCHANGED server
    <3>1. /\ id \in Id /\ mem[id].status \notin {"none", "completed", "cancelled"}
          /\ CancelChunk(c, id) \/ CancelImport(c, id) \/ CancelIdle(c, id)
      BY <1>c, <2>2 DEF Cancel, Refuse, Found
    <3> DEFINE asked == [mem[id] EXCEPT !.cancel = TRUE]
    <3>2. SessionShape(asked) /\ asked.cancel /\ asked.status = mem[id].status
      BY <3>1 DEF SessionSound, SessionShape
    <3> HIDE DEF asked
    <3>3. CASE CancelChunk(c, id)
      <4>1. /\ chunk[id] # NoChunk /\ Save(id, asked)
            /\ chunk' = [chunk EXCEPT ![id].cancellers = @ \cup {c}]
            /\ UNCHANGED <<job, issued>>
        BY <3>3 DEF CancelChunk, asked
      <4>2. mem'[id] = asked /\ disk'[id] = asked /\ Domains' /\ Elsewhere(id)
        BY <3>1, <4>1, SavedSession DEF Domains, Elsewhere
      <4>3. ChunkShape(chunk'[id])
        <5>1. chunk'[id] = [chunk[id] EXCEPT !.cancellers = @ \cup {c}]
          BY <3>1, <4>1 DEF Domains
        <5>2. QED
          BY <3>1, <5>1 DEF SessionSound, ChunkShape
      <4>4. SessionSound(id)' /\ HasPlace(id)
        BY <3>1, <3>2, <4>1, <4>2, <4>3 DEF SessionSound, HasPlace
      <4>5. QED
        BY <3>1, <4>1, <4>2, <4>4, OneSession
    <3>4. CASE CancelImport(c, id)
      <4>1. job[id] # NoJob /\ Save(id, asked) /\ UNCHANGED <<chunk, job, issued>>
        BY <3>4 DEF CancelImport, asked
      <4>2. mem'[id] = asked /\ disk'[id] = asked /\ Domains' /\ Elsewhere(id)
        BY <3>1, <4>1, SavedSession DEF Domains, Elsewhere
      <4>3. SessionSound(id)' /\ HasPlace(id)
        BY <3>1, <3>2, <4>1, <4>2 DEF SessionSound, HasPlace
      <4>4. QED
        BY <3>1, <4>1, <4>2, <4>3, OneSession
    <3>5. CASE CancelIdle(c, id)
      <4>1. /\ chunk[id] = NoChunk /\ job[id] = NoJob
            /\ Save(id, Cancelled(mem[id])) /\ UNCHANGED <<chunk, job, issued>>
        BY <3>5 DEF CancelIdle
      <4>2. /\ mem'[id] = Cancelled(mem[id]) /\ disk'[id] = Cancelled(mem[id])
            /\ Domains' /\ Elsewhere(id)
        BY <3>1, <4>1, SavedSession DEF Domains, Elsewhere
      <4>3. /\ SessionShape(Cancelled(mem[id])) /\ ~Reserves(Cancelled(mem[id]))
            /\ ~Cancelled(mem[id]).cancel
        BY <3>1, SessionEnds DEF SessionSound
      <4>4. SessionSound(id)' /\ ~HasPlace(id)'
        BY <3>1, <4>1, <4>2, <4>3 DEF SessionSound, HasPlace
      <4>5. QED
        BY <3>1, <4>1, <4>2, <4>4, OneSession
    <3>6. QED
      BY <3>1, <3>3, <3>4, <3>5
  <2>3. QED
    BY <2>1, <2>2
<1>q. QED
  BY <1>g, <1>v, <1>s, <1>m, <1>c DEF Handle

-----------------------------------------------------------------------------
(* The steps outside the handlers. *)

LEMMA ActiveIsPlaces == Active = {i \in Id : HasPlace(i)}
  BY DEF Active, HasPlace

\* A chunk that ends, however it does, gives its session's place to nobody.
LEMMA EndChunkStep ==
  ASSUME SoundInv, NEW id \in Id, EndChunk(id)
  PROVE  SoundInv' /\ NoNewPlace
<1> USE DEF SoundInv
<1>0. SessionSound(id) /\ chunk[id] # NoChunk
  BY DEF EndChunk, ChunkCancelled, ChunkFails, ChunkStored
<1>1. /\ job[id] = NoJob /\ mem[id].status = "uploading" /\ HasPlace(id)
      /\ mem[id].cancel \in BOOLEAN
  BY <1>0 DEF SessionSound, HasPlace, SessionShape
<1>2. /\ chunk' = [chunk EXCEPT ![id] = NoChunk] /\ UNCHANGED <<job, issued>>
  BY DEF EndChunk, ChunkCancelled, ChunkFails, ChunkStored, ChunkEnds
<1>3. chunk'[id] = NoChunk /\ job'[id] = NoJob /\ DOMAIN chunk' = Id
  BY <1>1, <1>2 DEF Domains
<1>4. CASE ChunkCancelled(id)
  <2> DEFINE s == Cancelled(mem[id])
  <2>1. SessionShape(s) /\ ~Reserves(s) /\ ~s.cancel
    BY <1>0, SessionEnds DEF SessionSound
  <2>2. mem[id].cancel /\ disk[id].cancel
    BY <1>0, <1>4 DEF ChunkCancelled, SessionSound
  <2> HIDE DEF s
  <2>3. mem' = [mem EXCEPT ![id] = s] /\ (disk' = [disk EXCEPT ![id] = s] \/ disk' = disk)
    BY <1>4 DEF ChunkCancelled, s
  <2>4. mem'[id] = s /\ disk'[id] \in {s, disk[id]} /\ Domains' /\ Elsewhere(id)
    BY <1>2, <2>3 DEF Domains, Elsewhere
  <2>5. SessionSound(id)'
    BY <1>0, <1>2, <1>3, <2>1, <2>2, <2>4, SessionEnds, ShapeOfNoChunk DEF SessionSound, HasPlace
  <2>6. QED
    BY <1>1, <1>2, <2>4, <2>5, OneSession
<1>5. CASE ChunkFails(id)
  <2>1. UNCHANGED <<mem, disk>>
    BY <1>5 DEF ChunkFails
  <2>2. Domains' /\ Elsewhere(id)
    BY <1>2, <2>1 DEF Domains, Elsewhere
  <2>3. SessionSound(id)'
    BY <1>0, <1>1, <1>2, <1>3, <2>1, ShapeOfNoChunk DEF SessionSound, HasPlace, Reserves
  <2>4. QED
    BY <1>1, <1>2, <2>2, <2>3, OneSession
<1>6. CASE ChunkStored(id)
  <2> DEFINE s == [mem[id] EXCEPT !.digest = data[id],
                                  !.status = IF Len(data[id]) = FileSize THEN "ready" ELSE @]
  <2>1. SessionShape(s) /\ s.status \in {"ready", "uploading"} /\ s.cancel = mem[id].cancel
    BY <1>0, <1>1 DEF SessionSound, SessionShape, Statuses
  <2>2. ~mem[id].cancel /\ Save(id, s)
    BY <1>6 DEF ChunkStored
  <2> HIDE DEF s
  <2>3. mem'[id] = s /\ disk'[id] = s /\ Domains' /\ Elsewhere(id)
    BY <1>2, <2>2, SavedSession DEF Domains, Elsewhere
  <2>4. SessionSound(id)'
    BY <1>0, <1>1, <1>2, <1>3, <2>1, <2>2, <2>3, ShapeOfNoChunk DEF SessionSound, HasPlace, Reserves
  <2>5. QED
    BY <1>1, <1>2, <2>3, <2>4, OneSession
<1>7. QED
  BY <1>4, <1>5, <1>6 DEF EndChunk

\* An import that ends gives up its place, or keeps it to be tried again.
LEMMA EndImportStep ==
  ASSUME SoundInv, NEW id \in Id, EndImport(id)
  PROVE  SoundInv' /\ NoNewPlace
<1> USE DEF SoundInv
<1>0. SessionSound(id) /\ job[id] # NoJob
  BY DEF EndImport
<1>1. /\ chunk[id] = NoChunk /\ HasPlace(id) /\ mem[id].cancel \in BOOLEAN
  BY <1>0 DEF SessionSound, HasPlace, SessionShape
<1>2. job' = [job EXCEPT ![id] = NoJob] /\ UNCHANGED <<chunk, issued>>
  BY DEF EndImport
<1>3. job'[id] = NoJob /\ chunk'[id] = NoChunk /\ DOMAIN job' = Id
  BY <1>1, <1>2 DEF Domains
<1>4. PICK s \in Outcomes(id) :
        \/ Save(id, s)
        \/ /\ disk' = disk
           /\ IF s.status = "cancelled" THEN mem' = [mem EXCEPT ![id] = s]
              ELSE mem' = [mem EXCEPT ![id] = Failed(s, TRUE)]
  BY DEF EndImport
<1>5. /\ SessionShape(s) /\ ~s.cancel
      /\ s.status = "cancelled" => mem[id].cancel /\ ~Reserves(s)
  <2>1. CASE mem[id].cancel
    <3>1. s = Cancelled(mem[id])
      BY <2>1 DEF Outcomes
    <3>2. QED
      BY <1>0, <2>1, <3>1, SessionEnds DEF SessionSound
  <2>2. CASE ~mem[id].cancel
    <3>1. s \in {Completed(mem[id]), Failed(mem[id], TRUE), Failed(mem[id], FALSE)}
      BY <2>2 DEF Outcomes
    <3>2. SessionShape(mem[id])
      BY <1>0 DEF SessionSound
    <3>3. CASE s = Completed(mem[id])
      BY <2>2, <3>2, <3>3, SessionEnds
    <3>4. CASE \E b \in BOOLEAN : s = Failed(mem[id], b)
      <4>1. PICK b \in BOOLEAN : s = Failed(mem[id], b)
        BY <3>4
      <4>2. QED
        BY <3>2, <4>1, SessionEnds
    <3>5. QED
      BY <3>1, <3>3, <3>4
  <2>3. QED
    BY <2>1, <2>2
<1>6. SessionShape(Failed(s, TRUE)) /\ ~Failed(s, TRUE).cancel /\ Reserves(Failed(s, TRUE))
  BY <1>5, SessionEnds
<1>7. CASE Save(id, s)
  <2>1. mem'[id] = s /\ disk'[id] = s /\ Domains' /\ Elsewhere(id)
    BY <1>2, <1>7, SavedSession DEF Domains, Elsewhere
  <2>2. SessionSound(id)'
    BY <1>0, <1>2, <1>3, <1>5, <2>1 DEF SessionSound, HasPlace
  <2>3. QED
    BY <1>1, <1>2, <2>1, <2>2, OneSession
<1>8. CASE disk' = disk /\ s.status = "cancelled" /\ mem' = [mem EXCEPT ![id] = s]
  <2>1. mem'[id] = s /\ disk'[id] = disk[id] /\ Domains' /\ Elsewhere(id)
    BY <1>2, <1>8 DEF Domains, Elsewhere
  <2>2. SessionSound(id)'
    BY <1>0, <1>2, <1>3, <1>5, <1>8, <2>1 DEF SessionSound, HasPlace
  <2>3. QED
    BY <1>1, <1>2, <2>1, <2>2, OneSession
<1>9. CASE disk' = disk /\ mem' = [mem EXCEPT ![id] = Failed(s, TRUE)]
  <2>1. mem'[id] = Failed(s, TRUE) /\ disk'[id] = disk[id] /\ Domains' /\ Elsewhere(id)
    BY <1>2, <1>9 DEF Domains, Elsewhere
  <2>2. SessionSound(id)'
    BY <1>0, <1>2, <1>3, <1>6, <2>1 DEF SessionSound, HasPlace
  <2>3. QED
    BY <1>1, <1>2, <2>1, <2>2, OneSession
<1>10. QED
  BY <1>4, <1>7, <1>8, <1>9

\* A session that is expired, or a copy or an import that goes on.
LEMMA SmallSteps ==
  ASSUME SoundInv, NEW id \in Id, CopyChunk(id) \/ ImportBatch(id) \/ Expire(id)
  PROVE  SoundInv' /\ NoNewPlace
<1> USE DEF SoundInv
<1>0. SessionSound(id)
  OBVIOUS
<1>1. CASE CopyChunk(id)
  <2>1. /\ chunk[id] # NoChunk /\ chunk' = [chunk EXCEPT ![id].copied = TRUE]
        /\ UNCHANGED <<mem, disk, job, issued>>
    BY <1>1 DEF CopyChunk
  <2>2. chunk'[id] = [chunk[id] EXCEPT !.copied = TRUE] /\ Domains' /\ Elsewhere(id)
    BY <2>1 DEF Domains, Elsewhere
  <2>3. ChunkShape(chunk'[id])
    BY <1>0, <2>2 DEF SessionSound, ChunkShape
  <2>4. SessionSound(id)' /\ HasPlace(id)
    BY <1>0, <2>1, <2>3 DEF SessionSound, HasPlace, Reserves
  <2>5. QED
    BY <2>1, <2>2, <2>4, OneSession
<1>2. CASE ImportBatch(id)
  <2>1. /\ job[id] # NoJob /\ job' = [job EXCEPT ![id] = @ + 1]
        /\ UNCHANGED <<mem, disk, chunk, issued>>
    BY <1>2 DEF ImportBatch
  <2>2. Domains' /\ Elsewhere(id)
    BY <2>1 DEF Domains, Elsewhere
  <2>3. SessionSound(id)' /\ HasPlace(id)
    BY <1>0, <2>1 DEF SessionSound, HasPlace, Reserves
  <2>4. QED
    BY <2>1, <2>2, <2>3, OneSession
<1>3. CASE Expire(id)
  <2>1. /\ chunk[id] = NoChunk /\ job[id] = NoJob
        /\ mem' = [mem EXCEPT ![id] = NoSession] /\ disk' = [disk EXCEPT ![id] = NoSession]
        /\ UNCHANGED <<chunk, job, issued>>
    BY <1>3 DEF Expire
  <2>2. mem'[id] = NoSession /\ disk'[id] = NoSession /\ Domains' /\ Elsewhere(id)
    BY <2>1 DEF Domains, Elsewhere
  <2>3. SessionSound(id)' /\ ~HasPlace(id)'
    BY <1>0, <2>1, <2>2, ShapeOfNone DEF SessionSound, HasPlace, NoSession
  <2>4. QED
    BY <2>1, <2>2, <2>3, OneSession
<1>4. QED
  BY <1>1, <1>2, <1>3

\* A restart brings back sessions that had a place, and no other.
LEMMA CrashStep == SoundInv /\ Crash => SoundInv' /\ NoNewPlace
<1> SUFFICES ASSUME SoundInv, Crash PROVE SoundInv' /\ NoNewPlace
  OBVIOUS
<1>1. /\ \E d : mem' = [i \in Id |-> Recovered(disk[i], d[i])]
      /\ disk' = mem' /\ chunk' = [i \in Id |-> NoChunk] /\ job' = [i \in Id |-> NoJob]
      /\ issued' = issued
  <2>1. PICK lost : LET file(i) == IF i \in lost THEN SubSeq(data[i], 1, synced[i]) ELSE data[i]
                        new == [i \in Id |-> Recovered(disk[i], file(i))]
                    IN  mem' = new /\ disk' = new
    BY DEF Crash
  <2> DEFINE d == [i \in Id |-> IF i \in lost THEN SubSeq(data[i], 1, synced[i]) ELSE data[i]]
  <2>2. mem' = [i \in Id |-> Recovered(disk[i], d[i])] /\ disk' = mem'
    BY <2>1
  <2> HIDE DEF d
  <2>3. QED
    BY <2>2 DEF Crash
<1>2. PICK d : mem' = [i \in Id |-> Recovered(disk[i], d[i])]
  BY <1>1
<1>3. ASSUME NEW i \in Id PROVE SessionSound(i)' /\ (HasPlace(i)' => HasPlace(i))
  <2>1. SessionSound(i)
    BY DEF SoundInv
  <2>2. mem'[i] = Recovered(disk[i], d[i]) /\ disk'[i] = mem'[i]
    BY <1>1, <1>2
  <2>3. /\ SessionShape(mem'[i]) /\ ~mem'[i].cancel
        /\ Reserves(mem'[i]) => Reserves(disk[i]) /\ ~disk[i].cancel
        /\ disk[i].status = "none" => mem'[i].status = "none"
    BY <2>1, <2>2, RecoveredSession DEF SessionSound
  <2>4. chunk'[i] = NoChunk /\ job'[i] = NoJob
    BY <1>1
  <2>5. QED
    BY <1>1, <2>1, <2>2, <2>3, <2>4, ShapeOfNoChunk DEF SessionSound, HasPlace
<1>4. QED
  BY <1>1, <1>2, <1>3 DEF SoundInv, Domains, NoNewPlace

\* A tab that hangs up leaves the sessions as they are.
LEMMA HangUpStep ==
  ASSUME SoundInv, NEW c \in Client, NEW r, NEW a, HangUp(c, r, a)
  PROVE  SoundInv' /\ NoNewPlace
<1>1. /\ chunk' = [i \in Id |-> Without(chunk[i], c)]
      /\ UNCHANGED <<mem, disk, job, issued>>
  BY DEF HangUp, Without
<1>2. ASSUME NEW i \in Id PROVE SessionSound(i)' /\ (HasPlace(i)' => HasPlace(i))
  <2>1. SessionSound(i)
    BY DEF SoundInv
  <2>2. chunk'[i] = Without(chunk[i], c)
    BY <1>1
  <2>3. ChunkShape(chunk'[i]) /\ (chunk[i] = NoChunk => chunk'[i] = NoChunk)
    BY <2>1, <2>2, LeftChunk DEF SessionSound
  <2>4. QED
    BY <1>1, <2>1, <2>3 DEF SessionSound, HasPlace, Reserves
<1>3. QED
  BY <1>1, <1>2 DEF SoundInv, Domains, NoNewPlace

\* Create takes one place, and only while one is free.
LEMMA CreateStep ==
  ASSUME SoundInv, NEW c, NEW r, Create(c, r)
  PROVE  /\ SoundInv'
         /\ NoNewPlace \/ /\ ~Full /\ issued + 1 \in Id
                          /\ \A i \in Id : HasPlace(i)' => HasPlace(i) \/ i = issued + 1
<1>1. CASE UNCHANGED server
  BY <1>1, ServerUnchanged DEF server
<1>2. CASE ~UNCHANGED server
  <2> DEFINE id == issued + 1
  <2> DEFINE s == [NoSession EXCEPT !.status = "uploading", !.key = r.key]
  <2>1. /\ ~Full /\ issued < MaxId /\ Save(id, s) /\ issued' = id /\ UNCHANGED <<chunk, job>>
    BY <1>2 DEF Create, Refuse
  <2>2. id \in Id /\ id \in Nat
    BY <2>1, ImportAssumption DEF SoundInv, Id
  <2>3. SessionShape(s) /\ s.status = "uploading" /\ ~s.cancel
    BY DEF SessionShape, NoSession, Statuses
  <2> HIDE DEF s, id
  <2>4. mem'[id] = s /\ disk'[id] = s /\ Domains' /\ Elsewhere(id)
    BY <2>1, <2>2, SavedSession DEF SoundInv, Domains, Elsewhere
  <2>5. ASSUME NEW i \in Id
        PROVE  SessionSound(i)' /\ (HasPlace(i)' => HasPlace(i) \/ i = id)
    <3>1. SessionSound(i)
      BY DEF SoundInv
    <3>2. CASE i = id
      <4>1. mem[i].status = "none"
        BY <2>2, <3>1, <3>2 DEF id, SessionSound, SoundInv
      <4>2. chunk[i] = NoChunk /\ job[i] = NoJob
        BY <3>1, <4>1 DEF SessionSound
      <4>3. ~(i > issued')
        BY <2>1, <2>2, <3>2
      <4>4. QED
        BY <2>1, <2>3, <2>4, <3>1, <3>2, <4>2, <4>3 DEF SessionSound, HasPlace, Reserves
    <3>3. CASE i # id
      <4>1. i > issued' => i > issued
        BY <2>1, <2>2 DEF id, SoundInv, Id
      <4>2. QED
        BY <2>1, <2>4, <3>1, <3>3, <4>1 DEF SessionSound, HasPlace, Elsewhere
    <3>4. QED
      BY <3>2, <3>3
  <2>6. QED
    BY <2>1, <2>2, <2>4, <2>5 DEF SoundInv, id
<1>3. QED
  BY <1>1, <1>2

-----------------------------------------------------------------------------
LEMMA IdsAreFinite ==
  ASSUME NEW S \in SUBSET Id
  PROVE  /\ IsFiniteSet(S) /\ Cardinality(S) \in Nat
         /\ \A T \in SUBSET S : Cardinality(T) <= Cardinality(S)
         /\ \A x : Cardinality(S \cup {x}) <= Cardinality(S) + 1
<1>1. IsFiniteSet(Id)
  BY FS_Interval, ImportAssumption DEF Id
<1>2. IsFiniteSet(S) /\ Cardinality(S) \in Nat
  BY <1>1, FS_Subset, FS_CardinalityType
<1>3. \A x : Cardinality(S \cup {x}) <= Cardinality(S) + 1
  BY <1>2, FS_AddElement
<1>4. QED
  BY <1>2, <1>3, FS_Subset

LEMMA LimitInit == UploadInit => LimitInv
<1> SUFFICES ASSUME UploadInit PROVE LimitInv
  OBVIOUS
<1>1. /\ mem = [i \in Id |-> NoSession] /\ disk = mem /\ issued = 0
      /\ chunk = [i \in Id |-> NoChunk] /\ job = [i \in Id |-> NoJob]
  BY DEF UploadInit, Init
<1>2. \A i \in Id : SessionSound(i) /\ ~HasPlace(i)
  BY <1>1, ShapeOfNone, ShapeOfNoChunk DEF SessionSound, HasPlace, NoSession
<1>3. Active = {}
  BY <1>2, ActiveIsPlaces
<1>4. Cardinality(Active) = 0
  BY <1>3, FS_EmptySet
<1>5. QED
  BY <1>1, <1>2, <1>4, ImportAssumption DEF LimitInv, SoundInv, Domains, ActiveWithinLimit

\* Every step keeps the sessions sound; only Create gives out a place.
LEMMA PlaceStep ==
  ASSUME SoundInv, [Next]_vars
  PROVE  /\ SoundInv'
         /\ NoNewPlace \/ /\ ~Full
                          /\ \E new : \A i \in Id : HasPlace(i)' => HasPlace(i) \/ i = new
<1> DEFINE Goal == /\ SoundInv'
                   /\ NoNewPlace \/ /\ ~Full
                                    /\ \E new : \A i \in Id :
                                         HasPlace(i)' => HasPlace(i) \/ i = new
<1>u. ASSUME UNCHANGED server PROVE Goal
  BY <1>u, ServerUnchanged DEF server
<1>h. ASSUME NEW c, NEW r, Handle(c, r) PROVE Goal
  <2>1. CASE Create(c, r)
    BY <2>1, CreateStep
  <2>2. CASE ~Create(c, r)
    BY <1>h, <2>2, HandleStep
  <2>3. QED
    BY <2>1, <2>2
<1>w. ASSUME NEW c \in Client, NEW r, NEW a, HangUp(c, r, a) PROVE Goal
  BY <1>w, HangUpStep
<1>b. CASE Background
  <2>1. CASE ServeLate
    BY <2>1, <1>h DEF ServeLate
  <2>2. ASSUME NEW c \in Client, Serve(c) \/ Lose(c) PROVE Goal
    BY <2>2, <1>h, <1>w DEF Serve, Lose
  <2>3. ASSUME NEW id \in Id,
               CopyChunk(id) \/ EndChunk(id) \/ ImportBatch(id) \/ EndImport(id) \/ Expire(id)
        PROVE  Goal
    BY <2>3, SmallSteps, EndChunkStep, EndImportStep
  <2>4. CASE Crash
    BY <2>4, CrashStep
  <2>5. QED
    BY <1>b, <2>1, <2>2, <2>3, <2>4 DEF Background
<1>t. ASSUME NEW t \in Client,
             \/ Unwind(t) \/ Resume(t) \/ Receive(t)
             \/ \E f \in Selects[t], id \in 0 .. issued : SelectFile(t, f, id)
      PROVE  Goal
  BY <1>t, <1>u DEF Unwind, Resume, Receive, SelectFile, Begin
<1>p. ASSUME NEW t \in Client, Pause(t) \/ CancelClick(t) \/ Lose(t) PROVE Goal
  BY <1>p, <1>w DEF Pause, CancelClick, Lose
<1>v. CASE UNCHANGED vars
  BY <1>v, <1>u DEF vars
<1>q. QED
  BY <1>b, <1>t, <1>p, <1>v DEF Next

\* At most MaxSessions sessions hold disk space: Create counts them under
\* m.mu, and no crash, restart, failing write or late request takes a place
\* that Create did not give out (import_session.go, activeSessionCountLocked).
THEOREM SessionsWithinLimit == Spec => []ActiveWithinLimit
<1>1. LimitInv /\ [Next]_vars => LimitInv'
  <2> SUFFICES ASSUME LimitInv, [Next]_vars PROVE LimitInv'
    OBVIOUS
  <2>1. SoundInv' /\ (NoNewPlace \/ ~Full)
    BY PlaceStep DEF LimitInv
  <2>2. Active \in SUBSET Id /\ Active' \in SUBSET Id
    BY DEF Active
  <2>3. Cardinality(Active) \in Nat /\ Cardinality(Active) <= MaxSessions
    BY <2>2, IdsAreFinite DEF LimitInv, ActiveWithinLimit
  <2>4. CASE NoNewPlace
    <3>1. Active' \subseteq Active
      BY <2>4, ActiveIsPlaces DEF NoNewPlace, Active, HasPlace
    <3>2. Cardinality(Active') <= Cardinality(Active)
      BY <2>2, <3>1, IdsAreFinite
    <3>3. Cardinality(Active') \in Nat
      BY <2>2, IdsAreFinite
    <3>4. QED
      BY <2>1, <2>3, <3>2, <3>3, ImportAssumption DEF LimitInv, ActiveWithinLimit
  <2>5. CASE ~NoNewPlace
    <3>1. ~Full /\ \E new : \A i \in Id : HasPlace(i)' => HasPlace(i) \/ i = new
      BY <2>5, PlaceStep DEF LimitInv
    <3>2. PICK new : \A i \in Id : HasPlace(i)' => HasPlace(i) \/ i = new
      BY <3>1
    <3>3. Active' \subseteq Active \cup {new}
      BY <3>2 DEF Active, HasPlace
    <3>4. PICK S : S = Active \cup {new} /\ IsFiniteSet(S) /\ Cardinality(S) \in Nat
      BY <2>2, IdsAreFinite, FS_AddElement, FS_CardinalityType
    <3>5. Cardinality(S) <= Cardinality(Active) + 1
      BY <2>2, <3>4, IdsAreFinite
    <3>6. Cardinality(Active') <= Cardinality(S) /\ Cardinality(Active') \in Nat
      BY <2>2, <3>3, <3>4, FS_Subset, FS_CardinalityType
    <3>7. Cardinality(Active) < MaxSessions
      BY <2>3, <3>1, ImportAssumption DEF Full
    <3>8. QED
      BY <2>1, <2>3, <3>4, <3>5, <3>6, <3>7, ImportAssumption DEF LimitInv, ActiveWithinLimit
  <2>6. QED
    BY <2>4, <2>5
<1>2. LimitInv => ActiveWithinLimit
  BY DEF LimitInv
<1>3. QED
  BY <1>1, <1>2, LimitInit, PTL DEF Spec

-----------------------------------------------------------------------------
(* The bytes of a file. *)

\* The beginnings of the files.
Beginnings == {Prefix(f, n) : f \in File, n \in 0 .. FileSize}

\* Chunk b follows d in one of the files.
Continues(d, b) ==
    \E f \in File, n \in 0 .. FileSize - 1 :
        d = Prefix(f, n) /\ b = SubSeq(Content[f], n + 1, n + 1)

LEMMA FileSequence ==
  ASSUME NEW f \in File
  PROVE  Content[f] \in Seq(Block) /\ Len(Content[f]) = FileSize
<1>1. Content[f] \in [1 .. FileSize -> Block] /\ FileSize \in Nat
  BY FilesFit, ImportAssumption
<1>2. Content[f] \in Seq(Block)
  BY <1>1, SeqDef
<1>3. DOMAIN Content[f] = 1 .. FileSize
  BY <1>1
<1>4. QED
  BY <1>1, <1>2, <1>3, LenProperties

LEMMA PrefixOfFile ==
  ASSUME NEW f \in File, NEW n \in 0 .. FileSize
  PROVE  /\ Prefix(f, n) \in Seq(Block) /\ Len(Prefix(f, n)) = n
         /\ \A k \in 1 .. n : Prefix(f, n)[k] = Content[f][k]
         /\ Prefix(f, n) \in Beginnings
<1>1. Content[f] \in Seq(Block) /\ Len(Content[f]) = FileSize /\ FileSize \in Nat
  BY FileSequence, ImportAssumption
<1>2. n \in Nat /\ n <= FileSize /\ 1 \in 1 .. Len(Content[f]) + 1 /\ n \in 1 - 1 .. Len(Content[f])
  BY <1>1
<1>3. /\ Prefix(f, n) \in Seq(Block) /\ Len(Prefix(f, n)) = n
      /\ \A k \in 1 .. n : Prefix(f, n)[k] = Content[f][k]
  BY <1>1, <1>2 DEF Prefix
<1>4. QED
  BY <1>3 DEF Beginnings

\* A beginning as long as the file is the file.
LEMMA WholeFile ==
  ASSUME NEW f \in File
  PROVE  Prefix(f, FileSize) = Content[f]
<1>1. Content[f] \in Seq(Block) /\ Len(Content[f]) = FileSize /\ FileSize \in Nat \ {0}
  BY FileSequence, ImportAssumption
<1>2. /\ Prefix(f, FileSize) \in Seq(Block) /\ Len(Prefix(f, FileSize)) = FileSize
      /\ \A k \in 1 .. FileSize : Prefix(f, FileSize)[k] = Content[f][k]
  BY <1>1, PrefixOfFile
<1>3. QED
  BY <1>1, <1>2, SeqEqual

LEMMA NoBytes == << >> \in Beginnings /\ Len(<< >>) = 0
<1>1. PICK f : f \in File
  BY FilesFit
<1>2. 0 \in 0 .. FileSize
  BY ImportAssumption
<1>3. Prefix(f, 0) \in Seq(Block) /\ Len(Prefix(f, 0)) = 0 /\ Prefix(f, 0) \in Beginnings
  BY <1>1, <1>2, PrefixOfFile
<1>4. QED
  BY <1>3, EmptySeq

LEMMA BeginningIsSeq ==
  ASSUME NEW d \in Beginnings
  PROVE  d \in Seq(Block) /\ Len(d) \in 0 .. FileSize
BY PrefixOfFile DEF Beginnings

\* With one more chunk of the file a beginning is a beginning.
LEMMA NextBeginning ==
  ASSUME NEW d, NEW b, Continues(d, b)
  PROVE  /\ d \in Beginnings /\ b \in Seq(Block) /\ Len(b) = 1
         /\ d \o b \in Beginnings /\ Len(d \o b) = Len(d) + 1
         /\ Len(d) \in Nat /\ Len(d) < FileSize
         /\ SubSeq(d \o b, 1, Len(d)) = d
<1>1. PICK f \in File, n \in 0 .. FileSize - 1 :
        d = Prefix(f, n) /\ b = SubSeq(Content[f], n + 1, n + 1)
  BY DEF Continues
<1>2. FileSize \in Nat /\ n \in Nat /\ n < FileSize /\ n \in 0 .. FileSize /\ n + 1 \in 0 .. FileSize
  BY ImportAssumption
<1>3. Content[f] \in Seq(Block) /\ Len(Content[f]) = FileSize
  BY FileSequence
<1>4. d \in Seq(Block) /\ Len(d) = n /\ d \in Beginnings /\ \A k \in 1 .. n : d[k] = Content[f][k]
  BY <1>1, <1>2, PrefixOfFile
<1>5. b \in Seq(Block) /\ Len(b) = 1 /\ b[1] = Content[f][n + 1]
  BY <1>1, <1>2, <1>3
<1>6. /\ d \o b \in Seq(Block) /\ Len(d \o b) = n + 1
      /\ \A k \in 1 .. n + 1 : (d \o b)[k] = IF k <= n THEN d[k] ELSE b[k - n]
  <2>1. d \in Seq(Block) /\ b \in Seq(Block) /\ Len(d) = n /\ Len(b) = 1
    BY <1>4, <1>5
  <2>2. /\ d \o b \in Seq(Block) /\ Len(d \o b) = Len(d) + Len(b)
        /\ \A k \in 1 .. Len(d) + Len(b) : (d \o b)[k] =
              IF k <= Len(d) THEN d[k] ELSE b[k - Len(d)]
    BY <2>1, ConcatProperties
  <2>3. QED
    BY <2>1, <2>2
<1>7. \A k \in 1 .. n + 1 : (d \o b)[k] = Prefix(f, n + 1)[k]
  <2> TAKE k \in 1 .. n + 1
  <2>1. Prefix(f, n + 1)[k] = Content[f][k]
    BY <1>2, PrefixOfFile
  <2>2. CASE k <= n
    BY <1>2, <1>4, <1>6, <2>1, <2>2
  <2>3. CASE k = n + 1
    BY <1>2, <1>5, <1>6, <2>1, <2>3
  <2>4. k <= n \/ k = n + 1
    BY <1>2
  <2>5. QED
    BY <2>2, <2>3, <2>4
<1>8. d \o b = Prefix(f, n + 1)
  <2>1. Prefix(f, n + 1) \in Seq(Block) /\ Len(Prefix(f, n + 1)) = n + 1
    BY <1>2, PrefixOfFile
  <2>2. QED
    BY <1>6, <1>7, <2>1, SeqEqual
<1>9. SubSeq(d \o b, 1, Len(d)) = d
  <2>1. /\ SubSeq(d \o b, 1, n) \in Seq(Block) /\ Len(SubSeq(d \o b, 1, n)) = n
        /\ \A k \in 1 .. n : SubSeq(d \o b, 1, n)[k] = (d \o b)[k]
    BY <1>2, <1>6
  <2>2. \A k \in 1 .. n : SubSeq(d \o b, 1, n)[k] = d[k]
    BY <1>2, <1>6, <2>1
  <2>3. QED
    BY <1>4, <2>1, <2>2, SeqEqual
<1>10. QED
  BY <1>2, <1>4, <1>5, <1>6, <1>8, <1>9, PrefixOfFile

LEMMA PrefixOfItself ==
  ASSUME NEW s \in Seq(Block)
  PROVE  IsPrefix(s, s) /\ IsPrefix(<< >>, s) /\ SubSeq(s, 1, Len(s)) = s
<1>1. Len(s) \in Nat
  OBVIOUS
<1>2. /\ SubSeq(s, 1, Len(s)) \in Seq(Block) /\ Len(SubSeq(s, 1, Len(s))) = Len(s)
      /\ \A k \in 1 .. Len(s) : SubSeq(s, 1, Len(s))[k] = s[k]
  BY <1>1
<1>3. SubSeq(s, 1, Len(s)) = s
  BY <1>2, SeqEqual
<1>4. Len(<< >>) = 0 /\ SubSeq(<< >>, 1, 0) = << >> /\ SubSeq(s, 1, 0) = << >>
  BY <1>1
<1>5. QED
  BY <1>1, <1>3, <1>4 DEF IsPrefix

LEMMA PrefixOfLonger ==
  ASSUME NEW s \in Seq(Block), NEW t \in Seq(Block), NEW u \in Seq(Block),
         IsPrefix(s, t), IsPrefix(t, u)
  PROVE  IsPrefix(s, u)
<1>1. Len(s) \in Nat /\ Len(t) \in Nat /\ Len(u) \in Nat /\ Len(s) <= Len(t) /\ Len(t) <= Len(u)
  BY DEF IsPrefix
<1>2. \A k \in 1 .. Len(t) : t[k] = u[k]
  <2>1. SubSeq(t, 1, Len(t)) = SubSeq(u, 1, Len(t))
    BY DEF IsPrefix
  <2>2. \A k \in 1 .. Len(t) : SubSeq(t, 1, Len(t))[k] = t[k] /\ SubSeq(u, 1, Len(t))[k] = u[k]
    BY <1>1
  <2>3. QED
    BY <2>1, <2>2
<1>3. SubSeq(s, 1, Len(s)) = SubSeq(t, 1, Len(s))
  BY DEF IsPrefix
<1>4. SubSeq(t, 1, Len(s)) = SubSeq(u, 1, Len(s))
  <2>1. /\ SubSeq(t, 1, Len(s)) \in Seq(Block) /\ Len(SubSeq(t, 1, Len(s))) = Len(s)
        /\ \A k \in 1 .. Len(s) : SubSeq(t, 1, Len(s))[k] = t[k]
    BY <1>1
  <2>2. /\ SubSeq(u, 1, Len(s)) \in Seq(Block) /\ Len(SubSeq(u, 1, Len(s))) = Len(s)
        /\ \A k \in 1 .. Len(s) : SubSeq(u, 1, Len(s))[k] = u[k]
    BY <1>1
  <2>3. \A k \in 1 .. Len(s) : SubSeq(t, 1, Len(s))[k] = SubSeq(u, 1, Len(s))[k]
    BY <1>1, <1>2, <2>1, <2>2
  <2>4. QED
    BY <2>1, <2>2, <2>3, SeqEqual
<1>5. QED
  BY <1>1, <1>3, <1>4 DEF IsPrefix

LEMMA PrefixOfNext ==
  ASSUME NEW d, NEW b, Continues(d, b)
  PROVE  IsPrefix(d, d \o b)
<1>1. /\ d \in Seq(Block) /\ d \o b \in Seq(Block) /\ Len(d \o b) = Len(d) + 1
      /\ SubSeq(d \o b, 1, Len(d)) = d /\ Len(d) \in Nat
  BY NextBeginning, BeginningIsSeq
<1>2. SubSeq(d, 1, Len(d)) = d
  BY <1>1, PrefixOfItself
<1>3. QED
  BY <1>1, <1>2 DEF IsPrefix

-----------------------------------------------------------------------------
(* What memory, the metadata and the .part files say of the same bytes. *)

GoodSession == [status : Statuses, digest : Beginnings, key : Nat,
                retryable : BOOLEAN, cancel : BOOLEAN]

\* What the .part file of a session that reserves space holds.
Held(i) == IF chunk[i].copied THEN mem[i].digest \o chunk[i].block ELSE mem[i].digest

\* Session i is whole, and its first n chunks are in the event store.
InStore(i, n) == Len(mem[i].digest) = FileSize /\ \A k \in 1 .. n : mem[i].digest[k] \in imported

Dropped(s) == s.status \in {"none", "cancelled"}

StoreOK(i) ==
    /\ mem[i] \in GoodSession /\ disk[i] \in GoodSession
    \* memory and disk agree about the bytes, and the file has them
    /\ disk[i].digest = mem[i].digest
    /\ data[i] = IF Reserves(mem[i]) THEN Held(i) ELSE << >>
    /\ synced[i] = IF Reserves(mem[i]) THEN Len(mem[i].digest) ELSE 0
    \* what is uploading is not whole, and a chunk under way fits
    /\ mem[i].status = "uploading" => Len(mem[i].digest) < FileSize
    /\ chunk[i] # NoChunk => Continues(mem[i].digest, chunk[i].block)
    \* what is imported is whole
    /\ job[i] # NoJob => job[i] \in 0 .. FileSize /\ InStore(i, job[i])
    /\ mem[i].status = "completed" \/ disk[i].status = "completed" => InStore(i, FileSize)
    \* a cancellation is final on disk before it is final in memory
    /\ mem[i].cancel => mem[i].status \in {"uploading", "processing"}
    /\ Dropped(mem[i]) => disk[i].cancel \/ Dropped(disk[i])

Tables ==
    /\ mem = [i \in Id |-> mem[i]] /\ disk = [i \in Id |-> disk[i]]
    /\ data = [i \in Id |-> data[i]] /\ synced = [i \in Id |-> synced[i]]
    /\ job = [i \in Id |-> job[i]]

Numbers ==
    /\ issued \in 0 .. MaxId /\ faults \in 0 .. MaxFaults
    /\ verified \subseteq Id /\ imported \subseteq Block

StoreInv == Tables /\ Numbers /\ \A i \in Id : StoreOK(i)

\* A session that will not take another chunk and will not complete.
Final(s) == Dropped(s) \/ (s.status = "processing" /\ s.cancel)

\* What a step may do to session i: create it; or drop it, or give it a chunk
\* more.  None takes up space again, and what is final stays final.
Moves(i) ==
    \/ i > issued /\ i <= issued' /\ mem'[i].digest = << >>
    \/ /\ \/ mem'[i].digest = mem[i].digest
          \/ mem'[i].status = "none"
          \/ /\ Reserves(mem[i]) /\ Len(mem[i].digest) < FileSize
             /\ IsPrefix(mem[i].digest, mem'[i].digest)
       /\ Reserves(mem'[i]) => Reserves(mem[i])
       /\ Final(mem[i]) => Final(mem'[i])

StoreStep == StoreInv' /\ (\A i \in Id : Moves(i)) /\ imported \subseteq imported' /\ issued <= issued'

LEMMA GoodEnds ==
  ASSUME NEW s \in GoodSession, NEW b \in BOOLEAN
  PROVE  /\ Cancelled(s) \in GoodSession /\ Cancelled(s).digest = s.digest
         /\ Cancelled(s).status = "cancelled" /\ ~Cancelled(s).cancel
         /\ Failed(s, b) \in GoodSession /\ Failed(s, b).digest = s.digest
         /\ Failed(s, b).status = "failed" /\ Failed(s, b).retryable = b
         /\ ~Failed(s, b).cancel
         /\ Completed(s) \in GoodSession /\ Completed(s).digest = s.digest
         /\ Completed(s).status = "completed" /\ Completed(s).cancel = s.cancel
         /\ [s EXCEPT !.cancel = TRUE] \in GoodSession
  BY DEF GoodSession, Cancelled, Failed, Completed, Statuses

LEMMA GoodNone ==
  /\ NoSession \in GoodSession /\ NoSession.digest = << >> /\ NoSession.status = "none"
  /\ ~Reserves(NoSession) /\ Dropped(NoSession)
  /\ \A k \in Nat : /\ [NoSession EXCEPT !.status = "uploading", !.key = k] \in GoodSession
                    /\ [NoSession EXCEPT !.status = "uploading", !.key = k].digest = << >>
  BY NoBytes DEF GoodSession, NoSession, Statuses, Reserves, Dropped

\* What a restart reads back beside a file that has the session's bytes.
LEMMA GoodRecovered ==
  ASSUME NEW s \in GoodSession, NEW d,
         Reserves(s) /\ ~s.cancel => IsPrefix(s.digest, d)
  PROVE  LET r == Recovered(s, d) IN
         /\ r \in GoodSession /\ ~r.cancel
         /\ r.digest = s.digest \/ (r.status = "none" /\ r.digest = << >>)
         /\ r.status = "uploading" => Len(r.digest) < FileSize
         /\ r.status = "completed" => s.status = "completed" /\ r.digest = s.digest
         /\ s.cancel \/ Dropped(s) => Dropped(r)
         /\ Reserves(r) => Reserves(s) /\ ~s.cancel /\ r.digest = s.digest
<1> DEFINE r == Recovered(s, d)
<1>0. /\ s.cancel \in BOOLEAN /\ s.retryable \in BOOLEAN /\ s.status \in Statuses
      /\ Len(s.digest) \in 0 .. FileSize /\ FileSize \in Nat
  BY BeginningIsSeq, ImportAssumption DEF GoodSession
<1>1. CASE s.cancel
  <2>1. r = NoSession \/ r = Cancelled(s)
    BY <1>1 DEF Recovered
  <2>2. r \in GoodSession /\ Dropped(r) /\ ~Reserves(r) /\ ~r.cancel
        /\ (r.digest = s.digest \/ (r.status = "none" /\ r.digest = << >>))
    <3>1. CASE r = NoSession
      BY <3>1, GoodNone, ShapeOfNone
    <3>2. CASE r = Cancelled(s)
      <4>1. /\ Cancelled(s) \in GoodSession /\ Cancelled(s).digest = s.digest
            /\ Cancelled(s).status = "cancelled" /\ ~Cancelled(s).cancel
        BY TRUE \in BOOLEAN, GoodEnds
      <4>2. QED
        BY <3>2, <4>1 DEF Dropped, Reserves
    <3>3. QED
      BY <2>1, <3>1, <3>2
  <2> HIDE DEF r
  <2>3. QED
    BY <2>2 DEF Dropped, r
<1>2. CASE ~s.cancel /\ Reserves(s)
  <2> DEFINE k == [s EXCEPT !.digest = s.digest]
  <2>1. k = s /\ k \in GoodSession
    BY DEF GoodSession
  <2>2. r = CASE s.status = "processing" ->
                   [k EXCEPT !.status = IF Len(s.digest) = FileSize THEN "ready" ELSE "uploading",
                             !.retryable = FALSE]
              [] s.status = "uploading" ->
                   [k EXCEPT !.status = IF Len(s.digest) = FileSize THEN "ready" ELSE @]
              [] s.status \in {"ready", "failed"} ->
                   IF Len(s.digest) = FileSize THEN k
                   ELSE [k EXCEPT !.status = "uploading", !.retryable = FALSE]
    BY <1>2 DEF Recovered, Resumed, Reserves
  <2> HIDE DEF r, k
  <2>3. r \in GoodSession /\ r.digest = s.digest /\ ~r.cancel /\ r.status \notin {"completed", "none", "cancelled"}
        /\ (r.status = "uploading" => Len(r.digest) < FileSize)
    <3>1. CASE s.status = "processing"
      <4>1. r = [s EXCEPT !.status = IF Len(s.digest) = FileSize THEN "ready" ELSE "uploading",
                          !.retryable = FALSE]
        BY <2>1, <2>2, <3>1
      <4>2. PICK st \in {"ready", "uploading"} : st = IF Len(s.digest) = FileSize THEN "ready" ELSE "uploading"
        OBVIOUS
      <4>3. r = [s EXCEPT !.status = st, !.retryable = FALSE]
        BY <4>1, <4>2
      <4>4. r \in GoodSession /\ r.digest = s.digest /\ r.status = st /\ ~r.cancel
        BY <1>2, <4>3 DEF GoodSession, Statuses
      <4>5. st = "uploading" => Len(s.digest) < FileSize
        BY <1>0, <4>2
      <4>6. QED
        BY <4>4, <4>5
    <3>2. CASE s.status = "uploading"
      BY <1>0, <1>2, <2>1, <2>2, <3>2 DEF GoodSession, Statuses
    <3>3. CASE s.status \in {"ready", "failed"}
      <4>1. r = IF Len(s.digest) = FileSize THEN s
                ELSE [s EXCEPT !.status = "uploading", !.retryable = FALSE]
        BY <2>1, <2>2, <3>3
      <4>2. CASE Len(s.digest) = FileSize
        BY <1>2, <3>3, <4>1, <4>2
      <4>3. CASE Len(s.digest) # FileSize
        <5>1. r = [s EXCEPT !.status = "uploading", !.retryable = FALSE]
          BY <4>1, <4>3
        <5>2. r \in GoodSession /\ r.digest = s.digest /\ r.status = "uploading" /\ ~r.cancel
          BY <1>2, <5>1 DEF GoodSession, Statuses
        <5>3. QED
          BY <1>0, <4>3, <5>2
      <4>4. QED
        BY <4>2, <4>3
    <3>4. QED
      BY <1>2, <3>1, <3>2, <3>3 DEF Reserves
  <2>4. ~Dropped(s)
    BY <1>2 DEF Dropped, Reserves
  <2>5. QED
    BY <1>2, <2>3, <2>4 DEF r
<1>3. CASE ~s.cancel /\ ~Reserves(s)
  <2>1. r = s
    BY <1>3 DEF Recovered
  <2>2. r.status # "uploading"
    BY <1>3, <2>1 DEF Reserves
  <2> HIDE DEF r
  <2>3. QED
    BY <1>3, <2>1, <2>2 DEF r
<1>4. QED
  BY <1>0, <1>1, <1>2, <1>3

\* A request that a tab has made.
RequestOK(r) ==
    /\ r.op = "create" => r.key \in Nat
    /\ r.op = "chunk" => Continues(r.digest, r.block)

FilesElsewhere(id) ==
    \A i \in Id : i # id => data'[i] = data[i] /\ synced'[i] = synced[i]

LEMMA StaysInStore ==
  ASSUME NEW i, NEW n, InStore(i, n), mem'[i].digest = mem[i].digest, imported \subseteq imported'
  PROVE  InStore(i, n)'
  BY DEF InStore

LEMMA OneStore ==
  ASSUME StoreInv, NEW id \in Id, Elsewhere(id), FilesElsewhere(id), Tables', Numbers',
         imported \subseteq imported', issued <= issued', StoreOK(id)', Moves(id)
  PROVE  StoreStep
<1>1. ASSUME NEW i \in Id PROVE StoreOK(i)' /\ Moves(i)
  <2>1. CASE i = id
    BY <2>1
  <2>2. CASE i # id
    <3>1. /\ mem'[i] = mem[i] /\ disk'[i] = disk[i] /\ data'[i] = data[i]
          /\ synced'[i] = synced[i] /\ chunk'[i] = chunk[i] /\ job'[i] = job[i]
      BY <2>2 DEF Elsewhere, FilesElsewhere
    <3>2. StoreOK(i) /\ Held(i)' = Held(i) /\ \A n : InStore(i, n) => InStore(i, n)'
      BY <3>1, StaysInStore DEF StoreInv, Held
    <3>3. QED
      BY <3>1, <3>2 DEF StoreOK, Moves
  <2>3. QED
    BY <2>1, <2>2
<1>2. QED
  BY <1>1 DEF StoreStep, StoreInv

LEMMA SameStore ==
  ASSUME StoreInv, UNCHANGED <<mem, disk, data, synced, chunk, job, issued, imported>>,
         verified' \subseteq Id, faults' \in 0 .. MaxFaults
  PROVE  StoreStep
<1>1. Tables' /\ Numbers' /\ imported \subseteq imported' /\ issued <= issued'
  BY ImportAssumption DEF StoreInv, Tables, Numbers
<1>2. ASSUME NEW i \in Id PROVE StoreOK(i)' /\ Moves(i)
  <2>1. StoreOK(i) /\ Held(i)' = Held(i) /\ \A n : InStore(i, n) => InStore(i, n)'
    BY StaysInStore DEF StoreInv, Held
  <2>2. QED
    BY <2>1 DEF StoreOK, Moves
<1>3. QED
  BY <1>1, <1>2 DEF StoreStep, StoreInv

\* A session without a chunk under way has its bytes in the file.
LEMMA StoredBytes ==
  ASSUME StoreInv, NEW i \in Id, chunk[i] = NoChunk
  PROVE  /\ data[i] = IF Reserves(mem[i]) THEN mem[i].digest ELSE << >>
         /\ data[i] # << >> => Reserves(mem[i]) /\ data[i] = mem[i].digest
  BY DEF StoreInv, StoreOK, Held, NoChunk

\* The chunk that WriteChunk takes is the next one of a file.
LEMMA ChunkTaken ==
  ASSUME StoreInv, SoundInv, NEW c, NEW r, r.op = "chunk", RequestOK(r), StartChunk(c, r)
  PROVE  StoreStep
<1>n. /\ FileSize \in Nat /\ faults \in 0 .. MaxFaults /\ verified \subseteq Id
      /\ issued <= issued
  BY ImportAssumption DEF StoreInv, Numbers
<1>1. CASE Refuse(c, ChunkRefusal(r.id, r))
  BY <1>1, <1>n, SameStore DEF Refuse, server, NoFault
<1>2. CASE ~Refuse(c, ChunkRefusal(r.id, r))
  <2> DEFINE id == r.id
  <2>1. /\ ChunkRefusal(id, r) = ""
        /\ chunk' = [chunk EXCEPT ![id] = [NoChunk EXCEPT !.by = c, !.block = r.block]]
        /\ UNCHANGED <<mem, disk, data, synced, verified, job, issued, imported, faults>>
    BY <1>2 DEF StartChunk, NoFault
  <2>2. /\ id \in Id /\ chunk[id] = NoChunk /\ mem[id].status = "uploading"
        /\ Len(r.digest) = Len(mem[id].digest)
        /\ r.digest # << >> => r.digest = mem[id].digest
    BY <2>1 DEF ChunkRefusal, Found
  <2>3. r.digest = mem[id].digest
    <3>1. r.digest \in Beginnings /\ mem[id].digest \in Beginnings
      BY <2>2, NextBeginning DEF RequestOK, StoreInv, StoreOK, GoodSession
    <3>2. CASE r.digest = << >>
      <4>1. Len(mem[id].digest) = 0 /\ mem[id].digest \in Seq(Block)
        BY <2>2, <3>1, <3>2, NoBytes, BeginningIsSeq
      <4>2. QED
        BY <3>2, <4>1, EmptySeq
    <3>3. QED
      BY <2>2, <3>2
  <2>4. Continues(mem[id].digest, r.block)
    BY <2>3 DEF RequestOK
  <2>5. chunk'[id].copied = FALSE /\ chunk'[id].block = r.block /\ chunk[id].copied = FALSE
    <3>1. chunk'[id] = [NoChunk EXCEPT !.by = c, !.block = r.block]
      BY <2>1, <2>2 DEF SoundInv, Domains
    <3>2. QED
      BY <2>2, <3>1 DEF NoChunk
  <2> HIDE DEF id
  <2>6. Elsewhere(id) /\ FilesElsewhere(id) /\ Tables' /\ Numbers'
    BY <2>1, <2>2 DEF StoreInv, Tables, Numbers, SoundInv, Domains, Elsewhere, FilesElsewhere, id
  <2>7. Held(id)' = Held(id) /\ StoreOK(id) /\ \A n : InStore(id, n) => InStore(id, n)'
    BY <2>1, <2>2, <2>5, StaysInStore DEF StoreInv, Held
  <2>8. StoreOK(id)' /\ Moves(id)
    BY <2>1, <2>4, <2>5, <2>7 DEF StoreOK, Moves
  <2>9. issued <= issued' /\ imported \subseteq imported'
    BY <1>n, <2>1
  <2>10. QED
    BY <2>2, <2>6, <2>8, <2>9, OneStore
<1>3. QED
  BY <1>1, <1>2

\* A completed upload is whole when its import starts.
LEMMA CompleteStored ==
  ASSUME StoreInv, SoundInv, NEW c, NEW r, Complete(c, r)
  PROVE  StoreStep
<1>n. /\ FileSize \in Nat \ {0} /\ faults \in 0 .. MaxFaults /\ verified \subseteq Id
      /\ issued <= issued
  BY ImportAssumption DEF StoreInv, Numbers
<1>1. CASE UNCHANGED <<server, faults>>
  BY <1>1, <1>n, SameStore DEF server
<1>2. CASE ~UNCHANGED <<server, faults>>
  <2> DEFINE id == r.id
  <2> DEFINE t == [mem[id] EXCEPT !.status = "processing", !.retryable = FALSE, !.cancel = FALSE]
  <2>1. /\ id \in Id /\ mem[id].status \notin {"none", "processing", "completed"}
        /\ CompleteRefusal(id) = "" /\ Save(id, t) /\ job' = [job EXCEPT ![id] = 0]
        /\ UNCHANGED <<data, synced, verified, chunk, issued, imported, faults>>
    BY <1>2 DEF Complete, Refuse, Found, NoFault
  <2>2. /\ chunk[id] = NoChunk /\ Len(data[id]) = FileSize /\ data[id] = mem[id].digest
        /\ mem[id].status # "cancelled"
    BY <2>1 DEF CompleteRefusal
  <2>3. StoreOK(id) /\ mem[id] \in GoodSession
    BY <2>1 DEF StoreInv, StoreOK
  <2>4. t \in GoodSession /\ t.digest = mem[id].digest /\ t.status = "processing" /\ ~t.cancel
    BY <2>3 DEF GoodSession, Statuses
  <2>5. Reserves(mem[id])
    BY <1>n, <2>1, <2>2, StoredBytes, NoBytes
  <2> HIDE DEF t, id
  <2>6. mem'[id] = t /\ disk'[id] = t /\ Elsewhere(id) /\ job'[id] = 0
    BY <2>1, SavedSession DEF SoundInv, Domains, Elsewhere
  <2>7. FilesElsewhere(id) /\ Tables' /\ Numbers'
    BY <2>1 DEF Save, StoreInv, Tables, Numbers, FilesElsewhere
  <2>8. Held(id) = mem[id].digest /\ Held(id)' = t.digest
    <3>1. ~NoChunk.copied
      BY DEF NoChunk
    <3>2. chunk'[id] = NoChunk /\ chunk[id] = NoChunk
      BY <2>1, <2>2
    <3>3. QED
      BY <2>6, <3>1, <3>2 DEF Held
  <2>9. StoreOK(id)'
    <3>1. Reserves(t) /\ Reserves(mem[id]) /\ ~Dropped(t)
      BY <2>4, <2>5 DEF Reserves, Dropped
    <3>2. InStore(id, 0)' /\ 0 \in 0 .. FileSize
      <4>1. Len(mem'[id].digest) = FileSize /\ 1 .. 0 = {}
        BY <2>2, <2>4, <2>6
      <4>2. QED
        BY <1>n, <4>1 DEF InStore
    <3>3. data'[id] = t.digest /\ synced'[id] = Len(t.digest)
      BY <2>1, <2>2, <2>3, <2>4, <3>1 DEF StoreOK
    <3>4. chunk'[id] = NoChunk
      BY <2>1, <2>2
    <3>5. QED
      BY <2>4, <2>6, <2>8, <3>1, <3>2, <3>3, <3>4 DEF StoreOK
  <2>10. Moves(id)
    BY <2>1, <2>2, <2>4, <2>5, <2>6 DEF Moves, Final, Dropped
  <2>11. issued <= issued' /\ imported \subseteq imported'
    BY <1>n, <2>1
  <2>12. QED
    BY <2>1, <2>6, <2>7, <2>9, <2>10, <2>11, OneStore
<1>3. QED
  BY <1>1, <1>2

\* What to show of a session that nothing is copied to or imported from.
LEMMA IdleStored ==
  ASSUME NEW i, chunk'[i] = NoChunk, job'[i] = NoJob,
         mem'[i] \in GoodSession, disk'[i] \in GoodSession, disk'[i].digest = mem'[i].digest,
         data'[i] = IF Reserves(mem'[i]) THEN mem'[i].digest ELSE << >>,
         synced'[i] = IF Reserves(mem'[i]) THEN Len(mem'[i].digest) ELSE 0,
         mem'[i].status = "uploading" => Len(mem'[i].digest) < FileSize,
         mem'[i].status = "completed" \/ disk'[i].status = "completed" => InStore(i, FileSize)',
         mem'[i].cancel => mem'[i].status \in {"uploading", "processing"},
         Dropped(mem'[i]) => disk'[i].cancel \/ Dropped(disk'[i])
  PROVE  StoreOK(i)'
<1>1. ~NoChunk.copied
  BY DEF NoChunk
<1>2. Held(i)' = mem'[i].digest
  BY <1>1 DEF Held
<1>3. QED
  BY <1>2 DEF StoreOK

\* A cancelled session keeps nothing.
LEMMA CancelStored ==
  ASSUME StoreInv, SoundInv, NEW c, NEW r, Cancel(c, r)
  PROVE  StoreStep
<1>n. /\ FileSize \in Nat \ {0} /\ faults \in 0 .. MaxFaults /\ verified \subseteq Id
      /\ issued <= issued
  BY ImportAssumption DEF StoreInv, Numbers
<1>1. CASE UNCHANGED <<server, faults>>
  BY <1>1, <1>n, SameStore DEF server
<1>2. CASE ~UNCHANGED <<server, faults>>
  <2> DEFINE id == r.id
  <2>1. /\ id \in Id /\ mem[id].status \notin {"none", "completed", "cancelled"}
        /\ CancelChunk(c, id) \/ CancelImport(c, id) \/ CancelIdle(c, id)
        /\ faults' = faults
    BY <1>2 DEF Cancel, Refuse, Found, NoFault
  <2>2. /\ StoreOK(id) /\ SessionSound(id) /\ mem[id] \in GoodSession
        /\ mem[id].cancel \in BOOLEAN
    BY <2>1 DEF StoreInv, StoreOK, SoundInv, GoodSession
  <2> HIDE DEF id
  <2>3. CASE CancelChunk(c, id) \/ CancelImport(c, id)
    <3> DEFINE t == [mem[id] EXCEPT !.cancel = TRUE]
    <3>1. /\ t \in GoodSession /\ t.digest = mem[id].digest /\ t.status = mem[id].status
          /\ t.retryable = mem[id].retryable /\ t.cancel
      BY <2>2 DEF GoodSession
    <3>2. /\ Save(id, t) /\ UNCHANGED <<data, synced, verified, job, issued, imported>>
          /\ chunk' = chunk \/ (chunk[id] # NoChunk /\ chunk' = [chunk EXCEPT ![id].cancellers = @ \cup {c}])
          /\ mem[id].status \in {"uploading", "processing"}
      BY <2>2, <2>3 DEF CancelChunk, CancelImport, SessionSound
    <3> HIDE DEF t
    <3>3. mem'[id] = t /\ disk'[id] = t /\ Elsewhere(id)
      BY <2>1, <3>2, SavedSession DEF SoundInv, Domains, Elsewhere
    <3>4. FilesElsewhere(id) /\ Tables' /\ Numbers' /\ issued <= issued' /\ imported \subseteq imported'
      BY <1>n, <2>1, <3>2 DEF Save, StoreInv, Tables, Numbers, FilesElsewhere
    <3>5. /\ chunk'[id].copied = chunk[id].copied /\ chunk'[id].block = chunk[id].block
          /\ chunk[id] = NoChunk => chunk'[id] = NoChunk
      <4>1. CASE chunk' = chunk
        BY <4>1
      <4>2. CASE chunk[id] # NoChunk /\ chunk' = [chunk EXCEPT ![id].cancellers = @ \cup {c}]
        <5>1. chunk'[id] = [chunk[id] EXCEPT !.cancellers = @ \cup {c}]
          BY <2>1, <4>2 DEF SoundInv, Domains
        <5>2. QED
          BY <2>2, <4>2, <5>1 DEF SessionSound, ChunkShape
      <4>3. QED
        BY <3>2, <4>1, <4>2
    <3>6. Held(id)' = Held(id) /\ \A n : InStore(id, n) => InStore(id, n)'
      BY <3>1, <3>3, <3>4, <3>5, StaysInStore DEF Held
    <3>7. StoreOK(id)'
      <4>1. (Reserves(t) <=> Reserves(mem[id])) /\ ~Dropped(t)
        BY <3>1, <3>2 DEF Reserves, Dropped
      <4>2. data'[id] = data[id] /\ synced'[id] = synced[id] /\ job'[id] = job[id]
        BY <3>2
      <4>3. QED
        BY <2>2, <3>1, <3>2, <3>3, <3>5, <3>6, <4>1, <4>2 DEF StoreOK
    <3>8. Moves(id)
      BY <3>1, <3>2, <3>3 DEF Moves, Final, Dropped, Reserves
    <3>9. QED
      BY <2>1, <3>3, <3>4, <3>7, <3>8, OneStore
  <2>4. CASE CancelIdle(c, id)
    <3> DEFINE t == Cancelled(mem[id])
    <3>1. t \in GoodSession /\ t.digest = mem[id].digest /\ t.status = "cancelled" /\ ~t.cancel
      BY <2>2, TRUE \in BOOLEAN, GoodEnds
    <3>2. /\ chunk[id] = NoChunk /\ job[id] = NoJob /\ Save(id, t)
          /\ data' = [data EXCEPT ![id] = << >>] /\ synced' = [synced EXCEPT ![id] = 0]
          /\ UNCHANGED <<verified, chunk, job, issued, imported>>
      BY <2>4 DEF CancelIdle
    <3> HIDE DEF t
    <3>3. mem'[id] = t /\ disk'[id] = t /\ Elsewhere(id)
      BY <2>1, <3>2, SavedSession DEF SoundInv, Domains, Elsewhere
    <3>4. FilesElsewhere(id) /\ Tables' /\ Numbers' /\ issued <= issued' /\ imported \subseteq imported'
      BY <1>n, <2>1, <3>2 DEF Save, StoreInv, Tables, Numbers, FilesElsewhere
    <3>5. data'[id] = << >> /\ synced'[id] = 0 /\ chunk'[id] = NoChunk /\ job'[id] = NoJob
      BY <2>1, <3>2 DEF StoreInv, Tables
    <3>6. ~Reserves(t) /\ Dropped(t)
      BY <3>1 DEF Reserves, Dropped
    <3>7. StoreOK(id)'
      BY <3>1, <3>3, <3>5, <3>6, IdleStored
    <3>8. Moves(id)
      BY <3>1, <3>3, <3>6 DEF Moves, Final
    <3>9. QED
      BY <2>1, <3>3, <3>4, <3>7, <3>8, OneStore
  <2>5. QED
    BY <2>1, <2>3, <2>4
<1>3. QED
  BY <1>1, <1>2

\* A new session has an identifier that nothing was kept under.
LEMMA CreateStored ==
  ASSUME StoreInv, SoundInv, NEW c, NEW r, r.op = "create", RequestOK(r), Create(c, r)
  PROVE  StoreStep
<1>n. /\ FileSize \in Nat \ {0} /\ faults \in 0 .. MaxFaults /\ verified \subseteq Id
      /\ issued \in 0 .. MaxId /\ issued <= issued /\ MaxId \in Nat
  BY ImportAssumption DEF StoreInv, Numbers
<1>1. CASE UNCHANGED <<server, faults>>
  BY <1>1, <1>n, SameStore DEF server
<1>2. CASE ~UNCHANGED <<server, faults>>
  <2> DEFINE t == [NoSession EXCEPT !.status = "uploading", !.key = r.key]
  <2>0. issued < MaxId
    BY <1>2 DEF Create, Refuse, NoFault
  <2> PICK id \in Id : id = issued + 1
    BY <1>n, <2>0 DEF Id
  <2>1. /\ Save(id, t) /\ issued' = id
        /\ UNCHANGED <<data, synced, verified, chunk, job, imported, faults>>
    BY <1>2 DEF Create, Refuse, NoFault
  <2>2. id > issued /\ issued <= id /\ issued' \in 0 .. MaxId
    BY <1>n, <2>0, <2>1
  <2>3. r.key \in Nat
    BY DEF RequestOK
  <2>4. t \in GoodSession /\ t.digest = << >> /\ t.status = "uploading" /\ ~t.cancel
    BY <2>3, GoodNone DEF NoSession
  <2>5. /\ StoreOK(id) /\ SessionSound(id)
        /\ mem[id].status = "none"
    BY <2>2 DEF StoreInv, SoundInv, SessionSound
  <2>6. chunk[id] = NoChunk /\ job[id] = NoJob /\ ~Reserves(mem[id])
    BY <2>5 DEF SessionSound, Reserves
  <2>7. data[id] = << >> /\ synced[id] = 0
    BY <2>5, <2>6 DEF StoreOK
  <2>8. id <= issued'
    BY <1>n, <2>1
  <2>9. issued <= issued' /\ imported \subseteq imported'
    BY <2>1, <2>2
  <2> HIDE DEF t
  <2>10. mem'[id] = t /\ disk'[id] = t /\ Elsewhere(id)
    BY <2>1, <2>2, SavedSession DEF SoundInv, Domains, Elsewhere
  <2>11. FilesElsewhere(id) /\ Tables' /\ Numbers'
    BY <1>n, <2>1, <2>2 DEF Save, StoreInv, Tables, Numbers, FilesElsewhere
  <2>12. Reserves(t) /\ ~Dropped(t)
    BY <2>4 DEF Reserves, Dropped
  <2>13. StoreOK(id)'
    <3>1. Len(t.digest) = 0
      BY <2>4, NoBytes
    <3>2. data'[id] = << >> /\ synced'[id] = 0 /\ chunk'[id] = NoChunk /\ job'[id] = NoJob
      BY <2>1, <2>6, <2>7
    <3>3. /\ data'[id] = IF Reserves(mem'[id]) THEN mem'[id].digest ELSE << >>
          /\ synced'[id] = IF Reserves(mem'[id]) THEN Len(mem'[id].digest) ELSE 0
      BY <2>4, <2>10, <2>12, <3>1, <3>2
    <3>4. Len(mem'[id].digest) < FileSize
      BY <1>n, <2>4, <2>10, <3>1
    <3>5. QED
      BY <2>4, <2>10, <2>12, <3>2, <3>3, <3>4, IdleStored
  <2>14. Moves(id)
    BY <2>2, <2>4, <2>8, <2>10 DEF Moves
  <2>15. QED
    BY <2>9, <2>10, <2>11, <2>13, <2>14, OneStore
<1>3. QED
  BY <1>1, <1>2

LEMMA HandleStored ==
  ASSUME StoreInv, SoundInv, NEW c, NEW r, RequestOK(r), Handle(c, r)
  PROVE  StoreStep
<1>n. faults \in 0 .. MaxFaults /\ verified \subseteq Id
  BY DEF StoreInv, Numbers
<1>1. CASE GetSession(c, r)
  BY <1>1, <1>n, SameStore DEF GetSession, Refuse, server, NoFault
<1>2. CASE ValidatePrefix(c, r)
  <2>1. CASE UNCHANGED <<server, faults>>
    BY <1>n, <2>1, SameStore DEF server
  <2>2. CASE ~UNCHANGED <<server, faults>>
    <3>1. r.id \in Id /\ verified' = verified \cup {r.id} /\ faults' = faults
          /\ UNCHANGED <<mem, disk, data, synced, chunk, job, issued, imported>>
      BY <1>2, <2>2 DEF ValidatePrefix, Refuse, NoFault, Found
    <3>2. QED
      BY <1>n, <3>1, SameStore
  <2>3. QED
    BY <2>1, <2>2
<1>3. QED
  BY <1>1, <1>2, ChunkTaken, CompleteStored, CancelStored, CreateStored DEF Handle

LEMMA FaultCounted ==
  ASSUME Numbers, NoFault \/ Fault
  PROVE  faults' \in 0 .. MaxFaults
  BY ImportAssumption DEF Numbers, NoFault, Fault

\* The bytes of a chunk reach the file before anybody counts on them.
LEMMA CopyStored ==
  ASSUME StoreInv, SoundInv, NEW id \in Id, CopyChunk(id)
  PROVE  StoreStep
<1>1. /\ chunk[id] # NoChunk /\ ~chunk[id].copied
      /\ chunk' = [chunk EXCEPT ![id].copied = TRUE]
      /\ data' = [data EXCEPT ![id] = data[id] \o chunk[id].block]
      /\ UNCHANGED <<mem, disk, synced, verified, job, issued, imported, faults>>
  BY DEF CopyChunk, NoFault
<1>2. StoreOK(id) /\ SessionSound(id) /\ issued <= issued
  BY ImportAssumption DEF StoreInv, SoundInv, Numbers
<1>3. chunk'[id] = [chunk[id] EXCEPT !.copied = TRUE] /\ Elsewhere(id)
  BY <1>1 DEF SoundInv, Domains, Elsewhere
<1>4. chunk'[id].copied /\ chunk'[id].block = chunk[id].block
  BY <1>2, <1>3 DEF SessionSound, ChunkShape
<1>5. Reserves(mem[id])
  BY <1>1, <1>2 DEF SessionSound, Reserves
<1>6. data'[id] = data[id] \o chunk[id].block
  BY <1>1 DEF StoreInv, Tables
<1>7. data'[id] = Held(id)'
  BY <1>1, <1>2, <1>4, <1>5, <1>6 DEF StoreOK, Held
<1>8. FilesElsewhere(id) /\ Tables' /\ Numbers'
  BY <1>1 DEF StoreInv, Tables, Numbers, FilesElsewhere
<1>9. \A n : InStore(id, n) => InStore(id, n)'
  BY <1>1, StaysInStore
<1>10. mem'[id] = mem[id] /\ disk'[id] = disk[id] /\ synced'[id] = synced[id] /\ job'[id] = job[id]
  BY <1>1
<1>11. StoreOK(id)'
  BY <1>1, <1>2, <1>4, <1>5, <1>7, <1>9, <1>10 DEF StoreOK
<1>12. Moves(id)
  BY <1>1 DEF Moves
<1>13. issued <= issued' /\ imported \subseteq imported'
  BY <1>1, <1>2
<1>14. QED
  BY <1>3, <1>8, <1>11, <1>12, <1>13, OneStore

\* A chunk ends: with a cancellation nothing is left, after a failure what was
\* there before, otherwise the chunk is synced and then published.
LEMMA EndChunkStored ==
  ASSUME StoreInv, SoundInv, NEW id \in Id, EndChunk(id)
  PROVE  StoreStep
<1>0. /\ StoreOK(id) /\ SessionSound(id) /\ chunk[id] # NoChunk /\ mem[id] \in GoodSession
  BY DEF StoreInv, StoreOK, SoundInv, EndChunk, ChunkCancelled, ChunkFails, ChunkStored
<1>1. /\ job[id] = NoJob /\ mem[id].status = "uploading" /\ Reserves(mem[id])
      /\ Continues(mem[id].digest, chunk[id].block)
  BY <1>0 DEF SessionSound, Reserves, StoreOK
<1>2. /\ mem[id].digest \in Seq(Block) /\ Len(mem[id].digest) \in Nat
      /\ Len(mem[id].digest) < FileSize /\ FileSize \in Nat
  BY <1>0, <1>1, BeginningIsSeq, ImportAssumption DEF GoodSession, StoreOK
<1>3. /\ chunk' = [chunk EXCEPT ![id] = NoChunk] /\ UNCHANGED <<job, issued, imported>>
      /\ verified' \subseteq Id
  BY DEF EndChunk, ChunkCancelled, ChunkFails, ChunkStored, ChunkEnds, StoreInv, Numbers
<1>4. chunk'[id] = NoChunk /\ job'[id] = NoJob
  BY <1>1, <1>3 DEF SoundInv, Domains
<1>5. NoFault \/ Fault
  BY DEF EndChunk, ChunkCancelled, ChunkFails, ChunkStored
<1>6. Numbers' /\ issued <= issued' /\ imported \subseteq imported'
  BY <1>3, <1>5, FaultCounted, ImportAssumption DEF StoreInv, Numbers
<1>7. ASSUME NEW s, NEW s2, NEW file,
             mem' = [mem EXCEPT ![id] = s], disk' = [disk EXCEPT ![id] = s2] \/ (s2 = disk[id] /\ disk' = disk),
             data' = [data EXCEPT ![id] = file], synced' = [synced EXCEPT ![id] = Len(file)]
      PROVE  /\ mem'[id] = s /\ disk'[id] = s2 /\ data'[id] = file /\ synced'[id] = Len(file)
             /\ Elsewhere(id) /\ FilesElsewhere(id) /\ Tables'
  BY <1>3, <1>7 DEF StoreInv, Tables, SoundInv, Domains, Elsewhere, FilesElsewhere
<1>8. ChunkCancelled(id) \/ ChunkFails(id) \/ ChunkStored(id)
  BY DEF EndChunk
<1>9. CASE ChunkCancelled(id)
  <2> DEFINE s == Cancelled(mem[id])
  <2>1. s \in GoodSession /\ s.digest = mem[id].digest /\ s.status = "cancelled" /\ ~s.cancel
    BY <1>0, TRUE \in BOOLEAN, GoodEnds
  <2>2. /\ mem' = [mem EXCEPT ![id] = s] /\ mem[id].cancel
        /\ disk' = [disk EXCEPT ![id] = s] \/ disk' = disk
        /\ data' = [data EXCEPT ![id] = << >>] /\ synced' = [synced EXCEPT ![id] = Len(<< >>)]
    BY <1>9 DEF ChunkCancelled, ChunkEnds
  <2> HIDE DEF s
  <2>3. /\ mem'[id] = s /\ disk'[id] \in {s, disk[id]} /\ data'[id] = << >> /\ synced'[id] = Len(<< >>)
        /\ Elsewhere(id) /\ FilesElsewhere(id) /\ Tables'
    BY <1>7, <2>2
  <2>4. ~Reserves(s) /\ Dropped(s) /\ disk[id].cancel
    BY <1>0, <2>1, <2>2 DEF Reserves, Dropped, SessionSound
  <2>5. disk'[id].status = "completed" => InStore(id, FileSize)'
    <3>1. disk[id].status = "completed" => InStore(id, FileSize)
      BY <1>0 DEF StoreOK
    <3>2. QED
      BY <1>6, <2>1, <2>3, <3>1, StaysInStore
  <2>6. StoreOK(id)'
    <3>1. disk'[id] \in GoodSession /\ disk'[id].digest = mem'[id].digest
      BY <1>0, <2>1, <2>3 DEF StoreOK
    <3>2. disk'[id].cancel \/ Dropped(disk'[id])
      BY <2>3, <2>4
    <3>3. Len(<< >>) = 0
      OBVIOUS
    <3>4. QED
      BY <1>4, <2>1, <2>3, <2>4, <2>5, <3>1, <3>2, <3>3, IdleStored
  <2>7. Moves(id)
    BY <2>1, <2>3, <2>4 DEF Moves, Final
  <2>8. QED
    BY <1>6, <2>3, <2>6, <2>7, OneStore
<1>10. CASE ChunkFails(id)
  <2> DEFINE file == SubSeq(data[id], 1, Len(mem[id].digest))
  <2>1. /\ UNCHANGED <<mem, disk>> /\ ~mem[id].cancel
        /\ data' = [data EXCEPT ![id] = file] /\ synced' = [synced EXCEPT ![id] = Len(file)]
    BY <1>10 DEF ChunkFails, ChunkEnds
  <2>2. file = mem[id].digest
    <3>1. data[id] = Held(id)
      BY <1>0, <1>1 DEF StoreOK
    <3>2. CASE chunk[id].copied
      <4>1. SubSeq(mem[id].digest \o chunk[id].block, 1, Len(mem[id].digest)) = mem[id].digest
        BY <1>1, NextBeginning
      <4>2. data[id] = mem[id].digest \o chunk[id].block
        BY <3>1, <3>2 DEF Held
      <4>3. QED
        BY <4>1, <4>2
    <3>3. CASE ~chunk[id].copied
      BY <1>2, <3>1, <3>3, PrefixOfItself DEF Held
    <3>4. QED
      BY <3>2, <3>3
  <2> HIDE DEF file
  <2>3. /\ mem' = [mem EXCEPT ![id] = mem[id]] /\ disk' = disk
    BY <2>1 DEF StoreInv, Tables
  <2>4. /\ mem'[id] = mem[id] /\ disk'[id] = disk[id] /\ data'[id] = file /\ synced'[id] = Len(file)
        /\ Elsewhere(id) /\ FilesElsewhere(id) /\ Tables'
    BY <1>7, <2>1, <2>3
  <2>5. mem'[id].status # "completed" /\ (disk'[id].status = "completed" => InStore(id, FileSize)')
    <3>1. disk[id].status = "completed" => InStore(id, FileSize)
      BY <1>0 DEF StoreOK
    <3>2. QED
      BY <1>1, <1>6, <2>4, <3>1, StaysInStore
  <2>6. StoreOK(id)'
    <3>1. disk'[id] \in GoodSession /\ disk'[id].digest = mem'[id].digest
      BY <1>0, <2>4 DEF StoreOK
    <3>2. ~Dropped(mem'[id])
      BY <1>1, <2>4 DEF Dropped
    <3>3. QED
      BY <1>0, <1>1, <1>2, <1>4, <2>1, <2>2, <2>4, <2>5, <3>1, <3>2, IdleStored
  <2>7. Moves(id)
    BY <2>4 DEF Moves
  <2>8. QED
    BY <1>6, <2>4, <2>6, <2>7, OneStore
<1>11. CASE ChunkStored(id)
  <2> DEFINE s == [mem[id] EXCEPT !.digest = data[id],
                                  !.status = IF Len(data[id]) = FileSize THEN "ready" ELSE @]
  <2>1. /\ chunk[id].copied /\ ~mem[id].cancel /\ Save(id, s)
        /\ data' = [data EXCEPT ![id] = data[id]]
        /\ synced' = [synced EXCEPT ![id] = Len(data[id])]
    BY <1>11 DEF ChunkStored, ChunkEnds
  <2>2. data[id] = mem[id].digest \o chunk[id].block
    BY <1>0, <1>1, <2>1 DEF StoreOK, Held
  <2>3. /\ data[id] \in Beginnings /\ Len(data[id]) \in 0 .. FileSize
        /\ IsPrefix(mem[id].digest, data[id])
    <3> DEFINE longer == mem[id].digest \o chunk[id].block
    <3>1. longer \in Beginnings /\ IsPrefix(mem[id].digest, longer)
      BY <1>1, NextBeginning, PrefixOfNext
    <3>2. QED
      BY <2>2, <3>1, BeginningIsSeq
  <2>4. /\ s \in GoodSession /\ s.digest = data[id] /\ ~s.cancel
        /\ s.status = IF Len(data[id]) = FileSize THEN "ready" ELSE "uploading"
    <3>1. PICK st \in {"ready", "uploading"} :
            st = IF Len(data[id]) = FileSize THEN "ready" ELSE "uploading"
      OBVIOUS
    <3>2. s = [mem[id] EXCEPT !.digest = data[id], !.status = st]
      BY <1>0, <1>1, <3>1 DEF GoodSession
    <3> HIDE DEF s
    <3>3. s \in GoodSession /\ s.digest = data[id] /\ s.cancel = mem[id].cancel /\ s.status = st
      BY <1>0, <2>3, <3>2 DEF GoodSession, Statuses
    <3>4. QED
      BY <2>1, <3>1, <3>3
  <2> HIDE DEF s
  <2>5. mem' = [mem EXCEPT ![id] = s] /\ disk' = [disk EXCEPT ![id] = s]
    BY <2>1 DEF Save
  <2>6. /\ mem'[id] = s /\ disk'[id] = s /\ data'[id] = data[id] /\ synced'[id] = Len(data[id])
        /\ Elsewhere(id) /\ FilesElsewhere(id) /\ Tables'
    BY <1>7, <2>1, <2>5
  <2>7. /\ Reserves(s) /\ ~Dropped(s) /\ s.status # "completed"
        /\ s.status = "uploading" => Len(s.digest) < FileSize
    BY <1>2, <2>3, <2>4 DEF Reserves, Dropped
  <2>8. StoreOK(id)'
    BY <1>4, <2>4, <2>6, <2>7, IdleStored
  <2>9. Moves(id)
    <3>1. ~Final(mem[id])
      BY <1>1 DEF Final, Dropped
    <3>2. QED
      BY <1>1, <1>2, <2>3, <2>4, <2>6, <3>1 DEF Moves
  <2>10. QED
    BY <1>6, <2>6, <2>8, <2>9, OneStore
<1>12. QED
  BY <1>8, <1>9, <1>10, <1>11

\* A batch of the import is in the event store when it is counted.
LEMMA BatchStored ==
  ASSUME StoreInv, SoundInv, NEW id \in Id, ImportBatch(id)
  PROVE  StoreStep
<1>1. /\ job[id] # NoJob /\ job[id] < Len(data[id])
      /\ imported' = imported \cup {data[id][job[id] + 1]}
      /\ job' = [job EXCEPT ![id] = job[id] + 1]
      /\ UNCHANGED <<mem, disk, data, synced, verified, chunk, issued, faults>>
  BY DEF ImportBatch, NoFault
<1>2. /\ StoreOK(id) /\ SessionSound(id) /\ issued <= issued /\ FileSize \in Nat /\ NoJob \notin Nat
      /\ imported \subseteq Block
  BY ImportAssumption DEF StoreInv, SoundInv, Numbers, NoJob
<1>3. chunk[id] = NoChunk /\ mem[id].status = "processing" /\ Reserves(mem[id])
  BY <1>1, <1>2 DEF SessionSound, Reserves
<1>4. data[id] = mem[id].digest /\ mem[id].digest \in Seq(Block) /\ Len(mem[id].digest) = FileSize
  BY <1>1, <1>2, <1>3, StoredBytes, BeginningIsSeq DEF StoreOK, InStore, GoodSession
<1>5. /\ job[id] \in 0 .. FileSize /\ \A k \in 1 .. job[id] : mem[id].digest[k] \in imported
  BY <1>1, <1>2 DEF StoreOK, InStore
<1>6. /\ job[id] + 1 \in 1 .. FileSize /\ job[id] + 1 \in 0 .. FileSize
      /\ \A k \in 1 .. job[id] + 1 : k \in 1 .. job[id] \/ k = job[id] + 1
  BY <1>1, <1>2, <1>4, <1>5
<1>7. imported' \subseteq Block
  BY <1>1, <1>2, <1>4, <1>6, ElementOfSeq
<1>8. /\ Elsewhere(id) /\ FilesElsewhere(id) /\ Tables' /\ Numbers' /\ job'[id] = job[id] + 1
  BY <1>1, <1>7 DEF StoreInv, Tables, Numbers, Elsewhere, FilesElsewhere
<1>9. \A n : InStore(id, n) => InStore(id, n)'
  BY <1>1, StaysInStore
<1>10. StoreOK(id)'
  <2>1. Held(id)' = Held(id)
    BY <1>1 DEF Held
  <2>2. \A n : n = job[id] + 1 => InStore(id, n)'
    <3>1. \A k \in 1 .. job[id] + 1 : mem'[id].digest[k] \in imported'
      BY <1>1, <1>4, <1>5, <1>6
    <3>2. Len(mem'[id].digest) = FileSize
      BY <1>1, <1>4
    <3>3. QED
      BY <3>1, <3>2 DEF InStore
  <2>3. QED
    BY <1>1, <1>2, <1>6, <1>8, <1>9, <2>1, <2>2 DEF StoreOK
<1>11. Moves(id)
  BY <1>1 DEF Moves
<1>12. issued <= issued' /\ imported \subseteq imported'
  BY <1>1, <1>2
<1>13. QED
  BY <1>8, <1>10, <1>11, <1>12, OneStore

\* An import ends: it succeeds when all is in the store; else the file stays
\* for another try or is deleted.
LEMMA EndImportStored ==
  ASSUME StoreInv, SoundInv, NEW id \in Id, EndImport(id)
  PROVE  StoreStep
<1>0. StoreOK(id) /\ SessionSound(id) /\ job[id] # NoJob /\ mem[id] \in GoodSession
  BY DEF EndImport, StoreInv, StoreOK, SoundInv
<1>1. /\ chunk[id] = NoChunk /\ mem[id].status = "processing" /\ Reserves(mem[id])
      /\ mem[id].cancel \in BOOLEAN
  BY <1>0 DEF SessionSound, Reserves, GoodSession
<1>2. /\ data[id] = mem[id].digest /\ synced[id] = Len(mem[id].digest)
      /\ InStore(id, job[id]) /\ Len(mem[id].digest) = FileSize
  BY <1>0, <1>1, StoredBytes DEF StoreOK, InStore
<1>3. /\ job' = [job EXCEPT ![id] = NoJob]
      /\ UNCHANGED <<verified, chunk, issued, imported>>
  BY DEF EndImport
<1>4. job'[id] = NoJob /\ chunk'[id] = NoChunk
  BY <1>1, <1>3 DEF StoreInv, Tables
<1>5. PICK s \in Outcomes(id) :
        \/ /\ Save(id, s)
           /\ IF s.status = "failed" THEN Fault ELSE NoFault
           /\ IF Reserves(s) THEN UNCHANGED <<data, synced>>
              ELSE data' = [data EXCEPT ![id] = << >>] /\ synced' = [synced EXCEPT ![id] = 0]
        \/ /\ Fault
           /\ disk' = disk
           /\ IF s.status = "cancelled"
              THEN /\ mem' = [mem EXCEPT ![id] = s]
                   /\ data' = [data EXCEPT ![id] = << >>] /\ synced' = [synced EXCEPT ![id] = 0]
              ELSE mem' = [mem EXCEPT ![id] = Failed(s, TRUE)] /\ UNCHANGED <<data, synced>>
  BY DEF EndImport
<1>6. Numbers' /\ issued <= issued' /\ imported \subseteq imported'
  <2>1. NoFault \/ Fault
    BY <1>5
  <2>2. QED
    BY <1>3, <2>1, FaultCounted, ImportAssumption DEF StoreInv, Numbers
<1>7. /\ s \in GoodSession /\ s.digest = mem[id].digest /\ ~s.cancel
      /\ s.status \in {"cancelled", "completed", "failed"}
      /\ s.status = "completed" => InStore(id, FileSize)
      /\ Final(mem[id]) => Dropped(s)
      /\ s.status = "cancelled" => mem[id].cancel
  <2>1. CASE mem[id].cancel
    <3>1. s = Cancelled(mem[id])
      BY <2>1 DEF Outcomes
    <3>2. s \in GoodSession /\ s.digest = mem[id].digest /\ ~s.cancel /\ s.status = "cancelled"
      BY <1>0, <3>1, TRUE \in BOOLEAN, GoodEnds
    <3>3. QED
      BY <2>1, <3>2 DEF Dropped
  <2>2. CASE ~mem[id].cancel
    <3>1. ~Final(mem[id])
      BY <1>1, <2>2 DEF Final, Dropped
    <3>2. \/ s = Completed(mem[id]) /\ job[id] = FileSize
          \/ \E b \in BOOLEAN : s = Failed(mem[id], b)
      BY <1>2, <2>2 DEF Outcomes
    <3>3. CASE s = Completed(mem[id]) /\ job[id] = FileSize
      <4>1. /\ s \in GoodSession /\ s.digest = mem[id].digest /\ s.cancel = mem[id].cancel
            /\ s.status = "completed"
        BY <1>0, <3>3, TRUE \in BOOLEAN, GoodEnds
      <4>2. QED
        BY <1>2, <2>2, <3>1, <3>3, <4>1
    <3>4. CASE \E b \in BOOLEAN : s = Failed(mem[id], b)
      <4>1. PICK b \in BOOLEAN : s = Failed(mem[id], b)
        BY <3>4
      <4>2. s \in GoodSession /\ s.digest = mem[id].digest /\ ~s.cancel /\ s.status = "failed"
        BY <1>0, <4>1, GoodEnds
      <4>3. QED
        BY <3>1, <4>2
    <3>5. QED
      BY <3>2, <3>3, <3>4
  <2>3. QED
    BY <1>1, <2>1, <2>2
<1>8. /\ Failed(s, TRUE) \in GoodSession /\ Failed(s, TRUE).digest = mem[id].digest
      /\ Failed(s, TRUE).status = "failed" /\ Reserves(Failed(s, TRUE)) /\ ~Failed(s, TRUE).cancel
  BY <1>7, GoodEnds DEF Reserves
<1>9. disk[id].status = "completed" => InStore(id, FileSize)
  BY <1>0 DEF StoreOK
\* Whatever is published, and where.
<1>a. ASSUME NEW m \in GoodSession, NEW d \in GoodSession,
             mem' = [mem EXCEPT ![id] = m], disk' = [disk EXCEPT ![id] = d] \/ (d = disk[id] /\ disk' = disk),
             m.digest = mem[id].digest, d.digest = mem[id].digest, ~m.cancel, m.status # "uploading",
             m.status = "completed" \/ d.status = "completed" => InStore(id, FileSize),
             Dropped(m) => d.cancel \/ Dropped(d),
             Final(mem[id]) => Dropped(m),
             IF Reserves(m) THEN UNCHANGED <<data, synced>>
             ELSE data' = [data EXCEPT ![id] = << >>] /\ synced' = [synced EXCEPT ![id] = 0]
      PROVE  StoreStep
  <2>1. mem'[id] = m /\ disk'[id] = d /\ Elsewhere(id) /\ FilesElsewhere(id) /\ Tables'
    BY <1>3, <1>a DEF StoreInv, Tables, Elsewhere, FilesElsewhere
  <2>2. /\ data'[id] = IF Reserves(m) THEN m.digest ELSE << >>
        /\ synced'[id] = IF Reserves(m) THEN Len(m.digest) ELSE 0
    BY <1>2, <1>a DEF StoreInv, Tables
  <2>3. InStore(id, FileSize) => InStore(id, FileSize)'
    BY <1>3, <1>a, <2>1, StaysInStore
  <2>4. StoreOK(id)'
    BY <1>4, <1>a, <2>1, <2>2, <2>3, IdleStored
  <2>5. Moves(id)
    BY <1>1, <1>a, <2>1 DEF Moves, Final
  <2>6. QED
    BY <1>6, <2>1, <2>4, <2>5, OneStore
<1>b. CASE /\ Save(id, s)
           /\ IF Reserves(s) THEN UNCHANGED <<data, synced>>
              ELSE data' = [data EXCEPT ![id] = << >>] /\ synced' = [synced EXCEPT ![id] = 0]
  <2>1. mem' = [mem EXCEPT ![id] = s] /\ disk' = [disk EXCEPT ![id] = s]
    BY <1>b DEF Save
  <2>2. QED
    BY <1>7, <1>a, <1>b, <2>1
<1>c. CASE /\ s.status = "cancelled" /\ disk' = disk /\ mem' = [mem EXCEPT ![id] = s]
           /\ data' = [data EXCEPT ![id] = << >>] /\ synced' = [synced EXCEPT ![id] = 0]
  <2>1. ~Reserves(s) /\ disk[id].cancel
    BY <1>0, <1>7, <1>c DEF Reserves, SessionSound
  <2>2. disk[id] \in GoodSession /\ disk[id].digest = mem[id].digest
    BY <1>0 DEF StoreOK
  <2>3. QED
    BY <1>7, <1>9, <1>a, <1>c, <2>1, <2>2
<1>d. CASE /\ s.status # "cancelled" /\ disk' = disk
           /\ mem' = [mem EXCEPT ![id] = Failed(s, TRUE)] /\ UNCHANGED <<data, synced>>
  <2>1. disk[id] \in GoodSession /\ disk[id].digest = mem[id].digest
    BY <1>0 DEF StoreOK
  <2>2. ~Dropped(Failed(s, TRUE)) /\ ~Dropped(s)
    BY <1>7, <1>8, <1>d DEF Dropped
  <2>3. QED
    BY <1>7, <1>8, <1>9, <1>a, <1>d, <2>1, <2>2
<1>q. QED
  BY <1>5, <1>b, <1>c, <1>d

LEMMA ExpireStored ==
  ASSUME StoreInv, SoundInv, NEW id \in Id, Expire(id)
  PROVE  StoreStep
<1>1. /\ mem[id].status # "none" /\ chunk[id] = NoChunk /\ job[id] = NoJob
      /\ mem' = [mem EXCEPT ![id] = NoSession] /\ disk' = [disk EXCEPT ![id] = NoSession]
      /\ data' = [data EXCEPT ![id] = << >>] /\ synced' = [synced EXCEPT ![id] = 0]
      /\ Fault /\ UNCHANGED <<verified, chunk, job, issued, imported>>
  BY DEF Expire, Found
<1>2. Numbers' /\ issued <= issued' /\ imported \subseteq imported'
  BY <1>1, FaultCounted, ImportAssumption DEF StoreInv, Numbers
<1>3. /\ mem'[id] = NoSession /\ disk'[id] = NoSession /\ data'[id] = << >> /\ synced'[id] = 0
      /\ Elsewhere(id) /\ FilesElsewhere(id) /\ Tables'
  BY <1>1 DEF StoreInv, Tables, Elsewhere, FilesElsewhere
<1>4. chunk'[id] = NoChunk /\ job'[id] = NoJob
  BY <1>1
<1>5. StoreOK(id)'
  BY <1>3, <1>4, GoodNone, ShapeOfNone, IdleStored
<1>6. Moves(id)
  BY <1>3, GoodNone DEF Moves, Final
<1>7. QED
  BY <1>2, <1>3, <1>5, <1>6, OneStore

\* What a crash leaves of the file has the bytes of the session, and may have
\* those of a chunk that was not answered.
LEMMA FileAfterCrash ==
  ASSUME StoreInv, SoundInv, NEW i \in Id, Reserves(disk[i]), ~disk[i].cancel
  PROVE  /\ Reserves(mem[i])
         /\ IsPrefix(disk[i].digest, data[i])
         /\ IsPrefix(disk[i].digest, SubSeq(data[i], 1, synced[i]))
<1>1. StoreOK(i) /\ SessionSound(i) /\ mem[i] \in GoodSession
  BY DEF StoreInv, StoreOK, SoundInv
<1>2. Reserves(mem[i])
  BY <1>1 DEF SessionSound, HasPlace, Reserves
<1>3. /\ disk[i].digest = mem[i].digest /\ data[i] = Held(i) /\ synced[i] = Len(mem[i].digest)
      /\ mem[i].digest \in Seq(Block)
  BY <1>1, <1>2, BeginningIsSeq DEF StoreOK, GoodSession
<1>4. IsPrefix(mem[i].digest, mem[i].digest) /\ SubSeq(mem[i].digest, 1, Len(mem[i].digest)) = mem[i].digest
  BY <1>3, PrefixOfItself
<1>5. CASE chunk[i].copied
  <2>1. chunk[i] # NoChunk
    BY <1>5 DEF NoChunk
  <2>2. Continues(mem[i].digest, chunk[i].block)
    BY <1>1, <2>1 DEF StoreOK
  <2> DEFINE longer == mem[i].digest \o chunk[i].block
  <2>3. IsPrefix(mem[i].digest, longer) /\ SubSeq(longer, 1, Len(mem[i].digest)) = mem[i].digest
    BY <2>2, NextBeginning, PrefixOfNext
  <2>4. data[i] = longer
    BY <1>3, <1>5 DEF Held
  <2>5. QED
    BY <1>2, <1>3, <1>4, <2>3, <2>4
<1>6. CASE ~chunk[i].copied
  BY <1>2, <1>3, <1>4, <1>6 DEF Held
<1>7. QED
  BY <1>5, <1>6

LEMMA CrashStored ==
  ASSUME StoreInv, SoundInv, Crash
  PROVE  StoreStep
<1>1. PICK lost : LET file(i) == IF i \in lost THEN SubSeq(data[i], 1, synced[i]) ELSE data[i]
                      new == [i \in Id |-> Recovered(disk[i], file(i))]
                  IN  /\ mem' = new /\ disk' = new
                      /\ data' = [i \in Id |-> IF Reserves(new[i]) THEN new[i].digest ELSE << >>]
  BY DEF Crash
<1> DEFINE d == [i \in Id |-> IF i \in lost THEN SubSeq(data[i], 1, synced[i]) ELSE data[i]]
<1>2. /\ mem' = [i \in Id |-> Recovered(disk[i], d[i])] /\ disk' = mem'
      /\ data' = [i \in Id |-> IF Reserves(mem'[i]) THEN mem'[i].digest ELSE << >>]
  BY <1>1
<1>3. \A i \in Id : Reserves(disk[i]) /\ ~disk[i].cancel => IsPrefix(disk[i].digest, d[i])
  BY FileAfterCrash
<1> HIDE DEF d
<1>4. /\ synced' = [i \in Id |-> Len(data'[i])] /\ verified' = {}
      /\ chunk' = [i \in Id |-> NoChunk] /\ job' = [i \in Id |-> NoJob]
      /\ UNCHANGED <<issued, imported>> /\ Fault
  BY DEF Crash
<1>5. /\ Numbers' /\ issued <= issued' /\ imported \subseteq imported' /\ Tables'
  BY <1>2, <1>4, FaultCounted, ImportAssumption DEF StoreInv, Numbers, Tables
<1>6. ASSUME NEW i \in Id PROVE StoreOK(i)' /\ Moves(i)
  <2>1. StoreOK(i) /\ SessionSound(i) /\ disk[i] \in GoodSession
    BY DEF StoreInv, StoreOK, SoundInv
  <2> DEFINE r == Recovered(disk[i], d[i])
  <2>2. /\ r \in GoodSession /\ ~r.cancel
        /\ r.digest = disk[i].digest \/ (r.status = "none" /\ r.digest = << >>)
        /\ r.status = "uploading" => Len(r.digest) < FileSize
        /\ r.status = "completed" => disk[i].status = "completed" /\ r.digest = disk[i].digest
        /\ disk[i].cancel \/ Dropped(disk[i]) => Dropped(r)
        /\ Reserves(r) => Reserves(disk[i]) /\ ~disk[i].cancel /\ r.digest = disk[i].digest
    BY <1>3, <2>1, GoodRecovered
  <2> HIDE DEF r
  <2>3. mem'[i] = r /\ disk'[i] = r
    BY <1>2 DEF r
  <2>4. chunk'[i] = NoChunk /\ job'[i] = NoJob
    BY <1>4
  <2>5. data'[i] = IF Reserves(r) THEN r.digest ELSE << >>
    BY <1>2, <2>3
  <2>6. synced'[i] = IF Reserves(r) THEN Len(r.digest) ELSE 0
    <3>1. synced'[i] = Len(data'[i])
      BY <1>4
    <3>2. QED
      BY <2>5, <3>1, NoBytes
  <2>7. r.status = "completed" => InStore(i, FileSize)'
    <3>1. disk[i].status = "completed" => InStore(i, FileSize)
      BY <2>1 DEF StoreOK
    <3>2. mem[i].digest = disk[i].digest
      BY <2>1 DEF StoreOK
    <3>3. QED
      BY <1>5, <2>2, <2>3, <3>1, <3>2, StaysInStore
  <2>8. StoreOK(i)'
    BY <2>2, <2>3, <2>4, <2>5, <2>6, <2>7, IdleStored
  <2>9. Moves(i)
    <3>1. mem[i].digest = disk[i].digest
      BY <2>1 DEF StoreOK
    <3>2. Reserves(r) => Reserves(mem[i])
      BY <2>2, FileAfterCrash
    <3>3. Final(mem[i]) => Final(r)
      BY <2>1, <2>2 DEF StoreOK, SessionSound, Final
    <3>4. QED
      BY <2>2, <2>3, <3>1, <3>2, <3>3 DEF Moves
  <2>10. QED
    BY <2>8, <2>9
<1>7. QED
  BY <1>5, <1>6 DEF StoreStep, StoreInv

\* A tab that goes away leaves the chunk as it is.
LEMMA HangUpStored ==
  ASSUME StoreInv, SoundInv, NEW c \in Client, NEW r, NEW a, HangUp(c, r, a)
  PROVE  StoreStep
<1>1. /\ chunk' = [i \in Id |-> Without(chunk[i], c)]
      /\ UNCHANGED <<mem, disk, data, synced, verified, job, issued, imported>>
      /\ NoFault \/ Fault
  BY DEF HangUp, Without
<1>2. Tables' /\ Numbers' /\ issued <= issued' /\ imported \subseteq imported'
  BY <1>1, FaultCounted, ImportAssumption DEF StoreInv, Tables, Numbers
<1>3. ASSUME NEW i \in Id PROVE StoreOK(i)' /\ Moves(i)
  <2>1. StoreOK(i) /\ SessionSound(i)
    BY DEF StoreInv, SoundInv
  <2>2. chunk'[i] = Without(chunk[i], c)
    BY <1>1
  <2>3. /\ chunk'[i].copied = chunk[i].copied /\ chunk'[i].block = chunk[i].block
        /\ chunk[i] = NoChunk => chunk'[i] = NoChunk
    <3>1. ChunkShape(chunk[i])
      BY <2>1 DEF SessionSound
    <3>2. chunk[i] = NoChunk => chunk'[i] = NoChunk
      BY <2>2, <3>1, LeftChunk
    <3>3. chunk'[i].copied = chunk[i].copied /\ chunk'[i].block = chunk[i].block
      BY <2>2, <3>1 DEF ChunkShape, Without
    <3>4. QED
      BY <3>2, <3>3
  <2>4. Held(i)' = Held(i) /\ \A n : InStore(i, n) => InStore(i, n)'
    BY <1>1, <2>3, StaysInStore DEF Held
  <2>5. QED
    BY <1>1, <2>1, <2>3, <2>4 DEF StoreOK, Moves
<1>4. QED
  BY <1>2, <1>3 DEF StoreStep, StoreInv

\* Requests that are on their way to the server.
RequestsOK == RequestOK(late) /\ \A t \in Client : RequestOK(call[t])

\* What every step does to the sessions.
LEMMA SessionsStep ==
  ASSUME StoreInv, SoundInv, RequestsOK, [Next]_vars
  PROVE  StoreStep
<1>n. faults \in 0 .. MaxFaults /\ verified \subseteq Id
  BY DEF StoreInv, Numbers
<1>u. ASSUME UNCHANGED <<server, faults>> PROVE StoreStep
  BY <1>n, <1>u, SameStore DEF server
<1>b. CASE Background
  <2>1. CASE ServeLate
    BY <2>1, HandleStored DEF ServeLate, RequestsOK
  <2>2. ASSUME NEW c \in Client, Serve(c) \/ Lose(c) PROVE StoreStep
    BY <2>2, HandleStored, HangUpStored DEF Serve, Lose, RequestsOK
  <2>3. ASSUME NEW id \in Id,
               CopyChunk(id) \/ EndChunk(id) \/ ImportBatch(id) \/ EndImport(id) \/ Expire(id)
        PROVE  StoreStep
    BY <2>3, CopyStored, EndChunkStored, BatchStored, EndImportStored, ExpireStored
  <2>4. CASE Crash
    BY <2>4, CrashStored
  <2>5. QED
    BY <1>b, <2>1, <2>2, <2>3, <2>4 DEF Background
<1>t. ASSUME NEW t \in Client,
             \/ Unwind(t) \/ Resume(t) \/ Receive(t)
             \/ \E f \in Selects[t], id \in 0 .. issued : SelectFile(t, f, id)
      PROVE  StoreStep
  BY <1>t, <1>u DEF Unwind, Resume, Receive, SelectFile, Begin
<1>p. ASSUME NEW t \in Client, Pause(t) \/ CancelClick(t) \/ Lose(t) PROVE StoreStep
  BY <1>p, HangUpStored DEF Pause, CancelClick, Lose
<1>v. CASE UNCHANGED vars
  BY <1>v, <1>u DEF vars
<1>q. QED
  BY <1>b, <1>t, <1>p, <1>v DEF Next

-----------------------------------------------------------------------------
(* Tabs and what is on the wire. *)

\* The answers a tab waits for; an idle one waits for none.
Phases == {"get", "create", "validate", "chunk", "complete", "poll", "cancel", "settle", "idle"}
Shows == {"idle", "busy", "paused", "completed", "cancelled", "failed", "rejected"}
Ended == {"completed", "cancelled"}
Tabs == [pc : Phases, file : File, ses : [id : Nat, s : GoodSession], wanted : Nat, key : Nat,
         tried : BOOLEAN, checked : BOOLEAN, late : BOOLEAN, shown : Shows]
Entries == [id : Nat, key : Nat]

TabSane(w) ==
    /\ w \in Tabs
    /\ w.ses.s.status = "uploading" => Len(w.ses.s.digest) < FileSize
    /\ w.pc \in {"get", "create"} => ~w.checked
    \* an end is shown by a tab that does nothing more
    /\ w.pc # "idle" \/ w.late => w.shown \notin Ended
    /\ w.pc \notin {"idle", "cancel", "settle"} => ~w.late

\* The session of tab w is its whole file, or is lost.
Confirmed(w) ==
    /\ w.ses.id \in 1 .. issued
    /\ Final(mem[w.ses.id]) \/ mem[w.ses.id].digest = Content[w.file]

TabChecked(w) ==
    /\ w.checked => Confirmed(w)
    /\ w.checked /\ w.shown = "completed" => \A n \in 1 .. FileSize : Content[w.file][n] \in imported

\* r is the request that tab w waits for.
Asked(w, r) ==
    /\ r.op = IF w.pc \in {"poll", "settle"} THEN "get" ELSE w.pc
    /\ w.pc \notin {"get", "create"} => r.id = w.ses.id
    /\ w.pc = "validate" => r.digest = Prefix(w.file, Len(w.ses.s.digest))

\* a says of a session of m what tab w asked for.
TrueAnswer(w, a, m) ==
    /\ a.id \in Id /\ m[a.id].status # "none" /\ a = Ok(a.id, m[a.id])
    /\ w.pc \notin {"get", "create"} => a.id = w.ses.id
    /\ w.pc = "validate" => m[a.id].digest = Prefix(w.file, Len(w.ses.s.digest))
    /\ w.pc = "cancel" /\ m[a.id].status = "processing" => m[a.id].cancel

TabWire(t) ==
    /\ RequestOK(call[t])
    /\ reply[t] # NoReply => call[t] = NoCall
    /\ call[t] \in {NoCall, Taken} \/ Asked(tab[t], call[t])
    /\ reply[t].code = "ok" => TrueAnswer(tab[t], reply[t], mem)

\* Those whom a chunk will answer wait for it.
Waiting(i, t) ==
    /\ chunk[i].by = t => tab[t].pc = "chunk" /\ tab[t].ses.id = i /\ call[t] = Taken
    /\ t \in chunk[i].cancellers => tab[t].pc = "cancel" /\ tab[t].ses.id = i /\ call[t] = Taken

BrowserOK ==
    /\ tab = [t \in Client |-> tab[t]] /\ call = [t \in Client |-> call[t]]
    /\ reply = [t \in Client |-> reply[t]]
    /\ stored \in [Browser -> Entries] /\ home \in [Client -> Browser] /\ keys \in Nat

WireInv ==
    /\ BrowserOK /\ RequestOK(late)
    /\ \A t \in Client : TabSane(tab[t]) /\ TabChecked(tab[t]) /\ TabWire(t)
    /\ \A i \in Id, t \in Client : Waiting(i, t)

LEMMA WireRequests == WireInv => RequestsOK
  BY DEF WireInv, RequestsOK, TabWire

\* The answer that the handler of request r gives, about the sessions m.
GoodAnswer(r, a, m) ==
    a.code = "ok" =>
        /\ a.id \in Id /\ m[a.id].status # "none" /\ a = Ok(a.id, m[a.id])
        /\ r.op # "create" => a.id = r.id
        /\ r.op = "validate" => m[a.id].digest = r.digest
        /\ r.op = "cancel" /\ m[a.id].status = "processing" => m[a.id].cancel

LEMMA OkFields ==
  ASSUME NEW id, NEW s
  PROVE  Ok(id, s).code = "ok" /\ Ok(id, s).id = id
  BY DEF Ok

LEMMA OkSession ==
  ASSUME NEW id, NEW s \in GoodSession
  PROVE  /\ Ok(id, s).s \in GoodSession /\ Ok(id, s).s.digest = s.digest
         /\ Ok(id, s).s.status = s.status /\ Ok(id, s).s.retryable = s.retryable
<1>1. Ok(id, s).s = [s EXCEPT !.key = 0, !.cancel = FALSE]
  BY DEF Ok
<1> DEFINE u == [s EXCEPT !.key = 0, !.cancel = FALSE]
<1>2. /\ u \in GoodSession /\ u.digest = s.digest
      /\ u.status = s.status /\ u.retryable = s.retryable
  BY DEF GoodSession
<1> HIDE DEF u
<1>3. Ok(id, s).s = u
  BY <1>1 DEF u
<1>4. QED
  BY <1>2, <1>3

LEMMA RefusalCode ==
  ASSUME NEW code
  PROVE  Refusal(code).code = code
  BY DEF Refusal, NoReply

\* An answer fits the request it was asked with.
LEMMA AskedAnswer ==
  ASSUME NEW w, NEW r, NEW a, NEW m, Asked(w, r), GoodAnswer(r, a, m), a.code = "ok"
  PROVE  TrueAnswer(w, a, m)
<1>1. w.pc \notin {"get", "create"} => r.op # "create"
  BY DEF Asked
<1>2. QED
  BY <1>1 DEF Asked, GoodAnswer, TrueAnswer

\* A handler answers its caller, or the end of a chunk will.
LEMMA HandlerAnswers ==
  ASSUME StoreInv, SoundInv, NEW c, NEW r, Handle(c, r)
  PROVE  \/ \E a : Answer(c, a) /\ GoodAnswer(r, a, mem') /\ chunk' = chunk
         \/ /\ Take(c) /\ r.id \in Id /\ r.op = "chunk"
            /\ chunk' = [chunk EXCEPT ![r.id] = [NoChunk EXCEPT !.by = c, !.block = r.block]]
         \/ /\ Take(c) /\ r.id \in Id /\ r.op = "cancel"
            /\ chunk' = [chunk EXCEPT ![r.id].cancellers = @ \cup {c}]
<1> DEFINE Goal == \E a : Answer(c, a) /\ GoodAnswer(r, a, mem') /\ chunk' = chunk
<1>r. ASSUME NEW code, Refuse(c, code), code # "ok" PROVE Goal
  <2>1. Answer(c, Refusal(code)) /\ chunk' = chunk
    BY <1>r DEF Refuse, server
  <2>2. GoodAnswer(r, Refusal(code), mem')
    BY <1>r, RefusalCode DEF GoodAnswer
  <2>3. QED
    BY <2>1, <2>2
<1>k. ASSUME NEW i \in Id, NEW s, Answer(c, Ok(i, s)), mem'[i] = s, s.status # "none",
             chunk' = chunk, r.op # "create" => i = r.id,
             r.op = "validate" => s.digest = r.digest,
             r.op = "cancel" /\ s.status = "processing" => s.cancel
      PROVE  Goal
  <2>1. GoodAnswer(r, Ok(i, s), mem')
    BY <1>k, OkFields DEF GoodAnswer
  <2>2. QED
    BY <1>k, <2>1
<1>1. CASE r.op = "create" /\ Create(c, r)
  <2>1. ASSUME NEW i \in WithKey(r.key), Answer(c, Ok(i, mem[i])), UNCHANGED server PROVE Goal
    <3>1. i \in Id /\ mem[i].status # "none" /\ mem' = mem /\ chunk' = chunk
      BY <2>1 DEF WithKey, server
    <3>2. QED
      BY <1>1, <1>k, <2>1, <3>1
  <2>2. CASE /\ issued < MaxId
             /\ LET s == [NoSession EXCEPT !.status = "uploading", !.key = r.key]
                IN  Save(issued + 1, s) /\ Answer(c, Ok(issued + 1, s))
             /\ chunk' = chunk
    <3> PICK i \in Id : i = issued + 1
      BY <2>2, ImportAssumption DEF StoreInv, Numbers, Id
    <3> DEFINE s == [NoSession EXCEPT !.status = "uploading", !.key = r.key]
    <3>1. s.status = "uploading"
      BY DEF NoSession
    <3>2. Answer(c, Ok(i, s)) /\ Save(i, s)
      BY <2>2
    <3> HIDE DEF s
    <3>3. mem'[i] = s
      BY <3>2, SavedSession DEF SoundInv
    <3>4. QED
      BY <1>1, <1>k, <2>2, <3>1, <3>2, <3>3
  <2>3. CASE Refuse(c, "limit")
    BY <1>r, <2>3
  <2>4. QED
    BY <1>1, <2>1, <2>2, <2>3 DEF Create
<1>2. CASE r.op = "get" /\ GetSession(c, r)
  <2>1. CASE Found(r.id)
    <3>1. /\ r.id \in Id /\ mem[r.id].status # "none" /\ mem' = mem /\ chunk' = chunk
          /\ Answer(c, Ok(r.id, mem[r.id]))
      BY <1>2, <2>1 DEF GetSession, Found, server
    <3>2. QED
      BY <1>2, <1>k, <3>1
  <2>2. CASE ~Found(r.id)
    BY <1>2, <1>r, <2>2 DEF GetSession
  <2>3. QED
    BY <2>1, <2>2
<1>3. CASE r.op = "validate" /\ ValidatePrefix(c, r)
  <2>1. CASE Found(r.id) /\ r.digest = mem[r.id].digest /\ AcceptsValidation(r.id)
    <3>1. /\ r.id \in Id /\ mem[r.id].status # "none" /\ mem' = mem /\ chunk' = chunk
          /\ Answer(c, Ok(r.id, mem[r.id]))
      BY <1>3, <2>1 DEF ValidatePrefix, Found
    <3>2. QED
      BY <1>3, <1>k, <2>1, <3>1
  <2>2. CASE ~(Found(r.id) /\ r.digest = mem[r.id].digest /\ AcceptsValidation(r.id))
    <3>1. Refuse(c, "not_found") \/ Refuse(c, "conflict") \/ Refuse(c, "file_mismatch")
      BY <1>3, <2>2 DEF ValidatePrefix
    <3>2. QED
      BY <1>r, <3>1
  <2>3. QED
    BY <2>1, <2>2
<1>4. CASE r.op = "chunk" /\ StartChunk(c, r)
  <2>1. CASE ChunkRefusal(r.id, r) # "" /\ Refuse(c, ChunkRefusal(r.id, r))
    <3>1. ChunkRefusal(r.id, r) # "ok"
      BY DEF ChunkRefusal
    <3>2. QED
      BY <1>r, <2>1, <3>1
  <2>2. CASE ChunkRefusal(r.id, r) = ""
    <3>1. r.id \in Id
      BY <2>2 DEF ChunkRefusal, Found
    <3>2. QED
      BY <1>4, <2>2, <3>1 DEF StartChunk
  <2>3. QED
    BY <1>4, <2>1, <2>2 DEF StartChunk
<1>5. CASE r.op = "complete" /\ Complete(c, r)
  <2> DEFINE id == r.id
  <2> DEFINE s == [mem[id] EXCEPT !.status = "processing", !.retryable = FALSE, !.cancel = FALSE]
  <2>1. CASE Found(id) /\ Answer(c, Ok(id, mem[id])) /\ UNCHANGED server
    <3>1. id \in Id /\ mem[id].status # "none" /\ mem' = mem /\ chunk' = chunk
      BY <2>1 DEF Found, server
    <3>2. QED
      BY <1>5, <1>k, <2>1, <3>1
  <2>2. CASE CompleteRefusal(id) # "" /\ Refuse(c, CompleteRefusal(id))
    <3>1. CompleteRefusal(id) # "ok"
      BY DEF CompleteRefusal
    <3>2. QED
      BY <1>r, <2>2, <3>1
  <2>3. CASE Found(id) /\ Save(id, s) /\ Answer(c, Ok(id, s)) /\ chunk' = chunk
    <3>1. id \in Id /\ mem[id] \in GoodSession
      BY <2>3 DEF Found, StoreInv, StoreOK
    <3>2. s.status = "processing"
      BY <3>1 DEF GoodSession
    <3> HIDE DEF s
    <3>3. mem'[id] = s
      BY <2>3, <3>1, SavedSession DEF SoundInv
    <3>4. QED
      BY <1>5, <1>k, <2>3, <3>1, <3>2, <3>3
  <2>4. QED
    BY <1>5, <2>1, <2>2, <2>3 DEF Complete
<1>6. CASE r.op = "cancel" /\ Cancel(c, r)
  <2> DEFINE id == r.id
  <2>1. CASE Found(id) /\ mem[id].status \in Ended /\ Answer(c, Ok(id, mem[id])) /\ UNCHANGED server
    <3>1. /\ id \in Id /\ mem[id].status # "none" /\ mem' = mem /\ chunk' = chunk
          /\ mem[id].status # "processing"
      BY <2>1 DEF Found, server, Ended
    <3>2. QED
      BY <1>6, <1>k, <2>1, <3>1
  <2>2. CASE Refuse(c, "not_found")
    BY <1>r, <2>2
  <2>3. CASE Found(id) /\ CancelChunk(c, id)
    BY <1>6, <2>3 DEF CancelChunk, Found
  <2>4. CASE Found(id) /\ CancelImport(c, id)
    <3> DEFINE s == [mem[id] EXCEPT !.cancel = TRUE]
    <3>1. id \in Id /\ mem[id] \in GoodSession /\ mem[id].status # "none"
      BY <2>4 DEF Found, StoreInv, StoreOK
    <3>2. s.status # "none" /\ s.cancel /\ Save(id, s) /\ Answer(c, Ok(id, s)) /\ chunk' = chunk
      BY <2>4, <3>1 DEF GoodSession, CancelImport
    <3> HIDE DEF s
    <3>3. mem'[id] = s
      BY <3>1, <3>2, SavedSession DEF SoundInv
    <3>4. QED
      BY <1>6, <1>k, <3>1, <3>2, <3>3
  <2>5. CASE Found(id) /\ CancelIdle(c, id)
    <3> DEFINE s == Cancelled(mem[id])
    <3>1. id \in Id /\ mem[id] \in GoodSession
      BY <2>5 DEF Found, StoreInv, StoreOK
    <3>2. s.status = "cancelled"
      BY <3>1, TRUE \in BOOLEAN, GoodEnds
    <3>3. Save(id, s) /\ Answer(c, Ok(id, s)) /\ chunk' = chunk
      BY <2>5 DEF CancelIdle
    <3> HIDE DEF s
    <3>4. mem'[id] = s
      BY <3>1, <3>3, SavedSession DEF SoundInv
    <3>5. QED
      BY <1>6, <1>k, <3>1, <3>2, <3>3, <3>4
  <2>6. QED
    BY <1>6, <2>1, <2>2, <2>3, <2>4, <2>5 DEF Cancel, Ended
<1>7. QED
  BY <1>1, <1>2, <1>3, <1>4, <1>5, <1>6 DEF Handle

LEMMA NoRequest == RequestOK(NoCall) /\ RequestOK(Taken) /\ NoReply.code = "none" /\ NoCall # Taken
  BY DEF RequestOK, NoCall, Taken, NoReply

\* What a tab has checked stays so, whatever the server does.
LEMMA CheckedStays ==
  ASSUME StoreInv, StoreStep, NEW t, tab[t].file \in File, tab'[t] = tab[t], TabChecked(tab[t])
  PROVE  TabChecked(tab[t])'
<1>1. CASE ~tab[t].checked
  BY <1>1 DEF TabChecked
<1>2. CASE tab[t].checked
  <2> PICK i : i = tab[t].ses.id
    OBVIOUS
  <2>1. i \in 1 .. issued /\ (Final(mem[i]) \/ mem[i].digest = Content[tab[t].file])
    BY <1>2 DEF TabChecked, Confirmed
  <2>2. i \in Id /\ i \in 1 .. issued' /\ ~(i > issued)
    BY <2>1, ImportAssumption DEF StoreInv, StoreStep, Numbers, Id
  <2>3. /\ \/ mem'[i].digest = mem[i].digest
           \/ mem'[i].status = "none"
           \/ Len(mem[i].digest) < FileSize
        /\ Final(mem[i]) => Final(mem'[i])
    BY <2>2 DEF StoreStep, Moves
  <2>4. Final(mem'[i]) \/ mem'[i].digest = Content[tab[t].file]
    <3>1. CASE Final(mem[i])
      BY <2>3, <3>1
    <3>2. CASE ~Final(mem[i])
      <4>1. mem[i].digest = Content[tab[t].file]
        BY <2>1, <3>2
      <4>2. CASE mem'[i].status = "none"
        BY <4>2 DEF Final, Dropped
      <4>3. Len(mem[i].digest) = FileSize /\ FileSize \in Nat
        BY <4>1, FileSequence, ImportAssumption
      <4>4. mem'[i].digest = mem[i].digest \/ mem'[i].status = "none"
        BY <2>3, <4>3
      <4>5. QED
        BY <4>1, <4>2, <4>4
    <3>3. QED
      BY <3>1, <3>2
  <2>5. Confirmed(tab[t])'
    BY <2>2, <2>4 DEF Confirmed
  <2>6. imported \subseteq imported'
    BY DEF StoreStep
  <2>7. QED
    BY <2>5, <2>6 DEF TabChecked
<1>3. QED
  BY <1>1, <1>2

\* A step of the server that says who is answered and who waits.
LEMMA ServerWire ==
  ASSUME WireInv, StoreInv, StoreStep, UNCHANGED browser,
         call' = [t \in Client |-> call'[t]], reply' = [t \in Client |-> reply'[t]],
         RequestOK(late'),
         \A t \in Client :
            /\ RequestOK(call'[t])
            /\ reply'[t] # NoReply => call'[t] = NoCall
            /\ call'[t] \in {NoCall, Taken, call[t]}
            /\ reply'[t].code = "ok" => TrueAnswer(tab[t], reply'[t], mem'),
         \A i \in Id, t \in Client :
            /\ chunk'[i].by = t => tab[t].pc = "chunk" /\ tab[t].ses.id = i /\ call'[t] = Taken
            /\ t \in chunk'[i].cancellers =>
                   tab[t].pc = "cancel" /\ tab[t].ses.id = i /\ call'[t] = Taken
  PROVE  WireInv'
<1>1. tab' = tab /\ BrowserOK'
  BY DEF WireInv, BrowserOK, browser
<1>2. ASSUME NEW t \in Client PROVE TabSane(tab[t])' /\ TabChecked(tab[t])' /\ TabWire(t)'
  <2>1. TabSane(tab[t]) /\ TabChecked(tab[t]) /\ TabWire(t) /\ tab'[t] = tab[t]
    BY <1>1 DEF WireInv
  <2>2. TabSane(tab[t])'
    BY <2>1 DEF TabSane
  <2>3. TabChecked(tab[t])'
    BY <2>1, CheckedStays DEF TabSane, Tabs
  <2>4. TabWire(t)'
    BY <1>1, <2>1 DEF TabWire
  <2>5. QED
    BY <2>2, <2>3, <2>4
<1>3. RequestOK(late)'
  BY DEF RequestOK
<1>4. \A i \in Id, t \in Client : Waiting(i, t)'
  BY <1>1 DEF Waiting
<1>5. QED
  BY <1>1, <1>2, <1>3, <1>4 DEF WireInv

\* Those in who are answered with a; no chunk will answer them again.
LEMMA ToldWire ==
  ASSUME WireInv, Quiet, StoreInv, StoreStep, UNCHANGED browser, NEW who, NEW a,
         Tell(who, a), late' \in {late, NoCall},
         \A t \in Client : t \in who /\ a.code = "ok" => TrueAnswer(tab[t], a, mem'),
         \A i \in Id, t \in Client :
            /\ chunk'[i].by = t => chunk[i].by = t /\ t \notin who
            /\ t \in chunk'[i].cancellers => t \in chunk[i].cancellers /\ t \notin who
  PROVE  WireInv'
<1>1. \A t \in Client : /\ call'[t] = IF t \in who THEN NoCall ELSE call[t]
                        /\ reply'[t] = IF t \in who THEN a ELSE NoReply
  BY DEF Tell, Quiet
<1>2. call' = [t \in Client |-> call'[t]] /\ reply' = [t \in Client |-> reply'[t]]
  BY DEF Tell
<1>3. RequestOK(late') /\ \A t \in Client : RequestOK(call'[t])
  BY <1>1, NoRequest DEF WireInv, TabWire
<1>4. \A t \in Client :
         /\ reply'[t] # NoReply => call'[t] = NoCall
         /\ call'[t] \in {NoCall, Taken, call[t]}
         /\ reply'[t].code = "ok" => TrueAnswer(tab[t], reply'[t], mem')
  BY <1>1, NoRequest
<1>5. \A i \in Id, t \in Client :
         /\ chunk'[i].by = t => tab[t].pc = "chunk" /\ tab[t].ses.id = i /\ call'[t] = Taken
         /\ t \in chunk'[i].cancellers =>
                tab[t].pc = "cancel" /\ tab[t].ses.id = i /\ call'[t] = Taken
  BY <1>1 DEF WireInv, Waiting
<1>6. QED
  BY <1>2, <1>3, <1>4, <1>5, ServerWire

\* A tab that no chunk will answer.
Free(t) == \A i \in Id : chunk[i].by # t /\ t \notin chunk[i].cancellers

LEMMA FreeTab ==
  ASSUME WireInv, NEW t \in Client, call[t] # Taken
  PROVE  Free(t)
  BY DEF WireInv, Waiting, Free

\* A handler runs for a tab that waits for its answer, or for nobody.
LEMMA HandleWire ==
  ASSUME WireInv, Quiet, StoreInv, SoundInv, StoreStep, UNCHANGED browser,
         NEW c, NEW r, Handle(c, r), c = Nobody \/ (c \in Client /\ r = call[c])
  PROVE  WireInv'
<1>0. c \in Client => RequestOK(r) /\ Asked(tab[c], r) /\ r # Taken /\ Free(c)
  <2>1. r \notin {NoCall, Taken}
    BY DEF Handle, NoCall, Taken
  <2>2. QED
    BY <2>1, FreeTab, ImportAssumption DEF WireInv, TabWire
<1>1. CASE \E a : Answer(c, a) /\ GoodAnswer(r, a, mem') /\ chunk' = chunk
  <2> PICK a : Answer(c, a) /\ GoodAnswer(r, a, mem') /\ chunk' = chunk
    BY <1>1
  <2>1. Tell({c}, a) /\ late' \in {late, NoCall}
    BY DEF Answer
  <2>2. \A t \in Client : t \in {c} /\ a.code = "ok" => TrueAnswer(tab[t], a, mem')
    BY <1>0, AskedAnswer
  <2>3. \A i \in Id, t \in Client :
          /\ chunk'[i].by = t => chunk[i].by = t /\ t \notin {c}
          /\ t \in chunk'[i].cancellers => t \in chunk[i].cancellers /\ t \notin {c}
    BY <1>0 DEF Free
  <2>4. QED
    BY <2>1, <2>2, <2>3, ToldWire
<1>2. CASE /\ Take(c) /\ r.id \in Id
           /\ \/ /\ r.op = "chunk"
                 /\ chunk' = [chunk EXCEPT ![r.id] = [NoChunk EXCEPT !.by = c, !.block = r.block]]
              \/ /\ r.op = "cancel"
                 /\ chunk' = [chunk EXCEPT ![r.id].cancellers = @ \cup {c}]
  <2>1. /\ call' = [t \in Client |-> IF t = c THEN Taken ELSE call[t]]
        /\ reply' = reply /\ late' \in {late, NoCall}
    BY <1>2 DEF Take
  <2>2. \A t \in Client : call'[t] = (IF t = c THEN Taken ELSE call[t]) /\ reply'[t] = NoReply
    BY <2>1 DEF Quiet
  <2>3. /\ call' = [t \in Client |-> call'[t]] /\ reply' = [t \in Client |-> reply'[t]]
        /\ RequestOK(late') /\ \A t \in Client : RequestOK(call'[t])
    BY <2>1, <2>2, NoRequest DEF WireInv, BrowserOK, TabWire
  <2>4. \A t \in Client :
          /\ reply'[t] # NoReply => call'[t] = NoCall
          /\ call'[t] \in {NoCall, Taken, call[t]}
          /\ reply'[t].code = "ok" => TrueAnswer(tab[t], reply'[t], mem')
    BY <2>2, NoRequest
  <2>5. \A i \in Id, t \in Client :
          /\ chunk'[i].by = t =>
                chunk[i].by = t \/ (t = c /\ tab[t].pc = "chunk" /\ tab[t].ses.id = i)
          /\ t \in chunk'[i].cancellers =>
                t \in chunk[i].cancellers \/ (t = c /\ tab[t].pc = "cancel" /\ tab[t].ses.id = i)
    <3> TAKE i \in Id, t \in Client
    <3>1. CASE i # r.id
      <4>1. chunk'[i] = chunk[i]
        BY <1>2, <3>1 DEF SoundInv, Domains
      <4>2. QED
        BY <4>1
    <3>2. CASE i = r.id /\ r.op = "chunk"
      <4>1. chunk'[i] = [NoChunk EXCEPT !.by = c, !.block = r.block]
        BY <1>2, <3>2 DEF SoundInv, Domains
      <4>2. chunk'[i].by = c /\ chunk'[i].cancellers = {}
        BY <4>1 DEF NoChunk
      <4>3. t = c => tab[t].pc = "chunk" /\ tab[t].ses.id = i
        BY <1>0, <3>2 DEF Asked, WireInv, TabSane, Tabs, Phases
      <4>4. QED
        BY <4>2, <4>3
    <3>3. CASE i = r.id /\ r.op = "cancel"
      <4>1. chunk'[i] = [chunk[i] EXCEPT !.cancellers = @ \cup {c}]
        BY <1>2, <3>3 DEF SoundInv, Domains
      <4>2. chunk'[i].by = chunk[i].by /\ chunk'[i].cancellers = chunk[i].cancellers \cup {c}
        BY <4>1 DEF SoundInv, SessionSound, ChunkShape
      <4>3. t = c => tab[t].pc = "cancel" /\ tab[t].ses.id = i
        BY <1>0, <3>3 DEF Asked, WireInv, TabSane, Tabs, Phases
      <4>4. QED
        BY <4>2, <4>3
    <3>4. QED
      BY <1>2, <3>1, <3>2, <3>3
  <2>6. \A i \in Id, t \in Client :
          /\ chunk'[i].by = t => tab[t].pc = "chunk" /\ tab[t].ses.id = i /\ call'[t] = Taken
          /\ t \in chunk'[i].cancellers =>
                 tab[t].pc = "cancel" /\ tab[t].ses.id = i /\ call'[t] = Taken
    BY <2>2, <2>5 DEF WireInv, Waiting
  <2>7. QED
    BY <2>3, <2>4, <2>6, ServerWire
<1>3. QED
  BY <1>1, <1>2, HandlerAnswers

\* Steps that answer nobody.
LEMMA SilentWire ==
  ASSUME WireInv, Quiet, StoreInv, SoundInv, StoreStep, UNCHANGED browser, NEW id \in Id,
         CopyChunk(id) \/ ImportBatch(id) \/ EndImport(id) \/ Expire(id)
  PROVE  WireInv'
<1>1. UNCHANGED wire
  BY DEF CopyChunk, ImportBatch, EndImport, Expire
<1>2. \A i \in Id : chunk'[i].by = chunk[i].by /\ chunk'[i].cancellers = chunk[i].cancellers
  <2>1. CASE CopyChunk(id)
    <3>1. chunk' = [chunk EXCEPT ![id].copied = TRUE]
      BY <2>1 DEF CopyChunk
    <3>2. chunk'[id] = [chunk[id] EXCEPT !.copied = TRUE]
          /\ \A i \in Id : i # id => chunk'[i] = chunk[i]
      BY <3>1 DEF SoundInv, Domains
    <3>3. ChunkShape(chunk[id])
      BY DEF SoundInv, SessionSound
    <3>4. QED
      BY <3>2, <3>3 DEF ChunkShape
  <2>2. CASE ~CopyChunk(id)
    BY <2>2 DEF ImportBatch, EndImport, Expire
  <2>3. QED
    BY <2>1, <2>2
<1>3. call' = call /\ late' = late /\ reply' = reply
  BY <1>1 DEF wire
<1>4. call' = [t \in Client |-> call'[t]] /\ reply' = [t \in Client |-> reply'[t]]
  BY <1>3 DEF WireInv, BrowserOK
<1>5. \A t \in Client :
         /\ RequestOK(call'[t])
         /\ reply'[t] # NoReply => call'[t] = NoCall
         /\ call'[t] \in {NoCall, Taken, call[t]}
         /\ reply'[t].code = "ok" => TrueAnswer(tab[t], reply'[t], mem')
  BY <1>3, NoRequest DEF Quiet, WireInv, TabWire
<1>6. \A i \in Id, t \in Client :
         /\ chunk'[i].by = t => tab[t].pc = "chunk" /\ tab[t].ses.id = i /\ call'[t] = Taken
         /\ t \in chunk'[i].cancellers =>
                tab[t].pc = "cancel" /\ tab[t].ses.id = i /\ call'[t] = Taken
  BY <1>2, <1>3 DEF WireInv, Waiting
<1>7. RequestOK(late')
  BY <1>3 DEF WireInv
<1>8. QED
  BY <1>4, <1>5, <1>6, <1>7, ServerWire

\* The end of a chunk answers those who wait for it.
LEMMA EndChunkWire ==
  ASSUME WireInv, Quiet, StoreInv, SoundInv, StoreStep, UNCHANGED browser, NEW id \in Id,
         EndChunk(id)
  PROVE  WireInv'
<1>1. \E who, a : /\ Tell(who, a) /\ late' = late /\ chunk' = [chunk EXCEPT ![id] = NoChunk]
                  /\ who \subseteq {chunk[id].by} \cup chunk[id].cancellers
                  /\ \/ a.code # "ok"
                     \/ a = Ok(id, mem'[id]) /\ mem'[id].status = "cancelled"
                     \/ a = Ok(id, mem'[id]) /\ who = {chunk[id].by} /\ mem'[id].status # "none"
  <2>1. CASE ChunkCancelled(id)
    <3> DEFINE s == Cancelled(mem[id])
    <3>1. s.status = "cancelled"
      <4>1. mem[id] \in GoodSession
        BY DEF StoreInv, StoreOK
      <4>2. QED
        BY <4>1, TRUE \in BOOLEAN, GoodEnds
    <3>2. /\ mem' = [mem EXCEPT ![id] = s]
          /\ ChunkEnds(id, << >>, {chunk[id].by} \cup chunk[id].cancellers, Ok(id, s))
      BY <2>1 DEF ChunkCancelled
    <3> HIDE DEF s
    <3>3. mem'[id] = s
      BY <3>2 DEF SoundInv, Domains
    <3>4. QED
      BY <3>1, <3>2, <3>3 DEF ChunkEnds
  <2>2. CASE ChunkFails(id)
    <3>1. ChunkEnds(id, SubSeq(data[id], 1, Len(mem[id].digest)), {chunk[id].by}, Refusal("unavailable"))
      BY <2>2 DEF ChunkFails
    <3>2. Refusal("unavailable").code # "ok"
      BY RefusalCode
    <3>3. QED
      BY <3>1, <3>2 DEF ChunkEnds
  <2>3. CASE ChunkStored(id)
    <3> DEFINE s == [mem[id] EXCEPT !.digest = data[id],
                                    !.status = IF Len(data[id]) = FileSize THEN "ready" ELSE @]
    <3>1. Save(id, s) /\ ChunkEnds(id, data[id], {chunk[id].by}, Ok(id, s))
      BY <2>3 DEF ChunkStored
    <3>2. s.status # "none"
      <4>1. mem[id] \in GoodSession /\ mem[id].status # "none"
        BY <2>3 DEF ChunkStored, StoreInv, StoreOK, SoundInv, SessionSound
      <4>2. QED
        BY <4>1 DEF GoodSession
    <3> HIDE DEF s
    <3>3. mem'[id] = s
      BY <3>1, SavedSession DEF SoundInv
    <3>4. QED
      BY <3>1, <3>2, <3>3 DEF ChunkEnds
  <2>4. QED
    BY <2>1, <2>2, <2>3 DEF EndChunk
<1>2. PICK who, a : /\ Tell(who, a) /\ late' = late /\ chunk' = [chunk EXCEPT ![id] = NoChunk]
                    /\ who \subseteq {chunk[id].by} \cup chunk[id].cancellers
                    /\ \/ a.code # "ok"
                       \/ a = Ok(id, mem'[id]) /\ mem'[id].status = "cancelled"
                       \/ a = Ok(id, mem'[id]) /\ who = {chunk[id].by} /\ mem'[id].status # "none"
  BY <1>1
<1>3. \A t \in Client : t \in who => tab[t].ses.id = id /\ tab[t].pc \in {"chunk", "cancel"}
                                     /\ (who = {chunk[id].by} => tab[t].pc = "chunk")
  BY <1>2 DEF WireInv, Waiting
<1>4. \A t \in Client : t \in who /\ a.code = "ok" => TrueAnswer(tab[t], a, mem')
  BY <1>2, <1>3, OkFields DEF TrueAnswer
<1>5. \A i \in Id, t \in Client :
         /\ chunk'[i].by = t => chunk[i].by = t /\ t \notin who
         /\ t \in chunk'[i].cancellers => t \in chunk[i].cancellers /\ t \notin who
  <2> TAKE i \in Id, t \in Client
  <2>1. CASE i = id
    <3>1. chunk'[i] = NoChunk
      BY <1>2, <2>1 DEF SoundInv, Domains
    <3>2. chunk'[i].by = Nobody /\ chunk'[i].cancellers = {}
      BY <3>1 DEF NoChunk
    <3>3. QED
      BY <3>2, ImportAssumption
  <2>2. CASE i # id
    <3>1. chunk'[i] = chunk[i]
      BY <1>2, <2>2 DEF SoundInv, Domains
    <3>2. t \in who => tab[t].ses.id # i
      BY <1>3, <2>2
    <3>3. QED
      BY <3>1, <3>2 DEF WireInv, Waiting
  <2>3. QED
    BY <2>1, <2>2
<1>6. QED
  BY <1>2, <1>4, <1>5, ToldWire

\* A crash cuts every request off.
LEMMA CrashWire ==
  ASSUME WireInv, Quiet, StoreInv, SoundInv, StoreStep, UNCHANGED browser, Crash
  PROVE  WireInv'
<1>1. /\ chunk' = [i \in Id |-> NoChunk] /\ call' = [c \in Client |-> NoCall] /\ late' = NoCall
      /\ reply' = [c \in Client |-> IF call[c] = NoCall THEN reply[c] ELSE Refusal("network")]
  BY DEF Crash
<1>2. \A t \in Client : call'[t] = NoCall /\ reply'[t].code # "ok"
  BY <1>1, RefusalCode, NoRequest DEF Quiet
<1>3. \A i \in Id, t \in Client : chunk'[i].by # t /\ t \notin chunk'[i].cancellers
  BY <1>1, ImportAssumption DEF NoChunk
<1>4. call' = [t \in Client |-> call'[t]] /\ reply' = [t \in Client |-> reply'[t]]
  BY <1>1
<1>5. RequestOK(late') /\ \A t \in Client : RequestOK(call'[t])
  BY <1>1, NoRequest
<1>6. QED
  BY <1>2, <1>3, <1>4, <1>5, ServerWire

\* Tab t becomes w and sends r, or nothing.
Becomes(t, w, r) ==
    /\ tab' = [tab EXCEPT ![t] = w]
    /\ call' = [call EXCEPT ![t] = r]
    /\ reply' = [reply EXCEPT ![t] = NoReply]

\* What a tab may become, and what it may send.
FitsTab(w, r) ==
    /\ TabSane(w) /\ TabChecked(w) /\ RequestOK(r)
    /\ r = NoCall \/ Asked(w, r)

\* The browser's own storage.
StorageOK ==
    stored \in [Browser -> Entries] /\ home \in [Client -> Browser] /\ keys \in Nat

LEMMA OtherTab ==
  ASSUME WireInv, NEW t \in Client, tab'[t] = tab[t], call'[t] = call[t], reply'[t] = reply[t],
         UNCHANGED <<mem, issued, imported>>
  PROVE  TabSane(tab[t])' /\ TabChecked(tab[t])' /\ TabWire(t)'
<1>1. TabSane(tab[t]) /\ TabChecked(tab[t]) /\ TabWire(t)
  BY DEF WireInv
<1>2. QED
  BY <1>1 DEF TabSane, TabChecked, Confirmed, TabWire

\* A tab that no chunk will answer goes on.
LEMMA TabGoesOn ==
  ASSUME WireInv, NEW t \in Client, NEW w, NEW r, Becomes(t, w, r), FitsTab(w, r), Free(t),
         UNCHANGED <<server, late>>, StorageOK'
  PROVE  WireInv'
<1>1. mem' = mem /\ issued' = issued /\ imported' = imported /\ chunk' = chunk
  BY DEF server
<1>2. /\ tab'[t] = w /\ call'[t] = r /\ reply'[t] = NoReply
      /\ \A u \in Client \ {t} : tab'[u] = tab[u] /\ call'[u] = call[u] /\ reply'[u] = reply[u]
      /\ BrowserOK'
  BY DEF Becomes, WireInv, BrowserOK, StorageOK
<1>3. TabSane(tab[t])' /\ TabChecked(tab[t])' /\ TabWire(t)'
  <2>1. TabSane(tab[t])'
    BY <1>2 DEF FitsTab, TabSane
  <2>2. TabChecked(tab[t])'
    BY <1>1, <1>2 DEF FitsTab, TabChecked, Confirmed
  <2>3. TabWire(t)'
    BY <1>2, NoRequest DEF FitsTab, TabWire
  <2>4. QED
    BY <2>1, <2>2, <2>3
<1>4. ASSUME NEW u \in Client PROVE TabSane(tab[u])' /\ TabChecked(tab[u])' /\ TabWire(u)'
  <2>1. CASE u = t
    BY <1>3, <2>1
  <2>2. CASE u # t
    BY <1>1, <1>2, <2>2, OtherTab
  <2>3. QED
    BY <2>1, <2>2
<1>5. \A i \in Id, u \in Client : Waiting(i, u)'
  <2> TAKE i \in Id, u \in Client
  <2>1. CASE u = t
    BY <1>1, <2>1 DEF Waiting, Free
  <2>2. CASE u # t
    BY <1>1, <1>2, <2>2 DEF Waiting, WireInv
  <2>3. QED
    BY <2>1, <2>2
<1>6. RequestOK(late)'
  BY DEF RequestOK, WireInv
<1>7. QED
  BY <1>2, <1>4, <1>5, <1>6 DEF WireInv

\* A tab gives up its request.
LEMMA HangUpWire ==
  ASSUME WireInv, SoundInv, NEW t \in Client, NEW w, NEW r, NEW a, HangUp(t, r, a),
         tab' = [tab EXCEPT ![t] = w], FitsTab(w, r), a.code # "ok",
         a # NoReply => r = NoCall, UNCHANGED <<stored, home, keys>>
  PROVE  WireInv'
<1>1. /\ call' = [call EXCEPT ![t] = r] /\ reply' = [reply EXCEPT ![t] = a]
      /\ late' = late \/ late' = call[t]
      /\ chunk' = [i \in Id |-> Without(chunk[i], t)]
      /\ UNCHANGED <<mem, issued, imported>>
  BY DEF HangUp, Without
<1>2. /\ tab'[t] = w /\ call'[t] = r /\ reply'[t] = a
      /\ \A u \in Client \ {t} : tab'[u] = tab[u] /\ call'[u] = call[u] /\ reply'[u] = reply[u]
      /\ BrowserOK'
  BY <1>1 DEF WireInv, BrowserOK
<1>3. TabSane(tab[t])' /\ TabChecked(tab[t])' /\ TabWire(t)'
  <2>1. TabSane(tab[t])'
    BY <1>2 DEF FitsTab, TabSane
  <2>2. TabChecked(tab[t])'
    BY <1>1, <1>2 DEF FitsTab, TabChecked, Confirmed
  <2>3. TabWire(t)'
    BY <1>2 DEF FitsTab, TabWire
  <2>4. QED
    BY <2>1, <2>2, <2>3
<1>4. ASSUME NEW u \in Client PROVE TabSane(tab[u])' /\ TabChecked(tab[u])' /\ TabWire(u)'
  <2>1. CASE u = t
    BY <1>3, <2>1
  <2>2. CASE u # t
    BY <1>1, <1>2, <2>2, OtherTab
  <2>3. QED
    BY <2>1, <2>2
<1>5. ASSUME NEW i \in Id
      PROVE  /\ chunk'[i].by = IF chunk[i].by = t THEN Nobody ELSE chunk[i].by
             /\ chunk'[i].cancellers = chunk[i].cancellers \ {t}
  <2>1. chunk'[i] = Without(chunk[i], t)
    BY <1>1
  <2>2. ChunkShape(chunk[i])
    BY DEF SoundInv, SessionSound
  <2>3. QED
    BY <2>1, <2>2 DEF Without, ChunkShape
<1>6. \A i \in Id, u \in Client : Waiting(i, u)'
  <2> TAKE i \in Id, u \in Client
  <2>1. CASE u = t
    BY <1>5, <2>1, ImportAssumption DEF Waiting
  <2>2. CASE u # t
    BY <1>2, <1>5, <2>2, ImportAssumption DEF Waiting, WireInv
  <2>3. QED
    BY <2>1, <2>2
<1>7. RequestOK(late)'
  <2>1. RequestOK(late) /\ RequestOK(call[t])
    BY DEF WireInv, TabWire
  <2>2. RequestOK(late')
    BY <1>1, <2>1
  <2>3. QED
    BY <2>2 DEF RequestOK
<1>8. QED
  BY <1>2, <1>4, <1>6, <1>7 DEF WireInv

\* All that the view keeps of a tab that has stopped.
LEMMA RestingFields ==
  ASSUME NEW w, NEW shown
  PROVE  Resting(w, shown) =
           [pc |-> "idle", file |-> w.file, ses |-> [id |-> w.ses.id, s |-> NoSession],
            wanted |-> 0, key |-> 0, tried |-> FALSE, checked |-> w.checked,
            late |-> w.late, shown |-> shown]
<1> DEFINE n == NewTab(w.file)
<1>1. n = [pc |-> "idle", file |-> w.file, ses |-> [id |-> 0, s |-> NoSession], wanted |-> 0,
           key |-> 0, tried |-> FALSE, checked |-> FALSE, late |-> FALSE, shown |-> "idle"]
  BY DEF NewTab
<1>2. n.ses = [id |-> 0, s |-> NoSession]
  BY <1>1
<1>3. [n.ses EXCEPT !.id = w.ses.id] = [id |-> w.ses.id, s |-> NoSession]
  BY <1>2
<1>4. Resting(w, shown) = [n EXCEPT !.ses = [n.ses EXCEPT !.id = w.ses.id], !.checked = w.checked,
                                    !.late = w.late, !.shown = shown]
  BY DEF Resting
<1> HIDE DEF n
<1>5. QED
  BY <1>1, <1>3, <1>4

LEMMA RestingTab ==
  ASSUME NEW w, TabSane(w), NEW shown \in Shows, w.late => shown \notin Ended
  PROVE  /\ TabSane(Resting(w, shown))
         /\ Resting(w, shown).ses.id = w.ses.id /\ Resting(w, shown).checked = w.checked
         /\ Resting(w, shown).file = w.file /\ Resting(w, shown).shown = shown
         /\ Resting(w, shown).late = w.late /\ Resting(w, shown).pc = "idle"
<1>1. w \in Tabs /\ w.file \in File /\ w.ses.id \in Nat /\ w.checked \in BOOLEAN /\ w.late \in BOOLEAN
  BY DEF TabSane, Tabs
<1> DEFINE u == [pc |-> "idle", file |-> w.file, ses |-> [id |-> w.ses.id, s |-> NoSession],
                 wanted |-> 0, key |-> 0, tried |-> FALSE, checked |-> w.checked,
                 late |-> w.late, shown |-> shown]
<1>2. Resting(w, shown) = u
  BY RestingFields
<1>3. u \in Tabs /\ u.ses.s.status # "uploading" /\ u.ses.id = w.ses.id
  BY <1>1, GoodNone DEF Tabs, Phases
<1>4. TabSane(u)
  BY <1>1, <1>3 DEF TabSane
<1>5. QED
  BY <1>2, <1>3, <1>4

LEMMA RestingFits ==
  ASSUME NEW w, TabSane(w), TabChecked(w), NEW shown \in Shows, w.late => shown \notin Ended,
         w.checked /\ shown = "completed" => \A n \in 1 .. FileSize : Content[w.file][n] \in imported
  PROVE  FitsTab(Resting(w, shown), NoCall)
<1>1. /\ TabSane(Resting(w, shown))
      /\ Resting(w, shown).ses.id = w.ses.id /\ Resting(w, shown).checked = w.checked
      /\ Resting(w, shown).file = w.file /\ Resting(w, shown).shown = shown
  BY RestingTab
<1>2. TabChecked(Resting(w, shown))
  BY <1>1 DEF TabChecked, Confirmed
<1>3. QED
  BY <1>1, <1>2, NoRequest DEF FitsTab

LEMMA LoseWire ==
  ASSUME WireInv, SoundInv, NEW t \in Client, Lose(t), UNCHANGED browser
  PROVE  WireInv'
<1> PICK w : w = tab[t]
  OBVIOUS
<1>1. HangUp(t, NoCall, Refusal("network"))
  BY DEF Lose
<1>2. tab' = [tab EXCEPT ![t] = w] /\ UNCHANGED <<stored, home, keys>>
  BY DEF browser, WireInv, BrowserOK
<1>3. TabSane(w) /\ TabChecked(w)
  BY DEF WireInv
<1>4. FitsTab(w, NoCall)
  BY <1>3, NoRequest DEF FitsTab
<1>5. Refusal("network").code # "ok"
  BY RefusalCode
<1>6. QED
  BY <1>1, <1>2, <1>4, <1>5, HangUpWire

LEMMA PauseWire ==
  ASSUME WireInv, SoundInv, NEW t \in Client, Pause(t)
  PROVE  WireInv'
<1> PICK w : w = Resting(tab[t], "paused")
  OBVIOUS
<1>1. HangUp(t, NoCall, NoReply) /\ tab' = [tab EXCEPT ![t] = w] /\ UNCHANGED <<stored, home, keys>>
  BY DEF Pause, WireInv, BrowserOK
<1>2. TabSane(tab[t]) /\ TabChecked(tab[t])
  BY DEF WireInv
<1>3. FitsTab(w, NoCall)
  <2>1. "paused" \in Shows /\ "paused" \notin Ended
    BY DEF Shows, Ended
  <2>2. QED
    BY <1>2, <2>1, RestingFits
<1>4. NoReply.code # "ok"
  BY NoRequest
<1>5. QED
  BY <1>1, <1>3, <1>4, HangUpWire

\* Records like that of a tab.
LEMMA SendTab ==
  ASSUME NEW w, TabSane(w), TabChecked(w), NEW pc \in Phases \ {"idle"},
         pc \in {"get", "create"} => ~w.checked, w.shown \notin Ended, pc = "settle" \/ ~w.late
  PROVE  LET u == [w EXCEPT !.pc = pc]
         IN  TabSane(u) /\ TabChecked(u) /\ u.pc = pc /\ u.ses = w.ses /\ u.file = w.file
<1> DEFINE u == [w EXCEPT !.pc = pc]
<1>1. w \in Tabs
  BY DEF TabSane
<1>2. /\ u \in Tabs /\ u.pc = pc /\ u.ses = w.ses /\ u.file = w.file
      /\ u.checked = w.checked /\ u.shown = w.shown /\ u.late = w.late
  BY <1>1 DEF Tabs
<1> HIDE DEF u
<1>3. TabSane(u)
  BY <1>2 DEF TabSane
<1>4. TabChecked(u)
  BY <1>2 DEF TabChecked, Confirmed
<1>5. QED
  BY <1>2, <1>3, <1>4 DEF u

\* Tab t sends a request that fits what it waits for.
LEMMA SendFits ==
  ASSUME NEW t, NEW w, TabSane(w), TabChecked(w), NEW pc \in Phases \ {"idle"}, NEW r,
         pc \in {"get", "create"} => ~w.checked, w.shown \notin Ended, pc = "settle" \/ ~w.late,
         RequestOK(r), r.op = IF pc \in {"poll", "settle"} THEN "get" ELSE pc,
         pc \notin {"get", "create"} => r.id = w.ses.id,
         pc = "validate" => r.digest = Prefix(w.file, Len(w.ses.s.digest)),
         Send(t, w, pc, r)
  PROVE  \E u, q : Becomes(t, u, q) /\ FitsTab(u, q)
<1> DEFINE u == [w EXCEPT !.pc = pc]
<1>1. TabSane(u) /\ TabChecked(u) /\ u.pc = pc /\ u.ses = w.ses /\ u.file = w.file
  BY SendTab
<1>2. Becomes(t, u, r)
  BY DEF Send, Becomes
<1> HIDE DEF u
<1>3. Asked(u, r)
  BY <1>1 DEF Asked
<1>4. QED
  BY <1>1, <1>2, <1>3 DEF FitsTab

\* Tab t stops.
LEMMA StopFits ==
  ASSUME WireInv, NEW t \in Client, reply[t] # NoReply,
         NEW w, TabSane(w), TabChecked(w), NEW shown \in Shows, w.late => shown \notin Ended,
         w.checked /\ shown = "completed" => \A n \in 1 .. FileSize : Content[w.file][n] \in imported,
         Stop(t, w, shown)
  PROVE  \E u, q : Becomes(t, u, q) /\ FitsTab(u, q)
<1>1. FitsTab(Resting(w, shown), NoCall)
  BY RestingFits
<1>2. call' = [call EXCEPT ![t] = NoCall]
  BY DEF Stop, WireInv, BrowserOK, TabWire
<1>3. Becomes(t, Resting(w, shown), NoCall)
  BY <1>2 DEF Stop, Becomes
<1>4. QED
  BY <1>1, <1>3

LEMMA AskFields ==
  ASSUME NEW op, NEW w
  PROVE  /\ Ask(op, w).op = op /\ Ask(op, w).id = w.ses.id
         /\ Prove(op, w).op = op /\ Prove(op, w).id = w.ses.id
         /\ Prove(op, w).digest = Prefix(w.file, Len(w.ses.s.digest))
         /\ op \notin {"create", "chunk"} => RequestOK(Ask(op, w)) /\ RequestOK(Prove(op, w))
BY DEF Ask, Prove, NoCall, RequestOK

\* The next chunk of the file of tab w follows what the session has.
LEMMA NextFields ==
  ASSUME NEW w, w \in Tabs, Len(w.ses.s.digest) < FileSize
  PROVE  NextChunk(w).op = "chunk" /\ NextChunk(w).id = w.ses.id /\ RequestOK(NextChunk(w))
<1>1. w.file \in File /\ Len(w.ses.s.digest) \in 0 .. FileSize - 1
  BY BeginningIsSeq, ImportAssumption DEF Tabs, GoodSession
<1> DEFINE n == Len(w.ses.s.digest)
<1> DEFINE r == NextChunk(w)
<1>2. r.op = "chunk" /\ r.id = w.ses.id /\ r.digest = Prefix(w.file, n)
      /\ r.block = SubSeq(Content[w.file], n + 1, n + 1)
  BY DEF NextChunk, Prove, Ask, NoCall
<1> HIDE DEF r, n
<1>3. Continues(r.digest, r.block)
  BY <1>1, <1>2 DEF Continues, n
<1>4. QED
  BY <1>2, <1>3 DEF RequestOK, r

-----------------------------------------------------------------------------
LEMMA EntryTyped ==
  ASSUME WireInv, NEW t \in Client
  PROVE  Entry(t) \in Entries /\ \A id : Cleared(Entry(t), id) \in Entries
BY DEF Entry, WireInv, BrowserOK, Cleared, NoStored, Entries

LEMMA StoreTyped ==
  ASSUME WireInv, NEW t \in Client, NEW st \in Entries, Store(t, st), home' = home, keys' \in Nat
  PROVE  StorageOK'
BY DEF WireInv, BrowserOK, Store, StorageOK

LEMMA NoStore ==
  ASSUME WireInv, stored' = stored, home' = home, keys' \in Nat
  PROVE  StorageOK'
BY DEF WireInv, BrowserOK, StorageOK

-----------------------------------------------------------------------------
\* Tab t goes on as it should.
GoesOn(t) == (\E w, r : Becomes(t, w, r) /\ FitsTab(w, r)) /\ StorageOK'

LEMMA WireGoesOn ==
  ASSUME WireInv, NEW t \in Client, GoesOn(t), Free(t), UNCHANGED <<server, late>>
  PROVE  WireInv'
<1>1. PICK w, r : Becomes(t, w, r) /\ FitsTab(w, r)
  BY DEF GoesOn
<1>2. QED
  BY <1>1, TabGoesOn DEF GoesOn

\* A tab with the session that the server has.
Informed(w) ==
    /\ TabSane(w) /\ TabChecked(w) /\ w.shown \notin Ended
    /\ w.ses.id \in Id /\ mem[w.ses.id].status # "none"
    /\ w.ses.s.status = mem[w.ses.id].status /\ w.ses.s.digest = mem[w.ses.id].digest

\* A file that the server has completed is imported.
LEMMA ImportedWhole ==
  ASSUME StoreInv, NEW w, TabSane(w), TabChecked(w), w.checked, w.ses.id \in Id,
         mem[w.ses.id].status = "completed"
  PROVE  \A n \in 1 .. FileSize : Content[w.file][n] \in imported
<1> PICK i \in Id : i = w.ses.id
  OBVIOUS
<1>1. ~Final(mem[i])
  BY DEF Final, Dropped
<1>2. mem[i].digest = Content[w.file]
  BY <1>1 DEF TabChecked, Confirmed
<1>3. InStore(i, FileSize)
  BY DEF StoreInv, StoreOK
<1>4. QED
  BY <1>2, <1>3 DEF InStore

\* The loop turns.
LEMMA ProceedGoes ==
  ASSUME WireInv, StoreInv, NEW t \in Client, reply[t] # NoReply,
         NEW w, Informed(w), ~w.late, NEW st \in Entries, Proceed(t, w, st), home' = home
  PROVE  GoesOn(t)
<1> DEFINE s == w.ses.s
<1> DEFINE Good == \E u, q : Becomes(t, u, q) /\ FitsTab(u, q)
<1>1. /\ w \in Tabs /\ s \in GoodSession /\ s.status \in Statuses \ {"none"} /\ w.shown \notin Ended
      /\ TabSane(w) /\ TabChecked(w) /\ s.retryable \in BOOLEAN /\ w.tried \in BOOLEAN
      /\ keys' = keys /\ keys' \in Nat
  BY DEF Informed, TabSane, Tabs, GoodSession, Proceed, WireInv, BrowserOK
<1>2. Cleared(st, w.ses.id) \in Entries
  BY DEF Cleared, NoStored, Entries
<1> PICK retry \in BOOLEAN : retry = (s.status = "failed" /\ s.retryable /\ ~w.tried)
  BY <1>1
<1>3. CASE s.status = "uploading" /\ s.digest = << >>
  <2>1. Send(t, w, "chunk", NextChunk(w)) /\ Store(t, st)
    BY <1>3 DEF Proceed
  <2>2. Len(s.digest) < FileSize
    BY <1>1, <1>3 DEF TabSane
  <2>3. NextChunk(w).op = "chunk" /\ NextChunk(w).id = w.ses.id /\ RequestOK(NextChunk(w))
    BY <1>1, <2>2, NextFields
  <2>4. Good
    BY <1>1, <2>1, <2>3, SendFits DEF Phases
  <2>5. QED
    BY <1>1, <2>1, <2>4, StoreTyped DEF GoesOn
<1>4. CASE \/ s.status = "uploading" /\ s.digest # << >>
           \/ s.status = "ready"
           \/ retry
  <2> PICK b \in BOOLEAN : b = (w.tried \/ retry)
    BY <1>1
  <2> DEFINE v == [w EXCEPT !.tried = b]
  <2>1. Send(t, [w EXCEPT !.tried = @ \/ (s.status = "failed" /\ s.retryable /\ ~w.tried)],
             "validate", Prove("validate", w)) /\ Store(t, st)
    BY <1>1, <1>4 DEF Proceed
  <2>2. [w EXCEPT !.tried = @ \/ (s.status = "failed" /\ s.retryable /\ ~w.tried)] = v
    BY <1>1 DEF Tabs
  <2>3. /\ v \in Tabs /\ v.pc = w.pc /\ v.file = w.file /\ v.ses = w.ses /\ v.late = w.late
        /\ v.checked = w.checked /\ v.shown = w.shown
    BY <1>1 DEF Tabs
  <2>4. Send(t, v, "validate", Prove("validate", w))
    BY <2>1, <2>2
  <2> HIDE DEF v
  <2>5. TabSane(v) /\ TabChecked(v)
    BY <1>1, <2>3 DEF TabSane, TabChecked, Confirmed
  <2>6. /\ Prove("validate", w).op = "validate" /\ Prove("validate", w).id = w.ses.id
        /\ Prove("validate", w).digest = Prefix(w.file, Len(w.ses.s.digest))
        /\ RequestOK(Prove("validate", w))
    BY AskFields
  <2>7. Good
    BY <1>1, <2>3, <2>4, <2>5, <2>6, SendFits DEF Phases
  <2>8. QED
    BY <1>1, <2>1, <2>7, StoreTyped DEF GoesOn
<1>5. CASE s.status = "processing"
  <2>1. Send(t, w, "poll", Ask("get", w)) /\ Store(t, st)
    BY <1>5 DEF Proceed
  <2>2. Ask("get", w).op = "get" /\ Ask("get", w).id = w.ses.id /\ RequestOK(Ask("get", w))
    BY AskFields
  <2>3. Good
    BY <1>1, <2>1, <2>2, SendFits DEF Phases
  <2>4. QED
    BY <1>1, <2>1, <2>3, StoreTyped DEF GoesOn
<1>s. ASSUME NEW shown \in Shows, Stop(t, w, shown), shown = "completed" => s.status = "completed"
      PROVE  Good
  <2>1. w.checked /\ shown = "completed" => \A n \in 1 .. FileSize : Content[w.file][n] \in imported
    BY <1>1, <1>s, ImportedWhole DEF Informed
  <2>2. QED
    BY <1>1, <1>s, <2>1, StopFits
<1>6. CASE s.status \in {"completed", "cancelled"}
  <2>1. Stop(t, w, s.status) /\ Store(t, Cleared(st, w.ses.id))
    BY <1>6 DEF Proceed
  <2>2. s.status \in Shows
    BY <1>6 DEF Shows
  <2>3. Good
    BY <1>s, <2>1, <2>2
  <2>4. QED
    BY <1>1, <1>2, <2>1, <2>3, StoreTyped DEF GoesOn
<1>7. CASE s.status = "failed" /\ s.retryable /\ w.tried
  <2>1. Stop(t, w, "failed") /\ Store(t, st)
    BY <1>7 DEF Proceed
  <2>2. Good
    BY <1>s, <2>1 DEF Shows
  <2>3. QED
    BY <1>1, <2>1, <2>2, StoreTyped DEF GoesOn
<1>8. CASE s.status = "failed" /\ ~s.retryable
  <2>1. Stop(t, w, "rejected") /\ Store(t, Cleared(st, w.ses.id))
    BY <1>8 DEF Proceed
  <2>2. Good
    BY <1>s, <2>1 DEF Shows
  <2>3. QED
    BY <1>1, <1>2, <2>1, <2>2, StoreTyped DEF GoesOn
<1>9. QED
  BY <1>1, <1>3, <1>4, <1>5, <1>6, <1>7, <1>8 DEF Statuses

\* An upload fails.
LEMMA FailsGoes ==
  ASSUME WireInv, NEW t \in Client, reply[t] # NoReply, NEW code, Fails(t, tab[t], code), home' = home
  PROVE  GoesOn(t)
<1>1. TabSane(tab[t]) /\ TabChecked(tab[t])
  BY DEF WireInv
<1>2. Stop(t, tab[t], "failed") /\ keys' = keys /\ keys' \in Nat
  BY DEF Fails, WireInv, BrowserOK
<1>3. PICK st \in Entries : Store(t, st)
  BY EntryTyped DEF Fails
<1>4. \E u, q : Becomes(t, u, q) /\ FitsTab(u, q)
  BY <1>1, <1>2, StopFits DEF Shows, Ended
<1>5. QED
  BY <1>2, <1>3, <1>4, StoreTyped DEF GoesOn

\* A session is asked for with a resume key.
LEMMA CreateGoes ==
  ASSUME WireInv, NEW t \in Client, NEW w, TabSane(w), TabChecked(w), w.shown \notin Ended,
         ~w.late, ~w.checked, NEW key \in Nat, CreateWith(t, w, key), home' = home
  PROVE  GoesOn(t)
<1> PICK k \in Nat : k = IF key = 0 THEN keys + 1 ELSE key
  BY DEF WireInv, BrowserOK
<1> DEFINE v == [w EXCEPT !.key = k]
<1> DEFINE r == [NoCall EXCEPT !.op = "create", !.key = k]
<1>1. /\ Send(t, v, "create", r) /\ Store(t, [id |-> 0, key |-> k]) /\ keys' \in Nat
  BY DEF CreateWith, WireInv, BrowserOK
<1>2. w \in Tabs
  BY DEF TabSane
<1>3. /\ v \in Tabs /\ v.pc = w.pc /\ v.file = w.file /\ v.ses = w.ses /\ v.late = w.late
      /\ v.checked = w.checked /\ v.shown = w.shown
  BY <1>2 DEF Tabs
<1>4. r.op = "create" /\ r.key = k
  BY DEF NoCall
<1> HIDE DEF v, r
<1>5. TabSane(v) /\ TabChecked(v) /\ RequestOK(r)
  BY <1>3, <1>4 DEF TabSane, TabChecked, Confirmed, RequestOK
<1>6. \E u, q : Becomes(t, u, q) /\ FitsTab(u, q)
  BY <1>1, <1>3, <1>4, <1>5, SendFits DEF Phases
<1>7. [id |-> 0, key |-> k] \in Entries
  BY DEF Entries
<1>8. QED
  BY <1>1, <1>6, <1>7, StoreTyped DEF GoesOn

-----------------------------------------------------------------------------
\* An answer that says ok tells the tab what the server has.
LEMMA InformedBy ==
  ASSUME WireInv, StoreInv, SoundInv, NEW t \in Client, tab[t].pc # "idle", reply[t].code = "ok"
  PROVE  /\ Informed(With(t, reply[t])) /\ TrueAnswer(tab[t], reply[t], mem)
         /\ With(t, reply[t]).late = tab[t].late /\ With(t, reply[t]).checked = tab[t].checked
         /\ With(t, reply[t]).pc = tab[t].pc /\ With(t, reply[t]).file = tab[t].file
         /\ With(t, reply[t]).ses.id = reply[t].id /\ With(t, reply[t]).ses.s = reply[t].s
         /\ With(t, reply[t]).shown = tab[t].shown
<1> PICK w : w = tab[t]
  OBVIOUS
<1> PICK a : a = reply[t]
  OBVIOUS
<1>1. TabSane(w) /\ TabChecked(w) /\ TrueAnswer(w, a, mem) /\ w.pc # "idle"
  BY DEF WireInv, TabWire
<1> PICK i \in Id : i = a.id
  BY <1>1 DEF TrueAnswer
<1>2. mem[i] \in GoodSession /\ mem[i].status # "none" /\ a = Ok(i, mem[i])
  BY <1>1 DEF TrueAnswer, StoreInv, StoreOK
<1>3. /\ a.s \in GoodSession /\ a.s.digest = mem[i].digest /\ a.s.status = mem[i].status
  BY <1>2, OkSession
<1>4. i \in Nat /\ (mem[i].status = "uploading" => Len(mem[i].digest) < FileSize)
  BY ImportAssumption DEF Id, StoreInv, StoreOK
<1> DEFINE v == [w EXCEPT !.ses = [id |-> a.id, s |-> a.s]]
<1>5. With(t, a) = v
  BY DEF With
<1>6. w \in Tabs
  BY <1>1 DEF TabSane
<1>7. /\ v \in Tabs /\ v.pc = w.pc /\ v.file = w.file /\ v.late = w.late
      /\ v.checked = w.checked /\ v.shown = w.shown /\ v.ses.id = i /\ v.ses.s = a.s
  BY <1>3, <1>4, <1>6 DEF Tabs
<1> HIDE DEF v
<1>8. TabSane(v) /\ v.shown \notin Ended
  BY <1>1, <1>3, <1>4, <1>7 DEF TabSane
<1>9. TabChecked(v)
  <2>1. w.checked => w.ses.id = i
    BY <1>1 DEF TabSane, TrueAnswer
  <2>2. QED
    BY <1>1, <1>7, <1>8, <2>1 DEF TabChecked, Confirmed, Ended
<1>10. Informed(v)
  BY <1>2, <1>3, <1>7, <1>8, <1>9 DEF Informed
<1>11. QED
  BY <1>1, <1>5, <1>7, <1>10

\* What holds of a tab that reads an answer.
LEMMA Answered ==
  ASSUME WireInv, NEW t \in Client, reply[t] # NoReply
  PROVE  Free(t) /\ TabSane(tab[t]) /\ TabChecked(tab[t])
BY FreeTab, NoRequest DEF WireInv, TabWire

LEMMA ResolvedGoes ==
  ASSUME WireInv, StoreInv, SoundInv, NEW t \in Client, Resolved(t), home' = home
  PROVE  GoesOn(t)
<1> PICK a : a = reply[t]
  OBVIOUS
<1>1. tab[t].pc = "get" /\ a # NoReply
  BY DEF Resolved, Waits
<1>2. TabSane(tab[t]) /\ TabChecked(tab[t])
  BY <1>1, Answered
<1>3. ASSUME a.code = "ok", Proceed(t, With(t, a), Entry(t)) PROVE GoesOn(t)
  <2>1. Informed(With(t, a)) /\ With(t, a).late = tab[t].late
    BY <1>1, <1>3, InformedBy
  <2>2. ~tab[t].late
    BY <1>1, <1>2 DEF TabSane
  <2>3. QED
    BY <1>1, <1>3, <2>1, <2>2, EntryTyped, ProceedGoes
<1>4. ASSUME NEW code, Fails(t, tab[t], code) PROVE GoesOn(t)
  BY <1>1, <1>4, FailsGoes
<1>5. ASSUME NEW key \in Nat, CreateWith(t, tab[t], key) PROVE GoesOn(t)
  <2>1. tab[t].shown \notin Ended /\ ~tab[t].late /\ ~tab[t].checked
    BY <1>1, <1>2 DEF TabSane
  <2>2. QED
    BY <1>2, <1>5, <2>1, CreateGoes
<1>6. tab[t].key \in Nat
  BY <1>2 DEF TabSane, Tabs
<1> DEFINE usable == /\ a.code = "ok" /\ a.s.status # "cancelled"
                     /\ ~(a.s.status = "failed" /\ ~a.s.retryable)
<1>7. \/ a.code = "ok" /\ Proceed(t, With(t, a), Entry(t))
      \/ \E code : Fails(t, tab[t], code)
      \/ \E key \in {0, tab[t].key} : CreateWith(t, tab[t], key)
  <2>1. CASE usable
    BY <2>1 DEF Resolved
  <2>2. CASE a.code = "ok" /\ ~usable /\ tab[t].wanted # 0
    <3>1. Fails(t, tab[t], "conflict")
      BY <2>2 DEF Resolved
    <3>2. QED
      BY <3>1
  <2>3. CASE a.code = "ok" /\ ~usable /\ tab[t].wanted = 0
    <3>1. CreateWith(t, tab[t], 0)
      BY <2>3 DEF Resolved
    <3>2. QED
      BY <3>1
  <2>4. CASE a.code = "not_found" /\ tab[t].wanted = 0
    <3>1. CreateWith(t, tab[t], tab[t].key)
      BY <2>4 DEF Resolved
    <3>2. QED
      BY <3>1
  <2>5. CASE a.code # "ok" /\ ~(a.code = "not_found" /\ tab[t].wanted = 0)
    <3>1. Fails(t, tab[t], a.code)
      BY <2>5 DEF Resolved
    <3>2. QED
      BY <3>1
  <2>6. QED
    BY <2>1, <2>2, <2>3, <2>4, <2>5
<1>8. QED
  BY <1>3, <1>4, <1>5, <1>6, <1>7

LEMMA CreatedGoes ==
  ASSUME WireInv, StoreInv, SoundInv, NEW t \in Client, Created(t), home' = home
  PROVE  GoesOn(t)
<1> PICK a : a = reply[t]
  OBVIOUS
<1>1. tab[t].pc = "create" /\ a # NoReply
  BY DEF Created, Waits
<1>2. TabSane(tab[t]) /\ TabChecked(tab[t])
  BY <1>1, Answered
<1>3. CASE a.code = "ok"
  <2>1. Informed(With(t, a)) /\ With(t, a).late = tab[t].late /\ With(t, a).ses.id = a.id
    BY <1>1, <1>3, InformedBy
  <2>2. ~tab[t].late
    BY <1>1, <1>2 DEF TabSane
  <2>3. [id |-> a.id, key |-> tab[t].key] \in Entries
    BY <1>2, <2>1, ImportAssumption DEF TabSane, Tabs, Entries, Informed, Id
  <2>4. Proceed(t, With(t, a), [id |-> a.id, key |-> tab[t].key])
    BY <1>3 DEF Created
  <2>5. QED
    BY <1>1, <2>1, <2>2, <2>3, <2>4, ProceedGoes
<1>4. CASE a.code # "ok"
  BY <1>1, <1>4, FailsGoes DEF Created
<1>5. QED
  BY <1>3, <1>4

LEMMA ChunkAnsweredGoes ==
  ASSUME WireInv, StoreInv, SoundInv, NEW t \in Client, ChunkAnswered(t), home' = home
  PROVE  GoesOn(t)
<1> PICK a : a = reply[t]
  OBVIOUS
<1>1. tab[t].pc = "chunk" /\ a # NoReply
  BY DEF ChunkAnswered, Waits
<1>2. TabSane(tab[t]) /\ TabChecked(tab[t])
  BY <1>1, Answered
<1> DEFINE advanced == a.code = "ok" /\ Len(a.s.digest) = Len(tab[t].ses.s.digest) + 1
<1>3. CASE advanced
  <2>1. Informed(With(t, a)) /\ With(t, a).late = tab[t].late /\ With(t, a).ses.id = a.id
    BY <1>1, <1>3, InformedBy
  <2>2. ~tab[t].late
    BY <1>1, <1>2 DEF TabSane
  <2>3. [id |-> a.id, key |-> 0] \in Entries
    BY <2>1, ImportAssumption DEF Entries, Informed, Id
  <2>4. Proceed(t, With(t, a), [id |-> a.id, key |-> 0])
    BY <1>3 DEF ChunkAnswered
  <2>5. QED
    BY <1>1, <2>1, <2>2, <2>3, <2>4, ProceedGoes
<1>4. CASE ~advanced
  BY <1>1, <1>4, FailsGoes DEF ChunkAnswered
<1>5. QED
  BY <1>3, <1>4

LEMMA ProgressedGoes ==
  ASSUME WireInv, StoreInv, SoundInv, NEW t \in Client, Progressed(t), home' = home
  PROVE  GoesOn(t)
<1> PICK a : a = reply[t]
  OBVIOUS
<1>1. tab[t].pc \in {"complete", "poll"} /\ a # NoReply
  BY DEF Progressed, Waits
<1>2. TabSane(tab[t]) /\ TabChecked(tab[t])
  BY <1>1, Answered
<1>3. CASE a.code = "ok"
  <2>1. Informed(With(t, a)) /\ With(t, a).late = tab[t].late
    BY <1>1, <1>3, InformedBy
  <2>2. ~tab[t].late
    BY <1>1, <1>2 DEF TabSane
  <2>3. Proceed(t, With(t, a), Entry(t))
    BY <1>3 DEF Progressed
  <2>4. QED
    BY <1>1, <2>1, <2>2, <2>3, EntryTyped, ProceedGoes
<1>4. CASE a.code # "ok"
  BY <1>1, <1>4, FailsGoes DEF Progressed
<1>5. QED
  BY <1>3, <1>4

\* A session that there is has an identifier that was given out.
LEMMA GivenOut ==
  ASSUME SoundInv, NEW i \in Id, mem[i].status # "none"
  PROVE  i \in 1 .. issued
<1>1. i > issued => mem[i].status = "none"
  BY DEF SoundInv, SessionSound
<1>2. issued \in Nat /\ i \in 1 .. MaxId /\ MaxId \in Nat
  BY ImportAssumption DEF SoundInv, Id
<1>3. QED
  BY <1>1, <1>2

\* The server has checked the bytes that the tab has of its file.
LEMMA ValidatedGoes ==
  ASSUME WireInv, StoreInv, SoundInv, NEW t \in Client, Validated(t), home' = home
  PROVE  GoesOn(t)
<1> PICK a : a = reply[t]
  OBVIOUS
<1> PICK s : s = tab[t].ses.s
  OBVIOUS
<1>1. tab[t].pc = "validate" /\ a # NoReply
  BY DEF Validated, Waits
<1>2. TabSane(tab[t]) /\ TabChecked(tab[t])
  BY <1>1, Answered
<1>3. CASE a.code # "ok" \/ Len(a.s.digest) # Len(s.digest)
  BY <1>1, <1>3, FailsGoes DEF Validated
<1>4. CASE a.code = "ok" /\ Len(a.s.digest) = Len(s.digest)
  <2> PICK v : v = With(t, a)
    OBVIOUS
  <2> PICK b \in BOOLEAN : b = (Len(a.s.digest) = FileSize)
    OBVIOUS
  <2> DEFINE w == [v EXCEPT !.checked = b]
  <2>1. /\ Informed(v) /\ TrueAnswer(tab[t], a, mem) /\ v.late = tab[t].late
        /\ v.file = tab[t].file /\ v.ses.id = a.id /\ v.ses.s = a.s /\ v.pc = "validate"
    BY <1>1, <1>4, InformedBy
  <2>2. v \in Tabs /\ TabSane(v) /\ v.shown \notin Ended /\ ~v.late
    BY <1>1, <1>2, <2>1 DEF Informed, TabSane
  <2>3. /\ w \in Tabs /\ w.pc = v.pc /\ w.file = v.file /\ w.ses = v.ses /\ w.late = v.late
        /\ w.checked = b /\ w.shown = v.shown
    BY <2>2 DEF Tabs
  <2>4. IF s.status = "uploading"
        THEN Send(t, w, "chunk", NextChunk(w)) ELSE Send(t, w, "complete", Ask("complete", w))
    BY <1>4 DEF Validated
  <2>5. stored' = stored /\ keys' = keys /\ keys' \in Nat
    BY <1>4 DEF Validated, WireInv, BrowserOK
  <2> HIDE DEF w
  <2>6. TabSane(w)
    BY <2>1, <2>2, <2>3 DEF TabSane
  <2>7. Confirmed(w) \/ ~b
    <3>1. /\ a.id \in Id /\ mem[a.id].status # "none" /\ mem[a.id].digest = Prefix(tab[t].file, Len(s.digest))
      BY <1>1, <2>1 DEF TrueAnswer
    <3>2. a.id \in 1 .. issued
      BY <3>1, GivenOut
    <3>3. tab[t].file \in File
      BY <2>1, <2>2 DEF Tabs
    <3>4. b => mem[a.id].digest = Content[tab[t].file]
      BY <1>4, <3>1, <3>3, WholeFile
    <3>5. QED
      BY <2>1, <2>3, <3>2, <3>4 DEF Confirmed
  <2>8. TabChecked(w)
    BY <2>2, <2>3, <2>7 DEF TabChecked, Ended
  <2>9. \E u, q : Becomes(t, u, q) /\ FitsTab(u, q)
    <3>1. CASE s.status = "uploading"
      <4>1. Len(w.ses.s.digest) < FileSize
        BY <1>2, <1>4, <2>1, <2>3, <3>1 DEF TabSane
      <4>2. NextChunk(w).op = "chunk" /\ NextChunk(w).id = w.ses.id /\ RequestOK(NextChunk(w))
        BY <2>3, <4>1, NextFields
      <4>3. QED
        BY <2>2, <2>3, <2>4, <2>6, <2>8, <3>1, <4>2, SendFits DEF Phases
    <3>2. CASE s.status # "uploading"
      <4>1. /\ Ask("complete", w).op = "complete" /\ Ask("complete", w).id = w.ses.id
            /\ RequestOK(Ask("complete", w))
        BY AskFields
      <4>2. QED
        BY <2>2, <2>3, <2>4, <2>6, <2>8, <3>2, <4>1, SendFits DEF Phases
    <3>3. QED
      BY <3>1, <3>2
  <2>10. QED
    BY <2>5, <2>9, NoStore DEF GoesOn
<1>5. QED
  BY <1>3, <1>4

\* The cancellation is settled, or is asked about again, or given up.
LEMMA CancelAnsweredGoes ==
  ASSUME WireInv, StoreInv, SoundInv, NEW t \in Client, CancelAnswered(t), home' = home
  PROVE  GoesOn(t)
<1> PICK a : a = reply[t]
  OBVIOUS
<1> PICK w : w = tab[t]
  OBVIOUS
<1> DEFINE gone == a.code = "not_found" /\ w.pc = "cancel"
<1>1. w.pc \in {"cancel", "settle"} /\ a # NoReply
  BY DEF CancelAnswered, Waits
<1>2. TabSane(w) /\ TabChecked(w) /\ w \in Tabs /\ w.shown \notin Ended /\ w.shown \in Shows
  BY <1>1, Answered DEF TabSane, Tabs
<1>3. keys' = keys /\ keys' \in Nat
  BY DEF CancelAnswered, WireInv, BrowserOK
<1>4. (\E st \in Entries : Store(t, st)) \/ stored' = stored
  BY EntryTyped DEF CancelAnswered
<1>5. StorageOK'
  BY <1>3, <1>4, StoreTyped, NoStore
<1>6. CASE Stop(t, w, w.shown)
  BY <1>1, <1>2, <1>5, <1>6, StopFits DEF GoesOn, Ended
<1>7. CASE a.code = "ok" /\ a.s.status = "processing" /\ Send(t, With(t, a), "settle", Ask("get", With(t, a)))
  <2> PICK v : v = With(t, a)
    OBVIOUS
  <2>1. Informed(v)
    BY <1>1, <1>7, InformedBy
  <2>2. Ask("get", v).op = "get" /\ Ask("get", v).id = v.ses.id /\ RequestOK(Ask("get", v))
    BY AskFields
  <2>3. QED
    BY <1>5, <1>7, <2>1, <2>2, SendFits DEF GoesOn, Phases, Informed
<1>8. CASE \/ gone
           \/ a.code = "ok" /\ a.s.status \in Ended
  <2> PICK v : v = IF gone THEN w ELSE With(t, a)
    OBVIOUS
  <2> PICK shown : shown = IF gone THEN "cancelled" ELSE a.s.status
    OBVIOUS
  <2>1. TabSane(v) /\ TabChecked(v) /\ shown \in Ended
        /\ (shown = "completed" => v.ses.id \in Id /\ mem[v.ses.id].status = "completed")
    <3>1. CASE gone
      BY <1>2, <3>1 DEF Ended
    <3>2. CASE ~gone
      <4>1. v = With(t, a) /\ a.code = "ok" /\ shown = a.s.status /\ shown \in Ended
        BY <1>8, <3>2
      <4>2. Informed(v) /\ v.ses.s = a.s
        BY <1>1, <4>1, InformedBy
      <4>3. QED
        BY <4>1, <4>2 DEF Informed
    <3>3. QED
      BY <3>1, <3>2
  <2> DEFINE u == Settled(v)
  <2>2. v \in Tabs
    BY <2>1 DEF TabSane
  <2>3. /\ u \in Tabs /\ u.pc = v.pc /\ u.file = v.file /\ u.ses = v.ses /\ u.late = FALSE
        /\ u.checked = v.checked /\ u.shown = v.shown
    BY <2>2 DEF Tabs, Settled
  <2> HIDE DEF u
  <2>4. TabSane(u) /\ TabChecked(u)
    BY <2>1, <2>3 DEF TabSane, TabChecked, Confirmed
  <2>5. u.checked /\ shown = "completed" => \A n \in 1 .. FileSize : Content[u.file][n] \in imported
    BY <2>1, <2>3, <2>4, ImportedWhole
  <2>6. Stop(t, u, shown) \/ Stop(t, w, w.shown)
    BY <1>1, <1>8 DEF CancelAnswered, u, Ended
  <2>7. shown \in Shows
    BY <2>1 DEF Ended, Shows
  <2>8. QED
    BY <1>1, <1>5, <1>6, <2>3, <2>4, <2>5, <2>6, <2>7, StopFits DEF GoesOn
<1>9. QED
  BY <1>6, <1>7, <1>8 DEF CancelAnswered, Ended

LEMMA ReceiveWire ==
  ASSUME WireInv, StoreInv, SoundInv, NEW t \in Client, Receive(t)
  PROVE  WireInv'
<1>1. reply[t] # NoReply
  BY DEF Receive, Resolved, Created, Validated, ChunkAnswered, Progressed, CancelAnswered, Waits
<1>2. home' = home /\ UNCHANGED <<server, late>>
  BY DEF Receive
<1>3. GoesOn(t)
  BY <1>2, ResolvedGoes, CreatedGoes, ValidatedGoes, ChunkAnsweredGoes, ProgressedGoes,
     CancelAnsweredGoes DEF Receive
<1>4. QED
  BY <1>1, <1>2, <1>3, Answered, WireGoesOn

-----------------------------------------------------------------------------
\* A tab at rest starts.
LEMMA BeginWire ==
  ASSUME WireInv, NEW t \in Client, NEW f \in File, NEW id \in Nat, tab[t].pc = "idle", Begin(t, f, id)
  PROVE  WireInv'
<1> PICK e \in Entries : e = Entry(t)
  BY EntryTyped
<1> PICK target \in Nat : target = IF id # 0 THEN id ELSE e.id
  BY DEF Entries
<1> DEFINE w == [NewTab(f) EXCEPT !.wanted = id, !.key = e.key, !.shown = "busy"]
<1>1. /\ w \in Tabs /\ ~w.late /\ ~w.checked /\ w.shown = "busy"
      /\ w.ses.s.status = "none" /\ w.pc = "idle"
  BY GoodNone DEF Tabs, NewTab, Phases, Shows, Entries
<1>2. IF target = 0
      THEN CreateWith(t, w, e.key)
      ELSE /\ Send(t, w, "get", [NoCall EXCEPT !.op = "get", !.id = target])
           /\ UNCHANGED <<stored, keys>>
  BY DEF Begin
<1> HIDE DEF w
<1>3. TabSane(w) /\ TabChecked(w) /\ w.shown \notin Ended
  BY <1>1 DEF TabSane, TabChecked, Ended
<1>4. home' = home /\ UNCHANGED <<server, late>>
  BY DEF Begin
<1>5. GoesOn(t)
  <2>1. CASE target = 0
    BY <1>1, <1>2, <1>3, <1>4, <2>1, CreateGoes DEF Entries
  <2>2. CASE target # 0
    <3> DEFINE r == [NoCall EXCEPT !.op = "get", !.id = target]
    <3>1. r.op = "get" /\ RequestOK(r)
      BY DEF NoCall, RequestOK
    <3>2. Send(t, w, "get", r)
      BY <1>2, <2>2
    <3> HIDE DEF r
    <3>3. \E u, q : Becomes(t, u, q) /\ FitsTab(u, q)
      BY <1>1, <1>3, <3>1, <3>2, SendFits DEF Phases
    <3>4. keys' \in Nat /\ stored' = stored
      BY <1>2, <2>2 DEF WireInv, BrowserOK
    <3>5. QED
      BY <1>4, <3>3, <3>4, NoStore DEF GoesOn
  <2>3. QED
    BY <2>1, <2>2
<1>6. Free(t)
  BY DEF Free, WireInv, Waiting
<1>7. QED
  BY <1>4, <1>5, <1>6, WireGoesOn

LEMMA CancelClickWire ==
  ASSUME WireInv, SoundInv, NEW t \in Client, CancelClick(t)
  PROVE  WireInv'
<1> PICK w : w = tab[t]
  OBVIOUS
<1> PICK b \in BOOLEAN : b = (w.pc # "idle")
  OBVIOUS
<1> DEFINE u == [w EXCEPT !.pc = "cancel", !.late = b]
<1>1. TabSane(w) /\ TabChecked(w) /\ w \in Tabs /\ w.shown \notin Ended
  BY DEF WireInv, TabSane, CancelClick, Ended
<1>2. /\ u \in Tabs /\ u.pc = "cancel" /\ u.late = b /\ u.ses = w.ses /\ u.file = w.file
      /\ u.checked = w.checked /\ u.shown = w.shown
  BY <1>1 DEF Tabs, Phases
<1>3. tab' = [tab EXCEPT ![t] = u]
  <2>1. tab' = [tab EXCEPT ![t].pc = "cancel", ![t].late = b]
    BY DEF CancelClick
  <2>2. tab = [x \in Client |-> tab[x]]
    BY DEF WireInv, BrowserOK
  <2>3. QED
    BY <2>1, <2>2
<1> HIDE DEF u
<1>4. TabSane(u) /\ TabChecked(u)
  BY <1>1, <1>2 DEF TabSane, TabChecked, Confirmed
<1>5. Ask("cancel", w).op = "cancel" /\ Ask("cancel", w).id = w.ses.id /\ RequestOK(Ask("cancel", w))
  BY AskFields
<1>6. FitsTab(u, Ask("cancel", w))
  BY <1>2, <1>4, <1>5 DEF FitsTab, Asked
<1>7. HangUp(t, Ask("cancel", w), NoReply) /\ UNCHANGED <<stored, home, keys>>
  BY DEF CancelClick
<1>8. QED
  BY <1>3, <1>6, <1>7, NoRequest, HangUpWire

\* The aborted upload reports beside what its tab asks for now.
LEMMA UnwindWire ==
  ASSUME WireInv, NEW t \in Client, Unwind(t)
  PROVE  WireInv'
<1>1. UNCHANGED <<mem, issued, imported, chunk, call, reply, late, stored, home, keys>>
  BY DEF Unwind, server, wire
<1> PICK w : w = tab[t]
  OBVIOUS
<1>2. TabSane(w) /\ TabChecked(w) /\ w \in Tabs /\ w.shown \notin Ended
  BY DEF WireInv, TabSane, Unwind
<1> DEFINE u == [w EXCEPT !.late = FALSE, !.shown = "paused"]
<1>3. tab' = [tab EXCEPT ![t] = u]
  <2>1. tab' = [tab EXCEPT ![t].late = FALSE, ![t].shown = IF @ = "cancelled" THEN @ ELSE "paused"]
    BY DEF Unwind
  <2>2. tab = [x \in Client |-> tab[x]] /\ w.shown # "cancelled"
    BY <1>2 DEF WireInv, BrowserOK, Ended
  <2>3. [w EXCEPT !.late = FALSE, !.shown = IF @ = "cancelled" THEN @ ELSE "paused"] = u
    BY <2>2
  <2>4. tab' = [tab EXCEPT ![t] = [w EXCEPT !.late = FALSE, !.shown = IF @ = "cancelled" THEN @ ELSE "paused"]]
    BY <1>2, <2>1, <2>2 DEF Tabs
  <2>5. QED
    BY <2>3, <2>4
<1>4. /\ u \in Tabs /\ u.pc = w.pc /\ u.late = FALSE /\ u.ses = w.ses /\ u.file = w.file
      /\ u.checked = w.checked /\ u.shown = "paused"
  BY <1>2 DEF Tabs, Shows
<1> HIDE DEF u
<1>5. TabSane(u) /\ TabChecked(u)
  BY <1>2, <1>4 DEF TabSane, TabChecked, Confirmed, Ended
<1>6. /\ tab'[t] = u /\ \A x \in Client \ {t} : tab'[x] = tab[x]
      /\ BrowserOK'
  BY <1>1, <1>3 DEF WireInv, BrowserOK
<1>7. ASSUME NEW x \in Client PROVE TabSane(tab[x])' /\ TabChecked(tab[x])' /\ TabWire(x)'
  <2>1. CASE x = t
    <3>1. TabSane(tab[x])' /\ TabChecked(tab[x])'
      BY <1>1, <1>5, <1>6, <2>1 DEF TabSane, TabChecked, Confirmed
    <3>2. TabWire(t)
      BY DEF WireInv
    <3>3. TabWire(x)'
      BY <1>1, <1>4, <1>6, <2>1, <3>2 DEF TabWire, Asked, TrueAnswer
    <3>4. QED
      BY <3>1, <3>3
  <2>2. CASE x # t
    BY <1>1, <1>6, <2>2, OtherTab
  <2>3. QED
    BY <2>1, <2>2
<1>8. \A i \in Id, x \in Client : Waiting(i, x)'
  BY <1>1, <1>4, <1>6 DEF Waiting, WireInv
<1>9. RequestOK(late)'
  BY <1>1 DEF RequestOK, WireInv
<1>10. QED
  BY <1>6, <1>7, <1>8, <1>9 DEF WireInv

-----------------------------------------------------------------------------
\* At the start nothing is kept, nobody waits and nothing is on its way.
LEMMA StoreInit ==
  ASSUME UploadInit
  PROVE  StoreInv
<1>1. /\ mem = [i \in Id |-> NoSession] /\ disk = [i \in Id |-> NoSession]
      /\ data = [i \in Id |-> << >>] /\ synced = [i \in Id |-> 0] /\ verified = {}
      /\ chunk = [i \in Id |-> NoChunk] /\ job = [i \in Id |-> NoJob]
      /\ issued = 0 /\ imported = {} /\ faults = 0
  BY DEF UploadInit, Init
<1>2. Tables /\ Numbers
  BY <1>1, ImportAssumption DEF Tables, Numbers
<1>3. ~NoSession.cancel
  BY DEF NoSession
<1>4. \A i \in Id : StoreOK(i)
  BY <1>1, <1>3, GoodNone DEF StoreOK
<1>5. QED
  BY <1>2, <1>4 DEF StoreInv

LEMMA WireInit ==
  ASSUME UploadInit
  PROVE  WireInv
<1> PICK f \in File : f = CHOOSE g \in File : TRUE
  BY FilesFit
<1> PICK w : w = NewTab(f)
  OBVIOUS
<1>1. /\ chunk = [i \in Id |-> NoChunk] /\ call = [c \in Client |-> NoCall] /\ late = NoCall
      /\ reply = [c \in Client |-> NoReply] /\ tab = [t \in Client |-> w]
      /\ stored = [b \in Browser |-> NoStored] /\ home \in [Client -> Browser] /\ keys = 0
  BY FilesFit DEF UploadInit, Init
<1>2. w \in Tabs /\ w.pc = "idle" /\ ~w.late /\ ~w.checked /\ w.ses.s.status = "none"
  BY GoodNone DEF NewTab, Tabs, Phases, Shows
<1>3. TabSane(w) /\ TabChecked(w)
  BY <1>2 DEF TabSane, TabChecked
<1>4. BrowserOK
  BY <1>1 DEF BrowserOK, NoStored, Entries
<1>5. \A t \in Client : TabWire(t)
  BY <1>1, NoRequest DEF TabWire
<1>6. \A i \in Id, t \in Client : Waiting(i, t)
  BY <1>1, ImportAssumption DEF Waiting, NoChunk
<1>7. QED
  BY <1>1, <1>3, <1>4, <1>5, <1>6, NoRequest DEF WireInv

\* What every step does to the tabs and to the wire.
LEMMA WireStep ==
  ASSUME StoreInv, SoundInv, WireInv, [Next]_vars
  PROVE  WireInv'
<1>1. StoreStep
  BY WireRequests, SessionsStep
<1>b. CASE Quiet /\ Background /\ UNCHANGED browser
  <2>1. CASE ServeLate
    BY <1>1, <1>b, <2>1, HandleWire DEF ServeLate
  <2>2. ASSUME NEW c \in Client, Serve(c) PROVE WireInv'
    BY <1>1, <1>b, <2>2, HandleWire DEF Serve
  <2>3. ASSUME NEW c \in Client, Lose(c) PROVE WireInv'
    BY <1>b, <2>3, LoseWire
  <2>4. ASSUME NEW id \in Id, EndChunk(id) PROVE WireInv'
    BY <1>1, <1>b, <2>4, EndChunkWire
  <2>5. ASSUME NEW id \in Id, CopyChunk(id) \/ ImportBatch(id) \/ EndImport(id) \/ Expire(id)
        PROVE  WireInv'
    BY <1>1, <1>b, <2>5, SilentWire
  <2>6. CASE Crash
    BY <1>1, <1>b, <2>6, CrashWire
  <2>7. QED
    BY <1>b, <2>1, <2>2, <2>3, <2>4, <2>5, <2>6 DEF Background
<1>s. ASSUME NEW t \in Client, NEW f \in Selects[t], NEW id \in 0 .. issued, SelectFile(t, f, id)
      PROVE  WireInv'
  <2>1. f \in File /\ id \in Nat /\ tab[t].pc = "idle" /\ Begin(t, f, id)
    BY <1>s, FilesFit DEF SelectFile, Idle
  <2>2. QED
    BY <2>1, BeginWire
<1>r. ASSUME NEW t \in Client, Resume(t) PROVE WireInv'
  <2>1. tab[t] \in Tabs /\ tab[t].pc = "idle" /\ Begin(t, tab[t].file, tab[t].ses.id)
    BY <1>r DEF Resume, Idle, WireInv, TabSane
  <2>2. tab[t].file \in File /\ tab[t].ses.id \in Nat
    BY <2>1 DEF Tabs
  <2>3. QED
    BY <2>1, <2>2, BeginWire
<1>t. ASSUME NEW t \in Client,
             Unwind(t) \/ Receive(t) \/ Pause(t) \/ CancelClick(t) \/ (Lose(t) /\ UNCHANGED browser)
      PROVE  WireInv'
  BY <1>t, UnwindWire, ReceiveWire, PauseWire, CancelClickWire, LoseWire
<1>v. CASE UNCHANGED vars
  <2>1. UNCHANGED <<mem, issued, imported, chunk, call, reply, late, tab, stored, home, keys>>
    BY <1>v DEF vars, server, wire, browser
  <2>2. \A t \in Client : TabSane(tab[t])' /\ TabChecked(tab[t])' /\ TabWire(t)'
    BY <2>1, OtherTab
  <2>3. (\A i \in Id, t \in Client : Waiting(i, t)') /\ BrowserOK' /\ RequestOK(late)'
    BY <2>1 DEF WireInv, Waiting, BrowserOK, RequestOK
  <2>4. QED
    BY <2>2, <2>3 DEF WireInv
<1>q. QED
  BY <1>b, <1>s, <1>r, <1>t, <1>v DEF Next

-----------------------------------------------------------------------------
(* What was confirmed to the tabs. *)

AckOK(i) ==
    /\ acked[i] \in Seq(Block)
    /\ i > issued => acked[i] = << >> /\ i \notin cancelled
    /\ Reserves(mem[i]) => IsPrefix(acked[i], mem[i].digest)
    /\ i \in cancelled => Final(mem[i])

AckInv ==
    /\ acked = [i \in Id |-> acked[i]] /\ cancelled \subseteq Id
    /\ \A i \in Id : AckOK(i)

LEMMA AckInit ==
  ASSUME UploadInit
  PROVE  AckInv
<1>1. /\ mem = [i \in Id |-> NoSession] /\ acked = [i \in Id |-> << >>] /\ cancelled = {}
  BY DEF UploadInit, Init
<1>2. << >> \in Seq(Block)
  OBVIOUS
<1>3. QED
  BY <1>1, <1>2, GoodNone DEF AckInv, AckOK

\* No step takes back what was confirmed.
LEMMA AckStays ==
  ASSUME AckInv, StoreInv, StoreStep, UNCHANGED <<acked, cancelled>>
  PROVE  AckInv'
<1>1. ASSUME NEW i \in Id PROVE AckOK(i)'
  <2>1. AckOK(i) /\ Moves(i) /\ issued <= issued' /\ issued \in Nat /\ issued' \in Nat /\ i \in Nat
    BY ImportAssumption DEF AckInv, StoreStep, StoreInv, Numbers, Id
  <2>2. mem[i] \in GoodSession /\ mem'[i] \in GoodSession
    BY DEF StoreStep, StoreInv, StoreOK
  <2>3. mem[i].digest \in Seq(Block) /\ mem'[i].digest \in Seq(Block)
    BY <2>2, BeginningIsSeq DEF GoodSession
  <2>4. CASE i > issued /\ i <= issued' /\ mem'[i].digest = << >>
    <3>1. acked'[i] = << >> /\ i \notin cancelled'
      BY <2>1, <2>4 DEF AckOK
    <3>2. IsPrefix(<< >>, mem'[i].digest)
      BY <2>3, PrefixOfItself
    <3>3. QED
      BY <2>1, <2>4, <3>1, <3>2 DEF AckOK
  <2>5. CASE ~(i > issued /\ i <= issued' /\ mem'[i].digest = << >>)
    <3>1. /\ \/ mem'[i].digest = mem[i].digest
             \/ mem'[i].status = "none"
             \/ IsPrefix(mem[i].digest, mem'[i].digest)
          /\ Reserves(mem'[i]) => Reserves(mem[i])
          /\ Final(mem[i]) => Final(mem'[i])
      BY <2>1, <2>5 DEF Moves
    <3>2. Reserves(mem'[i]) => mem'[i].status # "none"
      BY DEF Reserves
    <3>3. Reserves(mem'[i]) => IsPrefix(acked[i], mem'[i].digest)
      BY <2>1, <2>3, <3>1, <3>2, PrefixOfLonger DEF AckOK
    <3>4. i > issued' => i > issued
      BY <2>1
    <3>5. QED
      BY <2>1, <3>1, <3>3, <3>4 DEF AckOK
  <2>6. QED
    BY <2>4, <2>5
<1>2. QED
  BY <1>1 DEF AckInv

\* What a tab notes is what the server has.
LEMMA NotedAnswer ==
  ASSUME AckInv, WireInv, StoreInv, SoundInv, NEW t \in Client,
         ChunkAnswered(t) \/ CancelAnswered(t), UNCHANGED server
  PROVE  AckInv'
<1> PICK a : a = reply[t]
  OBVIOUS
<1>0. mem' = mem /\ issued' = issued /\ issued \in Nat
  BY DEF server, SoundInv
<1>1. ASSUME a.code = "ok", tab[t].pc \in {"chunk", "cancel"}
      PROVE  /\ a.id \in 1 .. issued /\ a.id \in Id /\ a.id = tab[t].ses.id
             /\ a.s.digest = mem[a.id].digest /\ a.s.status = mem[a.id].status
             /\ mem[a.id].digest \in Seq(Block)
             /\ tab[t].pc = "cancel" /\ a.s.status = "processing" => mem[a.id].cancel
  <2> PICK v : v = With(t, a)
    OBVIOUS
  <2>1. Informed(v) /\ TrueAnswer(tab[t], a, mem) /\ v.ses.id = a.id /\ v.ses.s = a.s
    BY <1>1, InformedBy
  <2>2. a.id \in 1 .. issued
    BY <2>1, GivenOut DEF Informed
  <2>3. mem[a.id].digest \in Seq(Block)
    BY <2>1, BeginningIsSeq DEF Informed, StoreInv, StoreOK, GoodSession
  <2>4. QED
    BY <1>1, <2>1, <2>2, <2>3 DEF Informed, TrueAnswer
<1>2. CASE ChunkAnswered(t)
  <2>1. CASE UNCHANGED <<acked, cancelled>>
    BY <1>0, <2>1 DEF AckInv, AckOK
  <2>2. CASE a.code = "ok" /\ acked' = [acked EXCEPT ![a.id] = a.s.digest] /\ cancelled' = cancelled
    <3>1. tab[t].pc = "chunk"
      BY <1>2 DEF ChunkAnswered, Waits
    <3>2. /\ a.id \in 1 .. issued /\ a.id \in Id
          /\ a.s.digest = mem[a.id].digest /\ mem[a.id].digest \in Seq(Block)
      BY <1>1, <2>2, <3>1
    <3>3. IsPrefix(a.s.digest, mem[a.id].digest)
      BY <3>2, PrefixOfItself
    <3>4. ASSUME NEW i \in Id PROVE AckOK(i)'
      <4>1. AckOK(i) /\ acked = [j \in Id |-> acked[j]]
        BY DEF AckInv
      <4>2. CASE i = a.id
        <5>1. acked'[i] = a.s.digest /\ ~(i > issued)
          BY <1>0, <2>2, <3>2, <4>1, <4>2
        <5>2. QED
          BY <1>0, <2>2, <3>2, <3>3, <4>1, <4>2, <5>1 DEF AckOK
      <4>3. CASE i # a.id
        <5>1. acked'[i] = acked[i]
          BY <2>2, <4>1, <4>3
        <5>2. QED
          BY <1>0, <2>2, <4>1, <5>1 DEF AckOK
      <4>4. QED
        BY <4>2, <4>3
    <3>5. QED
      BY <2>2, <3>4 DEF AckInv
  <2>3. QED
    BY <1>2, <2>1, <2>2 DEF ChunkAnswered
<1>3. CASE CancelAnswered(t)
  <2>1. acked' = acked
    BY <1>3 DEF CancelAnswered
  <2>2. CASE cancelled' = cancelled
    BY <1>0, <2>1, <2>2 DEF AckInv, AckOK
  <2>3. CASE /\ tab[t].pc = "cancel" /\ a.code = "ok" /\ a.s.status \in {"processing", "cancelled"}
             /\ cancelled' = cancelled \cup {tab[t].ses.id}
    <3> PICK id : id = tab[t].ses.id
      OBVIOUS
    <3>1. id \in 1 .. issued /\ id \in Id /\ Final(mem[id])
      BY <1>1, <2>3 DEF Final, Dropped
    <3>2. \A i \in Id : AckOK(i)'
      BY <1>0, <2>1, <2>3, <3>1 DEF AckInv, AckOK
    <3>3. QED
      BY <2>1, <2>3, <3>1, <3>2 DEF AckInv
  <2>4. QED
    BY <1>3, <2>2, <2>3 DEF CancelAnswered
<1>4. QED
  BY <1>2, <1>3

LEMMA AckStep ==
  ASSUME AckInv, WireInv, StoreInv, SoundInv, [Next]_vars
  PROVE  AckInv'
<1>1. StoreStep
  BY WireRequests, SessionsStep
<1>2. CASE UNCHANGED <<acked, cancelled>>
  BY <1>1, <1>2, AckStays
<1>3. ASSUME NEW t \in Client, Receive(t) PROVE AckInv'
  BY <1>2, <1>3, NotedAnswer DEF Receive, Resolved, Created, Validated, Progressed
<1>4. QED
  BY <1>2, <1>3 DEF Next, vars, browser, Unwind, Resume, SelectFile, Begin, Pause, CancelClick

-----------------------------------------------------------------------------
(* The invariant of the sessions and their tabs. *)

UploadInv == SoundInv /\ StoreInv /\ WireInv /\ AckInv

LEMMA UploadInvInit == UploadInit => UploadInv
BY LimitInit, StoreInit, WireInit, AckInit DEF UploadInv, LimitInv

LEMMA UploadInvStep == UploadInv /\ [Next]_vars => UploadInv'
<1> SUFFICES ASSUME UploadInv, [Next]_vars PROVE UploadInv'
  OBVIOUS
<1>1. SoundInv'
  BY PlaceStep DEF UploadInv
<1>2. StoreInv'
  BY WireRequests, SessionsStep DEF UploadInv, StoreStep
<1>3. WireInv' /\ AckInv'
  BY WireStep, AckStep DEF UploadInv
<1>4. QED
  BY <1>1, <1>2, <1>3 DEF UploadInv

LEMMA UploadInvHolds == Spec => []UploadInv
BY UploadInvInit, UploadInvStep, PTL DEF Spec

\* What the .part file of a session holds.
LEMMA FileOfSession ==
  ASSUME StoreInv, SoundInv, NEW i \in Id
  PROVE  /\ mem[i].digest \in Seq(Block) /\ data[i] \in Seq(Block)
         /\ Reserves(mem[i]) => IsPrefix(mem[i].digest, data[i])
<1>1. StoreOK(i) /\ ChunkShape(chunk[i])
  BY DEF StoreInv, SoundInv, SessionSound
<1>2. mem[i].digest \in Beginnings /\ mem[i].digest \in Seq(Block)
  BY <1>1, BeginningIsSeq DEF StoreOK, GoodSession
<1>3. Held(i) \in Seq(Block) /\ IsPrefix(mem[i].digest, Held(i))
  <2>1. CASE chunk[i].copied
    <3>1. chunk[i] # NoChunk
      BY <2>1 DEF NoChunk
    <3>2. Continues(mem[i].digest, chunk[i].block)
      BY <1>1, <3>1 DEF StoreOK
    <3>3. mem[i].digest \o chunk[i].block \in Beginnings
      BY <3>2, NextBeginning
    <3>4. QED
      BY <2>1, <3>2, <3>3, BeginningIsSeq, PrefixOfNext DEF Held
  <2>2. CASE ~chunk[i].copied
    BY <1>2, <2>2, PrefixOfItself DEF Held
  <2>3. QED
    BY <2>1, <2>2
<1>4. << >> \in Seq(Block)
  OBVIOUS
<1>5. QED
  BY <1>1, <1>2, <1>3, <1>4 DEF StoreOK

LEMMA SessionTypes == UploadInv => SessionsTypeOK
<1> SUFFICES ASSUME UploadInv PROVE SessionsTypeOK
  OBVIOUS
<1>1. StoreInv /\ SoundInv /\ Tables /\ Numbers
  BY DEF UploadInv, StoreInv
<1>2. GoodSession \subseteq Session
  BY BeginningIsSeq DEF GoodSession, Session
<1>3. ASSUME NEW i \in Id
      PROVE  /\ mem[i] \in Session /\ disk[i] \in Session /\ data[i] \in Seq(Block)
             /\ synced[i] \in Nat /\ job[i] \in Nat \cup {NoJob}
  <2>1. StoreOK(i)
    BY <1>1 DEF StoreInv
  <2>2. mem[i] \in Session /\ disk[i] \in Session /\ data[i] \in Seq(Block)
    BY <1>1, <1>2, <2>1, FileOfSession DEF StoreOK
  <2>3. Len(mem[i].digest) \in Nat
    BY <1>1, FileOfSession
  <2>4. synced[i] \in Nat /\ job[i] \in Nat \cup {NoJob}
    BY <2>1, <2>3, ImportAssumption DEF StoreOK
  <2>5. QED
    BY <2>2, <2>4
<1>4. QED
  BY <1>1, <1>3 DEF SessionsTypeOK, Tables, Numbers

\* The types of the manager's state and of its files, and the session limit
\* (import_session.go).
THEOREM SessionsStayConsistent == Spec => []SessionsConsistent
BY UploadInvHolds, SessionTypes, SessionsWithinLimit, PTL DEF SessionsConsistent

\* What the server keeps begins like one of the files, whichever tabs upload
\* to the same session and whatever the crashes leave of the .part file
\* (import_session.go, WriteChunk and ensureInitializedLocked).
THEOREM NeverAMixture == Spec => []NeverSpliced
<1>1. UploadInv => NeverSpliced
  <2> SUFFICES ASSUME UploadInv, NEW i \in Id
               PROVE  \E f \in File : IsPrefix(mem[i].digest, Content[f])
    BY DEF NeverSpliced
  <2>1. mem[i].digest \in Beginnings
    BY DEF UploadInv, StoreInv, StoreOK, GoodSession
  <2>2. PICK f \in File, n \in 0 .. FileSize : mem[i].digest = Prefix(f, n)
    BY <2>1 DEF Beginnings
  <2>3. Prefix(f, n) \in Seq(Block) /\ Len(Prefix(f, n)) = n
    BY PrefixOfFile
  <2>4. Len(Content[f]) = FileSize /\ FileSize \in Nat
    BY FileSequence, ImportAssumption
  <2>5. SubSeq(Prefix(f, n), 1, n) = Prefix(f, n)
    BY <2>3, PrefixOfItself
  <2>6. IsPrefix(Prefix(f, n), Content[f])
    BY <2>3, <2>4, <2>5 DEF IsPrefix, Prefix
  <2>7. QED
    BY <2>2, <2>6
<1>2. QED
  BY <1>1, UploadInvHolds, PTL

\* A chunk that was confirmed to a tab outlives crashes, failed writes and the
\* chunks of other tabs as long as the session can go on (import_session.go,
\* WriteChunk: sync, metadata, answer).
THEOREM AcknowledgedIsKept == Spec => []AcknowledgedSurvives
<1>1. UploadInv => AcknowledgedSurvives
  <2> SUFFICES ASSUME UploadInv, NEW i \in Id, Reserves(mem[i])
               PROVE  IsPrefix(acked[i], mem[i].digest) /\ IsPrefix(acked[i], data[i])
    BY DEF AcknowledgedSurvives
  <2>1. acked[i] \in Seq(Block) /\ IsPrefix(acked[i], mem[i].digest)
    BY DEF UploadInv, AckInv, AckOK
  <2>2. mem[i].digest \in Seq(Block) /\ data[i] \in Seq(Block) /\ IsPrefix(mem[i].digest, data[i])
    BY FileOfSession DEF UploadInv
  <2>3. QED
    BY <2>1, <2>2, PrefixOfLonger
<1>2. QED
  BY <1>1, UploadInvHolds, PTL

\* A cancellation that was confirmed to a tab is never undone: not by the end
\* of the import that runs, not by a failed write, not by a restart (import_session.go,
\* Cancel, runImport and ensureInitializedLocked).
THEOREM CancelStaysFinal == Spec => []CancelIsFinal
<1>1. UploadInv => CancelIsFinal
  BY DEF UploadInv, AckInv, AckOK, CancelIsFinal, Final, Dropped
<1>2. QED
  BY <1>1, UploadInvHolds, PTL

\* A tab that verified its whole file and shows success has it in the event
\* store, though other tabs may have uploaded other files to the session
\* (usageImportSession.ts, the loop and validateSessionPrefix).
THEOREM VerifiedMeansImported == Spec => []VerifiedSuccess
<1>1. UploadInv => VerifiedSuccess
  BY DEF UploadInv, WireInv, TabChecked, VerifiedSuccess
<1>2. QED
  BY <1>1, UploadInvHolds, PTL

-----------------------------------------------------------------------------
\* A tab that starts says so.
LEMMA BeginShows ==
  ASSUME WireInv, NEW t \in Client, NEW f, NEW id, Begin(t, f, id)
  PROVE  tab'[t].shown = "busy" /\ \A u \in Client \ {t} : tab'[u] = tab[u]
<1> DEFINE w == [NewTab(f) EXCEPT !.wanted = id, !.key = Entry(t).key, !.shown = "busy"]
<1> DEFINE fields == {"pc", "file", "ses", "wanted", "key", "tried", "checked", "late", "shown"}
<1>1. w.shown = "busy" /\ DOMAIN w = fields
  BY DEF NewTab
<1>2. CreateWith(t, w, Entry(t).key) \/ \E r : Send(t, w, "get", r)
  BY DEF Begin
<1>3. tab = [u \in Client |-> tab[u]]
  BY DEF WireInv, BrowserOK
<1> HIDE DEF w
<1>4. ASSUME NEW v, v.shown = "busy", DOMAIN v = fields, NEW pc, NEW r, Send(t, v, pc, r)
      PROVE  tab'[t].shown = "busy" /\ \A u \in Client \ {t} : tab'[u] = tab[u]
  BY <1>3, <1>4 DEF Send
<1>5. CASE \E r : Send(t, w, "get", r)
  BY <1>1, <1>4, <1>5
<1>6. CASE CreateWith(t, w, Entry(t).key)
  <2> PICK k : k = IF Entry(t).key = 0 THEN keys + 1 ELSE Entry(t).key
    OBVIOUS
  <2> DEFINE v == [w EXCEPT !.key = k]
  <2>1. v.shown = "busy" /\ DOMAIN v = fields
    BY <1>1
  <2>2. \E r : Send(t, v, "create", r)
    BY <1>6 DEF CreateWith
  <2> HIDE DEF v
  <2>3. QED
    BY <1>4, <2>1, <2>2
<1>7. QED
  BY <1>2, <1>5, <1>6

\* The result of a settled cancellation stays on the screen until the user
\* starts again: what an aborted upload reports late belongs to an operation
\* that is over (UsageMaintenanceTransferView.tsx,
\* cancelImport).
THEOREM SettledStays == Spec => SettledResultStays
<1> DEFINE Stays == \A t \in Client : tab[t].shown \in {"completed", "cancelled"}
                      /\ tab'[t].shown # tab[t].shown => tab'[t].shown = "busy"
<1>1. UploadInv /\ [Next]_vars => [Stays]_vars
  <2> SUFFICES ASSUME UploadInv, [Next]_vars, NEW t \in Client, tab[t].shown \in Ended,
                      tab'[t].shown # tab[t].shown
               PROVE  tab'[t].shown = "busy"
    BY DEF Ended
  <2>1. tab[t].pc = "idle" /\ ~tab[t].late /\ tab = [u \in Client |-> tab[u]]
    BY DEF UploadInv, WireInv, TabSane, BrowserOK
  <2>2. tab'[t] # tab[t]
    OBVIOUS
  <2>3. ASSUME NEW u \in Client, NEW f, NEW id, Begin(u, f, id) PROVE tab'[t].shown = "busy"
    <3>1. tab'[u].shown = "busy" /\ \A v \in Client \ {u} : tab'[v] = tab[v]
      BY <2>3, BeginShows DEF UploadInv
    <3>2. QED
      BY <2>2, <3>1
  <2>4. ASSUME NEW u \in Client, Receive(u) PROVE FALSE
    <3>1. u # t
      BY <2>1, <2>4 DEF Receive, Resolved, Created, Validated, ChunkAnswered, Progressed,
                        CancelAnswered, Waits
    <3>2. reply[u] # NoReply /\ home' = home /\ GoesOn(u)
      BY <2>4, ResolvedGoes, CreatedGoes, ValidatedGoes, ChunkAnsweredGoes, ProgressedGoes,
         CancelAnsweredGoes DEF Receive, UploadInv, Resolved, Created, Validated, ChunkAnswered,
         Progressed, CancelAnswered, Waits
    <3>3. tab'[t] = tab[t]
      BY <2>1, <3>1, <3>2 DEF GoesOn, Becomes
    <3>4. QED
      BY <2>2, <3>3
  <2>5. ASSUME NEW u \in Client, Unwind(u) PROVE FALSE
    BY <2>1, <2>2, <2>5 DEF Unwind
  <2>6. ASSUME NEW u \in Client, Pause(u) PROVE FALSE
    BY <2>1, <2>2, <2>6 DEF Pause
  <2>7. ASSUME NEW u \in Client, CancelClick(u) PROVE FALSE
    <3>1. u # t
      BY <2>7 DEF CancelClick, Ended
    <3>2. QED
      BY <2>1, <2>2, <2>7, <3>1 DEF CancelClick
  <2>8. tab' # tab
    BY <2>2
  <2>9. QED
    BY <2>3, <2>4, <2>5, <2>6, <2>7, <2>8 DEF Next, vars, browser, Resume, SelectFile
<1>2. QED
  BY <1>1, UploadInvHolds, PTL DEF Spec, SettledResultStays
=============================================================================
