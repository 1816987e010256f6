---------------------------- MODULE UsageArchive ----------------------------
(***************************************************************************)
(* Archive runs over the usage event store.  A run copies the events older *)
(* than its cutoff into segment files, verifies the files against the      *)
(* database, and deletes the raw rows in bounded batches.  The database    *)
(* row of a run survives a crash; the invocation that works on it does     *)
(* not.  archiveManager.mu admits one invocation (or creation, or          *)
(* cancellation) at a time, while inserts and aggregation go on.  Each     *)
(* action is one transaction or one atomic file replacement.               *)
(*                                                                         *)
(* A cutoff is the set of the events older than it; the content of a file  *)
(* is the set of its events; a checksum or digest is equality.  That the   *)
(* migrations and the other rollups are complete is a condition from       *)
(* outside, which may refuse a stage or a batch at any time: here the step *)
(* is then not taken, or RecordFailure is.                                 *)
(***************************************************************************)
EXTENDS UsageLedger, Sequences

CONSTANTS
    RunId,         \* archive runs that may be created
    Cutoffs,       \* the sets of events a cutoff timestamp may select
    SegmentLimit,  \* events per segment file
    DeleteLimit    \* events per delete batch

NoRun == "none"

ASSUME ArchiveAssumption ==
    /\ NoRun \notin RunId
    /\ Cutoffs \subseteq SUBSET Hash
    /\ SegmentLimit \in Nat \ {0}
    /\ DeleteLimit \in Nat \ {0}

VARIABLES
    run,        \* usage_archive_runs
    refs,       \* usage_archive_event_refs, by event hash
    segs,       \* usage_archive_segments of each run, by sequence
    lock,       \* usage_maintenance_locks: the run that holds the lock
    files,      \* per run: the intact segment files on disk
    manifest,   \* per run: the segments its manifest file lists, if intact
    job,        \* the invocation inside archiveManager.mu
    retained    \* deleted events with a row in usage_monitoring_event_projection_v1

archiveVars == <<run, refs, segs, lock, files, manifest, job, retained>>
vars == <<ledgerVars, archiveVars>>

Idle == [pc |-> "idle", stage |-> "absent", run |-> NoRun, batch |-> {}, intact |-> FALSE]
NoRef == [run |-> NoRun, rawId |-> 0, deleted |-> FALSE]
NewRun == [status |-> "absent", resume |-> "absent", mode |-> "manual", cutoff |-> {},
           target |-> 0, count |-> 0, lastArchived |-> 0, archived |-> 0,
           lastDeleted |-> 0, deleted |-> 0, deleteStarted |-> FALSE]

Active == {"archiving", "verifying", "deleting"}
Status == Active \cup {"absent", "previewed", "archived", "verified", "completed", "failed", "cancelled"}
Mode == {"manual", "retention"}

RefsOf(r) == {h \in Hash : refs[h].run = r}
RowsOf(r) == {segs[r][i] : i \in DOMAIN segs[r]}
EventsOf(r) == UNION {s.events : s \in RowsOf(r)}

Init ==
    /\ LedgerInit
    /\ run = [r \in RunId |-> NewRun]
    /\ refs = [h \in Hash |-> NoRef]
    /\ segs = [r \in RunId |-> <<>>]
    /\ lock = NoRun
    /\ files = [r \in RunId |-> {}]
    /\ manifest = [r \in RunId |-> <<>>]
    /\ job = Idle
    /\ retained = {}

-----------------------------------------------------------------------------
(* Creating a run *)

\* Mutant: events that another run has archived are taken again.
EligibleAgain(cutoff) == Live \cap cutoff

\* Old events that no run has archived.
Eligible(cutoff) == {h \in Live \cap cutoff : refs[h].run = NoRun}

\* Mutant: only a run inside a stage keeps others from being created.
BlocksWhileActive(r) == run[r].status \in Active

BlocksCreation(r) ==
    /\ run[r].status \notin {"absent", "completed", "cancelled"}
    /\ run[r].mode = "retention" \/ run[r].status \notin {"archived", "verified"}

Create(r, mode, cutoff) ==
    LET scope == Eligible(cutoff)
    IN  /\ job = Idle
        /\ run[r].status = "absent"
        /\ \A other \in RunId : ~BlocksCreation(other)
        /\ scope # {}
        /\ scope \subseteq Canonical
        /\ \E last \in scope :
             /\ \A h \in scope : raw[h] <= raw[last]
             /\ run' = [run EXCEPT ![r] = [NewRun EXCEPT !.status = "previewed", !.mode = mode,
                                              !.cutoff = cutoff, !.target = raw[last],
                                              !.count = Cardinality(scope)]]
        /\ UNCHANGED <<ledgerVars, refs, segs, lock, files, manifest, job, retained>>

-----------------------------------------------------------------------------
(* Entering a stage *)

\* Every segment file is present and is what the database recorded.
FilesIntact(r) == segs[r] # <<>> /\ RowsOf(r) \subseteq files[r]

\* The manifest and every segment file match the database.
ArchiveIntact(r) == FilesIntact(r) /\ manifest[r] = segs[r] /\ EventsOf(r) \subseteq Canonical

LockFree(r) == lock \in {NoRun, r}

\* The transaction of beginStage: the lock, the status and the invocation.
\* `intact' is a history variable: what was on disk at that moment.
BeginStage(r, stage, from, pc) ==
    /\ job = Idle
    /\ \/ run[r].status \in {from, stage}
       \/ run[r].status = "failed" /\ run[r].resume = stage
    /\ LockFree(r)
    /\ lock' = r
    /\ run' = [run EXCEPT ![r].status = stage, ![r].resume = "absent",
                          ![r].deleteStarted = @ \/ stage = "deleting"]
    /\ job' = [Idle EXCEPT !.pc = pc, !.stage = stage, !.run = r, !.intact = ArchiveIntact(r)]

\* A run that is still previewed is previewed again.
BeginArchive(r) ==
    /\ run[r].status = "previewed" => Eligible(run[r].cutoff) \subseteq Canonical
    /\ BeginStage(r, "archiving", "previewed", "archive")
    /\ UNCHANGED <<ledgerVars, refs, segs, files, manifest, retained>>

BeginVerification(r) ==
    /\ BeginStage(r, "verifying", "archived", "verify")
    /\ UNCHANGED <<ledgerVars, refs, segs, files, manifest, retained>>

\* The hourly aggregate covers the run.
AggregateCovers(r) == agg.status \in {"ready", "catching_up"} /\ agg.coverage >= run[r].target

\* Every archived event is in the aggregate, and its raw row is where the
\* archive left it.
CoverageHolds(r) ==
    /\ run[r].archived = run[r].count
    /\ AggregateCovers(r)
    /\ Cardinality(RefsOf(r)) = run[r].count
    /\ \A h \in RefsOf(r) :
         Aggregated(h) /\ ledger[h].rawId = (IF refs[h].deleted THEN 0 ELSE refs[h].rawId)
    /\ Cardinality({h \in RefsOf(r) : refs[h].deleted}) = run[r].deleted

DeletedAreRetained(r) == \A h \in RefsOf(r) : refs[h].deleted => h \in retained

BeginDelete(r) ==
    /\ CoverageHolds(r) /\ DeletedAreRetained(r)
    /\ BeginStage(r, "deleting", "verified", "revalidate")
    /\ UNCHANGED <<ledgerVars, refs, segs, files, manifest, retained>>

-----------------------------------------------------------------------------
(* The archiving stage *)

\* A segment file's name holds its sequence and its first and last event.
SegmentOf(r, batch) ==
    LET ids == {raw[h] : h \in batch}
    IN  [seq    |-> Len(segs[r]) + 1,
         first  |-> CHOOSE i \in ids : \A j \in ids : i <= j,
         last   |-> CHOOSE i \in ids : \A j \in ids : j <= i,
         events |-> batch]

SameName(s, t) == s.seq = t.seq /\ s.first = t.first /\ s.last = t.last

\* Reads the next records and replaces their segment file atomically.
WriteSegment(r) ==
    LET due   == {h \in Eligible(run[r].cutoff) :
                    run[r].lastArchived < raw[h] /\ raw[h] <= run[r].target}
        batch == FirstRows(due, SegmentLimit)
        new   == SegmentOf(r, batch)
    IN  /\ job.pc = "archive" /\ job.run = r
        /\ run[r].status = "archiving"
        /\ run[r].archived < run[r].count
        /\ due # {}
        /\ files' = [files EXCEPT ![r] = {f \in @ : ~SameName(f, new)} \cup {new}]
        /\ job' = [job EXCEPT !.pc = "record", !.batch = batch]
        /\ UNCHANGED <<ledgerVars, run, refs, segs, lock, manifest, retained>>

\* Mutant: the counter of archived events is not advanced.
UncountedProgress(r, new) == [run EXCEPT ![r].lastArchived = new.last]

Progress(r, new) ==
    [run EXCEPT ![r].lastArchived = new.last, ![r].archived = @ + Cardinality(new.events)]

\* Records the segment if its events are exactly the next eligible ones.
RecordSegment(r) ==
    LET new  == SegmentOf(r, job.batch)
        next == {h \in Eligible(run[r].cutoff) :
                   run[r].lastArchived < raw[h] /\ raw[h] <= run[r].target /\ raw[h] <= new.last}
    IN  /\ job.pc = "record" /\ job.run = r
        /\ run[r].status = "archiving"
        /\ new.first > run[r].lastArchived
        /\ new.last <= run[r].target
        /\ run[r].archived + Cardinality(job.batch) <= run[r].count
        /\ next = job.batch
        /\ AttachRaw(job.batch)
        /\ refs' = [h \in Hash |-> IF h \in job.batch
                                   THEN [run |-> r, rawId |-> raw[h], deleted |-> FALSE]
                                   ELSE refs[h]]
        /\ segs' = [segs EXCEPT ![r] = Append(@, new)]
        /\ run' = Progress(r, new)
        /\ job' = [job EXCEPT !.pc = "archive", !.batch = {}]
        /\ UNCHANGED <<lock, files, manifest, retained>>

\* Inspects every segment file and replaces the manifest atomically.
WriteManifest(r) ==
    /\ job.pc = "archive" /\ job.run = r
    /\ run[r].archived >= run[r].count
    /\ FilesIntact(r)
    /\ manifest' = [manifest EXCEPT ![r] = segs[r]]
    /\ job' = [job EXCEPT !.pc = "publish"]
    /\ UNCHANGED <<ledgerVars, run, refs, segs, lock, files, retained>>

ReleaseLock(r) == lock' = IF lock = r THEN NoRun ELSE lock

\* The stage has committed; the invocation has not returned yet.
FinishStage(r, status) ==
    /\ run' = [run EXCEPT ![r].status = status]
    /\ ReleaseLock(r)
    /\ job' = [job EXCEPT !.pc = "committed"]

\* Mutant: the count alone tells that the scope is archived.
CountArchived(r) == run[r].archived = run[r].count

ScopeArchived(r) == run[r].archived = run[r].count /\ run[r].lastArchived = run[r].target

MarkArchived(r) ==
    /\ job.pc = "publish" /\ job.run = r
    /\ run[r].status = "archiving"
    /\ ScopeArchived(r)
    /\ FinishStage(r, "archived")
    /\ UNCHANGED <<ledgerVars, refs, segs, files, manifest, retained>>

-----------------------------------------------------------------------------
(* The verification stage *)

Verify(r) ==
    /\ job.pc = "verify" /\ job.run = r
    /\ ArchiveIntact(r)
    /\ job' = [job EXCEPT !.pc = "checked"]
    /\ UNCHANGED <<ledgerVars, run, refs, segs, lock, files, manifest, retained>>

MarkVerified(r) ==
    /\ job.pc = "checked" /\ job.run = r
    /\ run[r].status = "verifying"
    /\ CoverageHolds(r)
    /\ FinishStage(r, "verified")
    /\ UNCHANGED <<ledgerVars, refs, segs, files, manifest, retained>>

-----------------------------------------------------------------------------
(* The deleting stage *)

\* Mutant: a resumed deletion trusts the earlier verification.
RevalidateNothing(r) ==
    /\ job.pc = "revalidate" /\ job.run = r
    /\ job' = [job EXCEPT !.pc = "delete"]
    /\ UNCHANGED <<ledgerVars, run, refs, segs, lock, files, manifest, retained>>

\* Before its first batch every invocation checks the files again.
Revalidate(r) ==
    /\ job.pc = "revalidate" /\ job.run = r
    /\ ArchiveIntact(r)
    /\ job' = [job EXCEPT !.pc = "delete"]
    /\ UNCHANGED <<ledgerVars, run, refs, segs, lock, files, manifest, retained>>

\* The rows the next delete batch may take.
Deletable(r) ==
    {h \in RefsOf(r) \cap Live \cap run[r].cutoff :
       /\ ~refs[h].deleted
       /\ refs[h].rawId = raw[h] /\ ledger[h].rawId = raw[h]
       /\ run[r].lastDeleted < raw[h] /\ raw[h] <= run[r].target
       /\ Aggregated(h)}

\* Events that the monitoring projection misses are added to it.
RepairProjection(batch) == retained' = retained \cup batch

\* Missing projection rows are repaired, then the raw rows are deleted, the
\* ledger detached and the references marked, all in one transaction.
DeleteBatch(r) ==
    LET batch     == FirstRows(Deletable(r), DeleteLimit)
        remaining == {h \in RefsOf(r) \ batch : ~refs[h].deleted}
        deleted   == run[r].deleted + Cardinality(batch)
        last      == {raw[h] : h \in batch} \cup {run[r].lastDeleted}
    IN  /\ job.pc = "delete" /\ job.run = r
        /\ run[r].status = "deleting"
        /\ AggregateCovers(r)
        /\ DeleteRaw(batch)
        /\ RepairProjection(batch)
        /\ refs' = [h \in Hash |-> IF h \in batch
                                   THEN [refs[h] EXCEPT !.deleted = TRUE]
                                   ELSE refs[h]]
        /\ \A h \in remaining : raw[h] = refs[h].rawId
        /\ batch = {} => remaining = {}
        /\ remaining = {} => deleted = run[r].count
        /\ \E i \in last :
             /\ \A j \in last : j <= i
             /\ run' = [run EXCEPT ![r].lastDeleted = i, ![r].deleted = deleted,
                                   ![r].status = IF remaining = {} THEN "completed" ELSE @]
        /\ IF remaining = {} THEN ReleaseLock(r) ELSE UNCHANGED lock
        /\ job' = IF remaining = {} THEN [job EXCEPT !.pc = "committed"] ELSE job
        /\ UNCHANGED <<segs, files, manifest>>

-----------------------------------------------------------------------------
(* Failure, cancellation, restart *)

\* Mutant: a failure seen after the stage has committed is recorded as well.
FailureAlwaysCounts(r) == TRUE

FailureCounts(r) ==
    \/ run[r].status = job.stage
    \/ run[r].status = "failed" /\ run[r].resume = job.stage

\* A step failed, or was cancelled: the run can resume at this stage.  An
\* error seen after the stage has committed finds another status and is
\* dropped.
RecordFailure(r) ==
    /\ job # Idle /\ job.run = r
    /\ \/ /\ FailureCounts(r)
          /\ run' = [run EXCEPT ![r].status = "failed", ![r].resume = job.stage]
          /\ ReleaseLock(r)
       \/ ~FailureCounts(r) /\ UNCHANGED <<run, lock>>
    /\ job' = Idle
    /\ UNCHANGED <<ledgerVars, refs, segs, files, manifest, retained>>

\* A run is abandoned before its deletion has begun; its files are kept.
Cancel(r) ==
    LET failedEarly == run[r].status = "failed" /\ run[r].resume \in {"archiving", "verifying"}
    IN  /\ job = Idle
        /\ run[r].status \in {"previewed", "failed"}
        /\ ~run[r].deleteStarted /\ run[r].lastDeleted = 0 /\ run[r].deleted = 0
        /\ ~(run[r].status = "failed" /\ run[r].resume = "deleting")
        /\ failedEarly =>
             /\ \A h \in RefsOf(r) : ~refs[h].deleted /\ raw[h] = refs[h].rawId
             /\ Cardinality(RefsOf(r)) = run[r].archived
        /\ ~failedEarly => run[r].archived = 0
        /\ refs' = [h \in Hash |-> IF failedEarly /\ h \in RefsOf(r) THEN NoRef ELSE refs[h]]
        /\ run' = [run EXCEPT ![r].status = "cancelled", ![r].resume = "absent"]
        /\ ReleaseLock(r)
        /\ UNCHANGED <<ledgerVars, segs, files, manifest, job, retained>>

\* The invocation returns, the process stops between two of its steps, or its
\* failure cannot be recorded: the database keeps what was committed.
Return ==
    /\ job # Idle
    /\ job' = Idle
    /\ UNCHANGED <<ledgerVars, run, refs, segs, lock, files, manifest, retained>>

-----------------------------------------------------------------------------
(* What goes on around the archive *)

\* Inserts and aggregation never wait for the archive.
StoreRuns ==
    /\ Insert \/ CatchUp \/ AggregateFailure
    /\ UNCHANGED archiveVars

\* A segment file or the manifest is lost or altered on disk.
DamageFile(r) ==
    /\ \/ \E f \in files[r] : files' = [files EXCEPT ![r] = @ \ {f}] /\ UNCHANGED manifest
       \/ manifest[r] # <<>> /\ manifest' = [manifest EXCEPT ![r] = <<>>] /\ UNCHANGED files
    /\ UNCHANGED <<ledgerVars, run, refs, segs, lock, job, retained>>

-----------------------------------------------------------------------------
Manage(r) ==
    \/ \E mode \in Mode, cutoff \in Cutoffs : Create(r, mode, cutoff)
    \/ Cancel(r)

Archive(r) == BeginArchive(r) \/ WriteSegment(r) \/ RecordSegment(r) \/ WriteManifest(r) \/ MarkArchived(r)

VerifyStage(r) == BeginVerification(r) \/ Verify(r) \/ MarkVerified(r)

DeleteStage(r) == BeginDelete(r) \/ Revalidate(r) \/ DeleteBatch(r)

Next ==
    \/ \E r \in RunId : Manage(r) \/ Archive(r) \/ VerifyStage(r) \/ DeleteStage(r)
    \/ \E r \in RunId : RecordFailure(r) \/ DamageFile(r)
    \/ Return \/ StoreRuns

Spec == Init /\ [][Next]_vars

-----------------------------------------------------------------------------
(* Properties *)

\* Run rows, references, files and the invocation keep the shape that the
\* tables and archive.go give them.
ArchiveTypeOK ==
    /\ LedgerTypeOK
    /\ \A r \in RunId :
         /\ run[r].status \in Status /\ run[r].resume \in Active \cup {"absent"}
         /\ run[r].mode \in Mode /\ run[r].cutoff \subseteq Hash
         /\ {run[r].target, run[r].count, run[r].lastArchived, run[r].archived,
             run[r].lastDeleted, run[r].deleted} \subseteq Nat
         /\ \A i \in DOMAIN segs[r] : segs[r][i].seq = i /\ segs[r][i].events \subseteq Hash
    /\ refs \in [Hash -> [run : RunId \cup {NoRun}, rawId : Nat, deleted : BOOLEAN]]
    /\ lock \in RunId \cup {NoRun}
    /\ job.run \in RunId \cup {NoRun}
    /\ retained \subseteq Hash

\* At most one run is inside a stage, also after a crash: it is the run that
\* holds the maintenance lock, and an invocation works on that run only.
OneStageAtATime ==
    /\ \A r \in RunId : run[r].status \in Active <=> lock = r
    /\ job.run # NoRun /\ job.pc # "committed" => run[job.run].status = job.stage

\* Raw rows leave the store only through a deletion: a known event without a
\* raw row has a deleted reference in a run that is deleting, has failed in
\* its deletion or is completed, is in one recorded segment of that run, and
\* keeps its row in the monitoring projection.
RawOnlyGoneThroughArchive ==
    \A h \in Hash : ledger[h].known /\ raw[h] = 0 =>
        LET r == refs[h].run
        IN  /\ r # NoRun /\ refs[h].deleted
            /\ \/ run[r].status \in {"deleting", "completed"}
               \/ run[r].status = "failed" /\ run[r].resume = "deleting"
            /\ Cardinality({i \in DOMAIN segs[r] : h \in segs[r][i].events}) = 1
            /\ h \in retained

\* No event is archived by two runs, unless one of them was cancelled; and the
\* references of a run are the events of its segments.
ArchivedOnce ==
    /\ \A r, q \in RunId :
         r # q /\ "cancelled" \notin {run[r].status, run[q].status} =>
             EventsOf(r) \cap EventsOf(q) = {}
    /\ \A r \in RunId : RefsOf(r) = IF run[r].status = "cancelled" THEN {} ELSE EventsOf(r)

\* From "archived" on a run covers its whole scope, and a completed run has
\* deleted exactly that.
WholeScope ==
    \A r \in RunId :
        /\ run[r].status \in {"archived", "verifying", "verified", "deleting", "completed"} =>
             Cardinality(RefsOf(r)) = run[r].count /\ run[r].lastArchived = run[r].target
        /\ run[r].status = "completed" => \A h \in RefsOf(r) : refs[h].deleted /\ raw[h] = 0

\* A failed run that has not begun to delete can always be cancelled: its
\* references agree with its counters and every raw row is still there.
CancelNeverBlocked ==
    \A r \in RunId :
        run[r].status = "failed" /\ run[r].resume \in {"archiving", "verifying"} =>
            /\ Cardinality(RefsOf(r)) = run[r].archived
            /\ \A h \in RefsOf(r) : ~refs[h].deleted /\ raw[h] = refs[h].rawId
            /\ ~run[r].deleteStarted

\* While a run archives, the rest of its scope is still there to be archived:
\* neither other runs nor inserts take events away from it.
ScopeNeverShrinks ==
    \A r \in RunId :
        \/ run[r].status \in {"previewed", "archiving"}
        \/ run[r].status = "failed" /\ run[r].resume = "archiving"
        => Cardinality({h \in Eligible(run[r].cutoff) :
                          run[r].lastArchived < raw[h] /\ raw[h] <= run[r].target})
             >= run[r].count - run[r].archived

\* What every invocation finds, whatever the one before it left unfinished.
RunsConsistent ==
    ArchiveTypeOK /\ OneStageAtATime /\ RawOnlyGoneThroughArchive /\ ScopeNeverShrinks

\* Raw rows are deleted only by an invocation that found the archive intact
\* when it began, so what was damaged between two invocations is noticed.
DeletesOnlyIntact ==
    (\E h \in Hash : raw[h] > 0 /\ raw'[h] = 0) => job.intact

\* A stage that has committed is never reported as failed afterwards, however
\* the rest of its invocation ended.
CommittedStays ==
    \A r \in RunId : run[r].status \in {"archived", "verified", "completed"}
                       => run'[r].status # "failed"

\* What no step of an invocation does, whatever it was interrupted by.
InvocationsAreSafe == [][DeletesOnlyIntact /\ CommittedStays]_vars

\* The archive keeps the promise of UsageHistory: every event that was ever
\* stored is counted exactly once, whether its raw row is still there or not.
History == INSTANCE UsageHistory WITH
    life  <- [h \in Hash |-> IF raw[h] > 0 THEN "stored"
                             ELSE IF ledger[h].known THEN "archived" ELSE "absent"],
    total <- [h \in Hash |-> Reads(h)]

KeepsHistory == History!Spec
=============================================================================
