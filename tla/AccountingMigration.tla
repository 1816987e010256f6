------------------------- MODULE AccountingMigration -------------------------
(***************************************************************************)
(* The cache-accounting migration and the store it corrects.  The worker   *)
(* of an upgraded release scans the raw rows in bounded batches, stages    *)
(* the rows whose stored accounting is wrong, applies the corrections in   *)
(* bounded batches, clears the derived tables in bounded batches and lets  *)
(* the aggregate rebuild itself from the raw rows.  Every batch is one     *)
(* transaction; the checkpoint row survives a restart between any two.     *)
(* An event's values are abstracted to right or wrong.                     *)
(***************************************************************************)
EXTENDS UsageLedger

CONSTANTS
    Candidate,    \* rows the candidate predicate selects
    Affected,     \* rows the staging step would change
    Flagged,      \* rows the rediscovery predicate selects, unless corrected
    MigrationBatch

ASSUME MigrationAssumption ==
    /\ Affected \subseteq Candidate
    /\ Candidate \subseteq Hash
    /\ Flagged \subseteq Hash
    /\ MigrationBatch \in Nat \ {0}

VARIABLES
    upgraded,    \* the release with revision 3 runs
    revision,    \* settings: usage_cache_accounting_semantics_revision
    mig,         \* usage_data_migrations: status and checkpoint
    staged,      \* usage_cache_accounting_v2_changes
    wrong,       \* raw rows whose stored accounting is wrong
    stale        \* events the aggregate holds with their wrong values

migVars == <<upgraded, revision, mig, staged, wrong, stale>>
allVars == <<ledgerVars, migVars>>

CurrentRevision == 3
MigStatus == {"discovering", "pending", "running", "applying", "clearing", "completed", "failed"}
NoCheckpoint == [last |-> 0, target |-> 0, changed |-> 0, applied |-> 0]
Checkpoint(status, c) == [status |-> status, last |-> c.last, target |-> c.target,
                          changed |-> c.changed, applied |-> c.applied]

\* The previous release had completed revision 2, or was interrupted in it.
Init ==
    /\ LedgerInit
    /\ upgraded = FALSE
    /\ revision = 2
    /\ \E status \in {"completed", "discovering"} : mig = Checkpoint(status, NoCheckpoint)
    /\ staged = {}
    /\ wrong = Live \cap Affected
    /\ stale = {}

-----------------------------------------------------------------------------
(* The store under the two releases *)

Upgrade ==
    /\ ~upgraded
    /\ upgraded' = TRUE
    /\ UNCHANGED <<ledgerVars, revision, mig, staged, wrong, stale>>

\* The previous release stores an affected event with wrong accounting.
InsertEvents ==
    /\ Insert
    /\ wrong' = IF upgraded
                THEN wrong
                ELSE wrong \cup {h \in Affected : raw[h] = 0 /\ raw'[h] > 0}
    /\ UNCHANGED <<upgraded, revision, mig, staged, stale>>

\* Aggregation copies what the raw row says at that moment.
Aggregate ==
    /\ CatchUp \/ AggregateFailure
    /\ stale' = stale \cup {h \in wrong : counted'[h] > counted[h]}
    /\ UNCHANGED <<upgraded, revision, mig, staged, wrong>>

\* Raw deletion requires a completed migration.
ArchiveDelete ==
    /\ mig.status = "completed"
    /\ \E events \in SUBSET Hash :
         /\ events # {}
         /\ DeleteRaw(events)
         /\ wrong' = wrong \ events
    /\ UNCHANGED <<upgraded, revision, mig, staged, stale>>

-----------------------------------------------------------------------------
(* DiscoverUsageCacheAccounting *)

\* Mutant: the new revision is taken as already satisfied.
NeverRediscovers == FALSE

\* The predicate is a heuristic: it may miss a row that is wrong and select
\* one that is right.
NeedsRediscovery == \E h \in Live \cap Flagged : h \in wrong \/ h \notin Affected

\* An interrupted revision-2 pass is finished before revision 3 is looked at.
Reconciles == revision < CurrentRevision /\ mig.status = "completed"

\* The status a failed pass resumes in.
ResumeStatus ==
    IF mig.target = 0 /\ mig.last = 0 /\ mig.changed = 0 THEN "discovering"
    ELSE IF mig.applied < mig.changed THEN "applying"
    ELSE IF mig.last < mig.target THEN "running"
    ELSE IF mig.changed > 0 THEN "clearing"
    ELSE "pending"

\* Fixes the scan's target at the latest candidate row.
StartPass(target) ==
    /\ staged' = {}
    /\ IF target = 0
       THEN mig' = Checkpoint("completed", NoCheckpoint)
       ELSE mig' = Checkpoint("pending", [NoCheckpoint EXCEPT !.target = target])

IsLatestCandidate(i) ==
    LET ids == {raw[h] : h \in Live \cap Candidate}
    IN  i \in {0} \cup ids /\ \A j \in ids : j <= i

Discover ==
    /\ upgraded
    /\ \/ /\ Reconciles /\ ~NeedsRediscovery
          /\ revision' = CurrentRevision
          /\ UNCHANGED <<mig, staged>>
       \/ /\ Reconciles /\ NeedsRediscovery
          /\ revision' = CurrentRevision
          /\ \E i \in {0} \cup LiveIds : IsLatestCandidate(i) /\ StartPass(i)
       \/ /\ mig.status = "discovering" \/ (mig.status = "failed" /\ ResumeStatus = "discovering")
          /\ \E i \in {0} \cup LiveIds : IsLatestCandidate(i) /\ StartPass(i)
          /\ UNCHANGED revision
       \/ /\ mig.status = "failed" /\ ResumeStatus # "discovering"
          /\ mig' = [mig EXCEPT !.status = ResumeStatus]
          /\ UNCHANGED <<revision, staged>>
    /\ UNCHANGED <<ledgerVars, upgraded, wrong, stale>>

-----------------------------------------------------------------------------
(* RunUsageCacheAccountingBatch *)

\* Mutant: the changes of the last scan batch are not added to the counter.
FinishedScanUncounted(changed) ==
    IF changed = 0
    THEN [mig EXCEPT !.status = "completed", !.last = mig.target, !.changed = 0, !.applied = 0]
    ELSE [mig EXCEPT !.status = "applying", !.last = mig.target]

\* The scan has reached its target.
FinishedScan(changed) ==
    IF changed = 0
    THEN [mig EXCEPT !.status = "completed", !.last = mig.target, !.changed = 0, !.applied = 0]
    ELSE [mig EXCEPT !.status = "applying", !.last = mig.target, !.changed = changed]

\* One bounded batch of candidate rows: the wrong ones are staged.
ScanBatch ==
    LET due   == {h \in Live \cap Candidate : mig.last < raw[h] /\ raw[h] <= mig.target}
        batch == FirstRows(due, MigrationBatch)
        found == batch \cap wrong
    IN  /\ upgraded
        /\ mig.status \in {"pending", "running"}
        /\ \/ /\ due = {}
              /\ mig' = FinishedScan(mig.changed)
              /\ staged' = IF mig.changed = 0 THEN {} ELSE staged
           \/ \E h \in batch :
                LET changed == mig.changed + Cardinality(found)
                IN  /\ \A g \in batch : raw[g] <= raw[h]
                    /\ staged' = IF raw[h] >= mig.target /\ changed = 0 THEN {} ELSE staged \cup found
                    /\ mig' = IF raw[h] >= mig.target
                              THEN FinishedScan(changed)
                              ELSE [mig EXCEPT !.status = "running", !.last = raw[h], !.changed = changed]
        /\ UNCHANGED <<ledgerVars, upgraded, revision, wrong, stale>>

\* Mutant: off by one, the pass never leaves the applying phase.
AppliedStatusInclusive(applied) == IF applied <= mig.changed THEN "applying" ELSE "clearing"

AppliedStatus(applied) ==
    IF applied < mig.changed THEN "applying"
    ELSE IF mig.last >= mig.target THEN "clearing" ELSE "running"

InvalidatesDerived(batch) == batch # {} /\ mig.applied = 0

\* One bounded batch of corrections.  The first one of a pass invalidates the
\* derived data in the same transaction.
ApplyBatch ==
    LET batch   == FirstRows(staged, MigrationBatch)
        applied == mig.applied + Cardinality(batch)
    IN  /\ upgraded
        /\ mig.status = "applying"
        /\ mig.applied + Cardinality(staged) <= mig.changed
        /\ staged = {} => mig.applied = mig.changed
        /\ wrong' = wrong \ batch
        /\ staged' = staged \ batch
        /\ mig' = [mig EXCEPT !.status = AppliedStatus(applied), !.applied = applied]
        /\ IF InvalidatesDerived(batch) THEN InvalidateAggregate ELSE UNCHANGED ledgerVars
        /\ UNCHANGED <<upgraded, revision, stale>>

\* One bounded batch of derived rows; the last one completes the migration.
ClearBatch ==
    /\ upgraded
    /\ mig.status = "clearing"
    /\ \/ /\ ClearAggregateRows
          /\ UNCHANGED <<mig, staged>>
       \/ /\ FinishClearing
          /\ mig' = [mig EXCEPT !.status = "completed", !.last = mig.target, !.applied = mig.changed]
          /\ staged' = {}
    /\ stale' = {h \in stale : counted'[h] > 0}
    /\ UNCHANGED <<upgraded, revision, wrong>>

\* A batch fails (its transaction rolled back) and the worker records it.
RecordFailure ==
    /\ upgraded
    /\ mig.status # "completed"
    /\ mig' = [mig EXCEPT !.status = "failed"]
    /\ UNCHANGED <<ledgerVars, upgraded, revision, staged, wrong, stale>>

RunBatch == ScanBatch \/ ApplyBatch \/ ClearBatch

Next ==
    \/ Upgrade \/ InsertEvents \/ Aggregate \/ ArchiveDelete
    \/ Discover \/ RunBatch \/ RecordFailure

Spec == Init /\ [][Next]_allVars

\* The worker loops until the migration is completed and tries again after
\* every failure.  A failure that repeats for ever would keep it from ending,
\* so the fairness is strong: among infinitely many tries one succeeds.  The
\* aggregate worker polls for ever.  Upgrade is not assumed: an administrator
\* installs the release.
MigrationFairness ==
    /\ SF_allVars(Discover) /\ SF_allVars(RunBatch)
    /\ WF_allVars(CatchUp /\ Aggregate)

FairSpec == Spec /\ MigrationFairness

-----------------------------------------------------------------------------
(* Properties *)

\* The checkpoint's columns have the values the status switch knows.
MigrationTypeOK ==
    /\ LedgerTypeOK
    /\ upgraded \in BOOLEAN
    /\ revision \in {2, 3}
    /\ mig \in [status : MigStatus, last : Nat, target : Nat, changed : Nat, applied : Nat]
    /\ staged \subseteq Hash /\ wrong \subseteq Hash /\ stale \subseteq Hash

\* When revision 3 is completed no live row is wrong that the rediscovery
\* predicate recognizes, and the aggregate holds no corrected row with the
\* values it had before the correction, whatever failed or was retried and
\* whatever the aggregate worker did meanwhile.  A row the predicate misses
\* is corrected only by a pass that another row has caused.
CorrectedTotals ==
    revision = CurrentRevision /\ mig.status = "completed" =>
        /\ Live \cap wrong \cap Flagged = {}
        /\ Live \cap stale \subseteq wrong

\* The staging table and the two counters agree, so that an interrupted pass
\* resumes in the right phase and can be completed.
StagingConsistent ==
    mig.status \in {"running", "applying", "clearing", "failed"} =>
        /\ mig.changed = mig.applied + Cardinality(staged)
        /\ staged \subseteq Live \cap wrong

\* Corrections never run beside a live aggregate: once the first one of a
\* pass is applied, the aggregate worker is held until everything is cleared.
AppliesBehindClearing ==
    mig.applied > 0 /\ mig.status # "completed" => agg.status = "clearing"

\* The state a pass can stop in and be resumed from, with its types.
MigrationConsistent == MigrationTypeOK /\ StagingConsistent /\ AppliesBehindClearing

\* Once the migration is completed and the aggregate rebuilt, an event whose
\* raw row was archived and deleted is still in the dashboard's totals
\* ("permanent aggregated metrics remain intact", web en.json, the warning
\* before a cleanup).
DeletedStayCounted ==
    revision = CurrentRevision /\ mig.status = "completed" /\ agg.status = "ready" =>
        \A h \in Hash : ledger[h].known /\ raw[h] = 0 => Reads(h) = 1

\* The upgraded worker completes revision 3.
MigrationCompletes == upgraded ~> (revision = CurrentRevision /\ mig.status = "completed")
=============================================================================
