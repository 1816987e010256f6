---------------------------- MODULE UsageLedger ----------------------------
(***************************************************************************)
(* The usage event store: the raw table usage_events, the identity ledger  *)
(* usage_event_identity_ledger that deduplicates events for ever (also the *)
(* ones whose raw row an archive has deleted), and the hourly aggregate    *)
(* with its checkpoint.  Several writers insert concurrently (collector,   *)
(* import sessions); one gated worker aggregates; the accounting migration *)
(* invalidates and clears the aggregate; an archive deletes raw rows.      *)
(*                                                                         *)
(* An event is identified by its event hash.  Its payload, timestamp and   *)
(* bucket are abstracted: `counted' holds how many times an event has been *)
(* added to the rows of usage_hourly_aggregate_v1.  Each action below is   *)
(* one SQLite write transaction (SQLite admits one writer at a time).      *)
(***************************************************************************)
EXTENDS Integers, FiniteSets, Functions

CONSTANTS
    Hash,         \* event hashes
    Canonical,    \* the hashes in canonical SHA-256 form
    Writer,       \* concurrent callers of InsertBatch
    BatchLimit,   \* events one aggregation batch covers
    MaxRevision   \* bound on how often the aggregate is invalidated

ASSUME LedgerAssumption ==
    /\ IsFiniteSet(Hash)
    /\ Canonical \subseteq Hash
    /\ BatchLimit \in Nat \ {0}
    /\ MaxRevision \in Nat \ {0}

VARIABLES
    raw,       \* usage_events: the id of each event's raw row, 0 if none
    lastId,    \* the AUTOINCREMENT counter of usage_events
    ledger,    \* usage_event_identity_ledger, by event hash
    counted,   \* multiplicity of each event in usage_hourly_aggregate_v1
    agg,       \* usage_hourly_aggregate_state
    pending    \* per writer: the events its preflight found to be new

ledgerVars == <<raw, lastId, ledger, counted, agg, pending>>

-----------------------------------------------------------------------------
(* State *)

\* A ledger row: rev is the structure revision the event was aggregated
\* under, 0 while it has not been aggregated at all.
LedgerRow == [known : BOOLEAN, rawId : Nat, rev : Nat]
NoRow == [known |-> FALSE, rawId |-> 0, rev |-> 0]

AggStatus == {"ready", "pending", "backfilling", "catching_up", "failed", "clearing"}

Live == {h \in Hash : raw[h] > 0}
LiveIds == {raw[h] : h \in Live}

\* select coalesce(max(id), 0) from usage_events
IsLatestId(i) == i \in {0} \cup LiveIds /\ \A j \in LiveIds : j <= i

\* order by id asc limit ?
FirstRows(S, limit) == {h \in S : Cardinality({g \in S : raw[g] <= raw[h]}) <= limit}

\* Mutant: counts an event as aggregated under whatever structure revision.
AggregatedOnce(h) == ledger[h].known /\ ledger[h].rev > 0

Aggregated(h) == ledger[h].known /\ ledger[h].rev = agg.rev

RebuildStatus(latest) == IF latest = 0 THEN "ready" ELSE "pending"

\* A database may hold raw rows written before the ledger existed.
LedgerInit ==
    /\ \E legacy \in SUBSET Hash :
         /\ \E f \in Injection(legacy, 1 .. Cardinality(legacy)) :
              raw = [h \in Hash |-> IF h \in legacy THEN f[h] ELSE 0]
         /\ lastId = Cardinality(legacy)
    /\ ledger = [h \in Hash |-> NoRow]
    /\ counted = [h \in Hash |-> 0]
    /\ agg = [status |-> RebuildStatus(lastId), cursor |-> 0, coverage |-> 0,
              target |-> lastId, rev |-> 1]
    /\ pending = [w \in Writer |-> {}]

-----------------------------------------------------------------------------
(* InsertBatch *)

\* Phases 1 to 3: outside the write transaction the batch is checked against
\* the ledger.  A noncanonical hash is accepted only if it is already stored.
Preflight(w, batch) ==
    /\ pending[w] = {}
    /\ \A h \in batch \ Canonical : ledger[h].known \/ raw[h] > 0
    /\ pending' = [pending EXCEPT ![w] = {h \in batch : ~ledger[h].known}]
    /\ UNCHANGED <<raw, lastId, ledger, counted, agg>>

\* Mutant: trusts the preflight instead of claiming in the transaction.
ClaimedAtPreflight(w) == pending[w]

\* insert ... on conflict do nothing: what nobody has claimed meanwhile.
Claimed(w) == {h \in pending[w] : ~ledger[h].known}

\* Phase 5: one transaction claims every ledger row that is still free, then
\* stores the event or, for a legacy raw row, attaches the row it finds.
CommitInsert(w) ==
    LET claimed == Claimed(w)
        fresh   == {h \in claimed : raw[h] = 0}
    IN  /\ pending[w] # {}
        /\ \E f \in Injection(fresh, (lastId + 1) .. (lastId + Cardinality(fresh))) :
             raw' = [h \in Hash |-> IF h \in fresh THEN f[h] ELSE raw[h]]
        /\ lastId' = lastId + Cardinality(fresh)
        /\ ledger' = [h \in Hash |-> IF h \in claimed
                                     THEN [known |-> TRUE, rawId |-> raw'[h], rev |-> 0]
                                     ELSE ledger[h]]
        /\ pending' = [pending EXCEPT ![w] = {}]
        /\ UNCHANGED <<counted, agg>>

\* The transaction fails or the process stops: the batch is lost to this call.
AbortInsert(w) ==
    /\ pending[w] # {}
    /\ pending' = [pending EXCEPT ![w] = {}]
    /\ UNCHANGED <<raw, lastId, ledger, counted, agg>>

-----------------------------------------------------------------------------
(* The hourly aggregate *)

Rebuilding == agg.coverage < agg.target /\ agg.status \in {"pending", "backfilling"}

Larger(i, j) == IF i < j THEN j ELSE i

\* Mutant: a finished pass never looks for later events.
FixedTarget(latest) == Larger(agg.target, agg.coverage)

\* The target of this batch: a finished pass moves it to the latest event.
NextTarget(latest) ==
    LET target == Larger(agg.target, agg.coverage)
    IN  IF ~Rebuilding /\ agg.coverage >= target /\ latest > agg.coverage
        THEN latest
        ELSE target

\* Nothing left up to the target: the checkpoint jumps to it.
CatchUpIdle(latest) ==
    LET target   == NextTarget(latest)
        coverage == Larger(agg.coverage, target)
    IN  /\ \A i \in LiveIds : ~(agg.cursor < i /\ i <= target)
        /\ agg' = [agg EXCEPT !.status = IF latest > coverage THEN "catching_up" ELSE "ready",
                              !.cursor = coverage,
                              !.coverage = coverage,
                              !.target = target]
        /\ UNCHANGED <<raw, lastId, ledger, counted, pending>>

\* Adds one batch of events to the aggregate, unless the ledger says that
\* they are in it under the current structure revision, and marks them.
CatchUpBatch(latest) ==
    LET target == NextTarget(latest)
        due    == {i \in LiveIds : agg.cursor < i /\ i <= target}
    IN  \E last \in due :
          LET batch == {i \in due : i <= last}
              taken == {h \in Live : raw[h] \in batch}
              more  == last < target \/ latest > last
          IN  /\ \/ Cardinality(batch) = BatchLimit
                 \/ Cardinality(batch) < BatchLimit /\ batch = due
              /\ counted' = [h \in Hash |->
                    IF h \in taken /\ ~Aggregated(h) THEN counted[h] + 1 ELSE counted[h]]
              /\ ledger' = [h \in Hash |->
                    IF h \in taken /\ ~Aggregated(h)
                    THEN [known |-> TRUE, rawId |-> raw[h], rev |-> agg.rev]
                    ELSE ledger[h]]
              /\ agg' = [agg EXCEPT !.status = IF last < target /\ Rebuilding THEN "backfilling"
                                               ELSE IF more THEN "catching_up" ELSE "ready",
                                    !.cursor = last,
                                    !.coverage = last,
                                    !.target = target]
              /\ UNCHANGED <<raw, lastId, pending>>

\* Mutant: the worker goes on while the table is being cleared.
CatchUpUnheld ==
    \E latest \in {0} \cup LiveIds :
        IsLatestId(latest) /\ (CatchUpIdle(latest) \/ CatchUpBatch(latest))

\* While the migration clears the table the worker does nothing.
CatchUp ==
    /\ agg.status # "clearing"
    /\ \E latest \in {0} \cup LiveIds :
         IsLatestId(latest) /\ (CatchUpIdle(latest) \/ CatchUpBatch(latest))

\* A batch failed for another reason than a busy database.
AggregateFailure ==
    /\ ~(agg.status \in {"clearing", "backfilling"})
    /\ ~(agg.status = "pending" /\ agg.target > agg.coverage)
    /\ agg' = [agg EXCEPT !.status = "failed"]
    /\ UNCHANGED <<raw, lastId, ledger, counted, pending>>

-----------------------------------------------------------------------------
(* What the accounting migration does to the aggregate *)

\* The first apply batch renames the structure revision and stops the worker.
InvalidateAggregate ==
    /\ agg.status # "clearing"
    /\ agg.rev < MaxRevision
    /\ \E latest \in {0} \cup LiveIds :
         /\ IsLatestId(latest)
         /\ agg' = [status |-> "clearing", cursor |-> 0, coverage |-> 0,
                    target |-> latest, rev |-> agg.rev + 1]
    /\ UNCHANGED <<raw, lastId, ledger, counted, pending>>

\* Bounded batches delete rows of the aggregate table, whatever they count.
ClearAggregateRows ==
    /\ agg.status = "clearing"
    /\ \E cleared \in SUBSET {h \in Hash : counted[h] > 0} :
         /\ cleared # {}
         /\ counted' = [h \in Hash |-> IF h \in cleared THEN 0 ELSE counted[h]]
         /\ \E h \in Hash : counted'[h] > 0
    /\ UNCHANGED <<raw, lastId, ledger, agg, pending>>

\* The batch that empties the table schedules a rebuild from the raw rows.
FinishClearing ==
    /\ agg.status = "clearing"
    /\ counted' = [h \in Hash |-> 0]
    /\ \E latest \in {0} \cup LiveIds :
         /\ IsLatestId(latest)
         /\ agg' = [agg EXCEPT !.status = RebuildStatus(latest), !.cursor = 0,
                               !.coverage = 0, !.target = latest]
    /\ UNCHANGED <<raw, lastId, ledger, pending>>

-----------------------------------------------------------------------------
(* What an archive run does to the store *)

\* Mutant: the ledger row of a legacy event is not attached to its raw row.
AttachUnlinked(events) ==
    /\ events \subseteq Live
    /\ ledger' = [h \in Hash |-> IF h \in events
                                 THEN [ledger[h] EXCEPT !.known = TRUE]
                                 ELSE ledger[h]]
    /\ UNCHANGED <<raw, lastId, counted, agg, pending>>

\* Recording a segment gives every archived event a ledger row.
AttachRaw(events) ==
    /\ events \subseteq Live
    /\ \A h \in events : ledger[h].rawId \in {0, raw[h]}
    /\ ledger' = [h \in Hash |->
          IF h \in events
          THEN [known |-> TRUE, rawId |-> raw[h], rev |-> ledger[h].rev]
          ELSE ledger[h]]
    /\ UNCHANGED <<raw, lastId, counted, agg, pending>>

\* An archive deletes raw rows that the aggregate holds: the ledger row stays.
DeleteRaw(events) ==
    /\ events \subseteq {h \in Live : Aggregated(h)}
    /\ agg.status \in {"ready", "catching_up"}
    /\ \A h \in events : raw[h] <= agg.coverage
    /\ raw' = [h \in Hash |-> IF h \in events THEN 0 ELSE raw[h]]
    /\ ledger' = [h \in Hash |-> IF h \in events
                                 THEN [ledger[h] EXCEPT !.rawId = 0]
                                 ELSE ledger[h]]
    /\ UNCHANGED <<lastId, counted, agg, pending>>

-----------------------------------------------------------------------------
Insert ==
    \/ \E w \in Writer, batch \in SUBSET Hash : Preflight(w, batch)
    \/ \E w \in Writer : CommitInsert(w)
    \/ \E w \in Writer : AbortInsert(w)

Rebuild == InvalidateAggregate \/ ClearAggregateRows \/ FinishClearing

LedgerNext ==
    \/ Insert
    \/ CatchUp
    \/ AggregateFailure
    \/ Rebuild
    \/ \E events \in SUBSET Hash : AttachRaw(events)
    \/ \E events \in SUBSET Hash : DeleteRaw(events)

LedgerSpec == LedgerInit /\ [][LedgerNext]_ledgerVars

-----------------------------------------------------------------------------
(* Dashboard reads *)

\* What LoadRows adds up for one event: the stored rows (ignored while they
\* are being cleared) and the raw rows past the checkpoint that the ledger
\* does not show as aggregated.
StoredReads(h) == IF agg.status = "clearing" THEN 0 ELSE counted[h]

RawReads(h) ==
    IF /\ raw[h] > 0
       /\ \/ agg.status = "clearing"
          \/ (agg.coverage = 0 \/ raw[h] > agg.coverage) /\ ~Aggregated(h)
    THEN 1
    ELSE 0

Reads(h) == StoredReads(h) + RawReads(h)

-----------------------------------------------------------------------------
(* Properties *)

\* The types of the stored columns and the checkpoint (usage_events,
\* usage_event_identity_ledger, usage_hourly_aggregate_state).
LedgerTypeOK ==
    /\ raw \in [Hash -> Nat]
    /\ lastId \in Nat
    /\ ledger \in [Hash -> LedgerRow]
    /\ counted \in [Hash -> Nat]
    /\ agg \in [status : AggStatus, cursor : Nat, coverage : Nat, target : Nat, rev : Nat \ {0}]
    /\ pending \in [Writer -> SUBSET Hash]

\* Every event that still has a raw row is counted exactly once by a read of
\* full hours, in every phase of inserts, aggregation, failure, invalidation,
\* clearing and rebuild (LoadRowsTx with the ledger as the tie-breaker).
ReadExactlyOnce == \A h \in Live : Reads(h) = 1

\* The checkpoint is a proof: outside a clearing phase every raw row up to
\* coverage_event_id is in the aggregate under the current revision.  Archive
\* verification and deletion rely on it (validateHourlyAggregateCoverage).
CoverageSound ==
    agg.status # "clearing" =>
        \A h \in Live : raw[h] <= agg.coverage => Aggregated(h) /\ counted[h] = 1

\* The ledger knows exactly which raw row an identity has: two events never
\* share an id, and a known identity points at its row or at none.
LedgerTracksRaw ==
    /\ \A h, g \in Live : raw[h] = raw[g] => h = g
    /\ \A h \in Hash : raw[h] <= lastId
    /\ \A h \in Hash : ledger[h].known => ledger[h].rawId = raw[h]

\* A deleted event is never stored again, whichever writers race: the ledger
\* row outlives the raw row, so a late or repeated import is a duplicate.
NoResurrection ==
    [][\A h \in Hash : ledger[h].known /\ raw[h] = 0 => raw'[h] = 0]_ledgerVars

\* Every stored event is eventually in the aggregate under the current
\* revision or has been archived away, however often the aggregate is
\* invalidated, cleared and rebuilt.
EventuallyAggregated ==
    \A h \in Hash : raw[h] > 0 ~> (Aggregated(h) \/ raw[h] = 0)
=============================================================================
