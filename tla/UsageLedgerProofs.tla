-------------------------- MODULE UsageLedgerProofs --------------------------
(***************************************************************************)
(* Proofs about UsageLedger, for any finite set of events, any writers and *)
(* any number of rebuilds.                                                 *)
(***************************************************************************)
EXTENDS UsageLedger, FiniteSetTheorems, TLAPS

\* Ids are given out once, in increasing order, and the checkpoint never
\* passes the last one.
IdsBounded ==
    /\ agg.cursor = agg.coverage
    /\ agg.coverage <= lastId
    /\ agg.target <= lastId

\* A free identity has no history; revisions of rows lag behind the table's,
\* strictly while the table is being cleared.
RevisionsLag ==
    /\ \A h \in Hash : ~ledger[h].known => ledger[h] = NoRow
    /\ \A h \in Hash : ledger[h].rev <= agg.rev
    /\ agg.status = "clearing" => \A h \in Hash : ledger[h].rev < agg.rev

\* Outside a clearing phase the table counts an event that has a raw row, or
\* may still get one, once if its identity says so and not at all otherwise.
CountedMatches ==
    agg.status # "clearing" =>
        \A h \in Hash : raw[h] > 0 \/ ~ledger[h].known =>
            counted[h] = IF Aggregated(h) THEN 1 ELSE 0

LedgerInv ==
    /\ LedgerTypeOK
    /\ LedgerTracksRaw
    /\ IdsBounded
    /\ RevisionsLag
    /\ CountedMatches
    /\ CoverageSound

-----------------------------------------------------------------------------
\* A set of events is finite, and its size is a natural number.
LEMMA SizeOfEvents == \A S \in SUBSET Hash : Cardinality(S) \in Nat
BY LedgerAssumption, FS_Subset, FS_CardinalityType

\* The invariant gives every reader an exact count.
LEMMA ReadsAreExact == LedgerInv => ReadExactlyOnce
<1> SUFFICES ASSUME LedgerInv, NEW h \in Live PROVE Reads(h) = 1
  BY Zenon DEF ReadExactlyOnce
<1> USE DEF LedgerInv, LedgerTypeOK, Live, LedgerRow, AggStatus, Reads, StoredReads, RawReads
<1>1. CASE agg.status = "clearing"
  BY <1>1
<1>2. CASE agg.status # "clearing"
  BY <1>2 DEF CountedMatches, CoverageSound, IdsBounded, Aggregated
<1>3. QED
  BY <1>1, <1>2

LEMMA InitInv == LedgerInit => LedgerInv
<1> SUFFICES ASSUME LedgerInit PROVE LedgerInv
  OBVIOUS
<1>0. PICK legacy \in SUBSET Hash :
        /\ \E f \in Injection(legacy, 1 .. Cardinality(legacy)) :
             raw = [h \in Hash |-> IF h \in legacy THEN f[h] ELSE 0]
        /\ lastId = Cardinality(legacy)
  BY Zenon DEF LedgerInit
<1>1. PICK f \in Injection(legacy, 1 .. Cardinality(legacy)) :
        raw = [h \in Hash |-> IF h \in legacy THEN f[h] ELSE 0]
  BY <1>0
<1>2. Cardinality(legacy) \in Nat
  BY SizeOfEvents
<1>3. /\ \A h \in legacy : f[h] \in 1 .. Cardinality(legacy)
      /\ \A h, g \in legacy : f[h] = f[g] => h = g
  BY DEF Injection, IsInjective
<1> USE <1>0, <1>1, <1>2, <1>3 DEF LedgerInit
<1>4. LedgerTypeOK
  BY DEF LedgerTypeOK, LedgerRow, NoRow, AggStatus, RebuildStatus
<1>5. LedgerTracksRaw
  BY DEF LedgerTracksRaw, Live, NoRow
<1>6. IdsBounded /\ RevisionsLag /\ CountedMatches /\ CoverageSound
  BY DEF IdsBounded, RevisionsLag, CountedMatches, CoverageSound, Aggregated, NoRow, Live, RebuildStatus
<1>7. QED
  BY <1>4, <1>5, <1>6 DEF LedgerInv
-----------------------------------------------------------------------------
\* The events a writer claims get fresh ids, each its own.
LEMMA FreshIds ==
  ASSUME NEW fresh \in SUBSET Hash, lastId \in Nat,
         NEW f \in Injection(fresh, (lastId + 1) .. (lastId + Cardinality(fresh)))
  PROVE  /\ lastId + Cardinality(fresh) \in Nat
         /\ lastId + Cardinality(fresh) >= lastId
         /\ \A h \in fresh : f[h] \in Nat /\ lastId < f[h] /\ f[h] <= lastId + Cardinality(fresh)
         /\ \A h, g \in fresh : f[h] = f[g] => h = g
BY SizeOfEvents DEF Injection, IsInjective

LEMMA CommitKeepsInv ==
  ASSUME LedgerInv, NEW w \in Writer, CommitInsert(w)
  PROVE  LedgerInv'
<1> DEFINE claimed == Claimed(w)
           fresh   == {h \in claimed : raw[h] = 0}
<1> USE DEF LedgerInv, LedgerTypeOK, LedgerRow, AggStatus
<1>0. fresh \in SUBSET Hash /\ claimed \in SUBSET Hash /\ fresh \subseteq claimed
  BY DEF Claimed
<1>1. PICK f \in Injection(fresh, (lastId + 1) .. (lastId + Cardinality(fresh))) :
        raw' = [h \in Hash |-> IF h \in fresh THEN f[h] ELSE raw[h]]
  BY DEF CommitInsert
<1>2. /\ lastId' = lastId + Cardinality(fresh)
      /\ ledger' = [h \in Hash |-> IF h \in claimed
                                   THEN [known |-> TRUE, rawId |-> raw'[h], rev |-> 0]
                                   ELSE ledger[h]]
      /\ pending' = [pending EXCEPT ![w] = {}]
      /\ counted' = counted /\ agg' = agg
  BY DEF CommitInsert
<1> HIDE DEF claimed, fresh
<1>3. /\ lastId' \in Nat /\ lastId' >= lastId
      /\ \A h \in fresh : f[h] \in Nat /\ lastId < f[h] /\ f[h] <= lastId'
      /\ \A h, g \in fresh : f[h] = f[g] => h = g
  BY <1>0, <1>1, <1>2, FreshIds
<1>4. \A h \in claimed : ~ledger[h].known /\ (h \notin fresh => raw[h] > 0)
  BY DEF claimed, fresh, Claimed
<1>5. \A h \in fresh : raw[h] = 0
  BY DEF fresh
<1> USE <1>0, <1>1, <1>2, <1>3, <1>4, <1>5
<1>6. LedgerTypeOK'
  OBVIOUS
<1>7. LedgerTracksRaw'
  <2>1. \A h \in Hash : raw'[h] <= lastId'
    BY DEF LedgerTracksRaw
  <2>2. \A h, g \in Live' : raw'[h] = raw'[g] => h = g
    BY DEF LedgerTracksRaw, Live
  <2>3. \A h \in Hash : ledger'[h].known => ledger'[h].rawId = raw'[h]
    BY DEF LedgerTracksRaw
  <2>4. QED
    BY <2>1, <2>2, <2>3 DEF LedgerTracksRaw
<1>8. IdsBounded' /\ RevisionsLag'
  <2>1. IdsBounded'
    BY DEF IdsBounded
  <2>2. \A h \in Hash : ~ledger'[h].known => ledger'[h] = NoRow
    BY DEF RevisionsLag
  <2>3. \A h \in Hash : ledger'[h].rev = ledger[h].rev \/ ledger'[h].rev = 0
    OBVIOUS
  <2>4. QED
    BY <2>1, <2>2, <2>3 DEF RevisionsLag
<1>9. CountedMatches'
  BY DEF CountedMatches, RevisionsLag, NoRow, Aggregated
<1>10. CoverageSound'
  BY DEF CoverageSound, CountedMatches, IdsBounded, Aggregated, Live
<1>11. QED
  BY <1>6, <1>7, <1>8, <1>9, <1>10

\* The next target is an id that has been given out.
LEMMA TargetBounded ==
  ASSUME LedgerInv, NEW latest \in {0} \cup LiveIds
  PROVE  /\ latest \in Nat /\ latest <= lastId
         /\ NextTarget(latest) \in Nat /\ NextTarget(latest) <= lastId
BY DEF LedgerInv, LedgerTypeOK, LedgerTracksRaw, IdsBounded, LiveIds, Live, NextTarget, Larger

LEMMA IdleKeepsInv ==
  ASSUME LedgerInv, NEW latest \in {0} \cup LiveIds, agg.status # "clearing", CatchUpIdle(latest)
  PROVE  LedgerInv'
<1> DEFINE target == NextTarget(latest)
<1>1. target \in Nat /\ target <= lastId
  BY TargetBounded
<1>2. /\ \A i \in LiveIds : ~(agg.cursor < i /\ i <= target)
      /\ agg' = [status |-> agg'.status, cursor |-> Larger(agg.coverage, target),
                 coverage |-> Larger(agg.coverage, target), target |-> target, rev |-> agg.rev]
      /\ agg'.status \in {"catching_up", "ready"}
      /\ UNCHANGED <<raw, lastId, ledger, counted, pending>>
  BY DEF CatchUpIdle, LedgerInv, LedgerTypeOK
<1> HIDE DEF target
<1> USE <1>1, <1>2 DEF LedgerInv, LedgerTypeOK, LedgerRow, AggStatus, Larger
<1>a. /\ agg'.cursor = agg'.coverage /\ agg'.target = target /\ agg'.rev = agg.rev
      /\ agg'.coverage \in Nat /\ agg'.coverage \in {agg.coverage, target}
  OBVIOUS
<1>3. LedgerTypeOK'
  OBVIOUS
<1>4. LedgerTracksRaw'
  BY DEF LedgerTracksRaw, Live
<1>5. IdsBounded'
  BY <1>a DEF IdsBounded
<1>6. RevisionsLag'
  BY <1>a DEF RevisionsLag
<1>7. CountedMatches'
  BY <1>a DEF CountedMatches, Aggregated
<1>8. CoverageSound'
  <2> SUFFICES ASSUME NEW h \in Hash, raw[h] > 0, raw[h] <= agg'.coverage
               PROVE  Aggregated(h) /\ counted[h] = 1
    BY <1>a DEF CoverageSound, Aggregated, Live
  <2>1. raw[h] \in LiveIds
    BY DEF LiveIds, Live
  <2>2. raw[h] <= agg.coverage
    BY <1>a, <2>1 DEF IdsBounded
  <2>3. QED
    BY <2>2 DEF CoverageSound, Live
<1>9. QED
  BY <1>3, <1>4, <1>5, <1>6, <1>7, <1>8

LEMMA BatchKeepsInv ==
  ASSUME LedgerInv, NEW latest \in {0} \cup LiveIds, agg.status # "clearing", CatchUpBatch(latest)
  PROVE  LedgerInv'
<1> DEFINE target == NextTarget(latest)
           due == {i \in LiveIds : agg.cursor < i /\ i <= target}
<1>1. target \in Nat /\ target <= lastId
  BY TargetBounded
<1>2. PICK last \in due :
        LET taken == {h \in Live : raw[h] \in {i \in due : i <= last}}
        IN  /\ counted' = [h \in Hash |->
                  IF h \in taken /\ ~Aggregated(h) THEN counted[h] + 1 ELSE counted[h]]
            /\ ledger' = [h \in Hash |->
                  IF h \in taken /\ ~Aggregated(h)
                  THEN [known |-> TRUE, rawId |-> raw[h], rev |-> agg.rev]
                  ELSE ledger[h]]
            /\ agg' = [agg EXCEPT !.status = IF last < target /\ Rebuilding THEN "backfilling"
                                             ELSE IF last < target \/ latest > last
                                             THEN "catching_up" ELSE "ready",
                                  !.cursor = last, !.coverage = last, !.target = target]
            /\ UNCHANGED <<raw, lastId, pending>>
  BY Zenon DEF CatchUpBatch
<1> DEFINE taken == {h \in Live : raw[h] \in {i \in due : i <= last}}
<1>3. \A h \in Hash : h \in taken <=> raw[h] > 0 /\ agg.cursor < raw[h] /\ raw[h] <= last
  BY <1>1, <1>2 DEF LiveIds, Live, LedgerInv, LedgerTypeOK
<1>4. last \in Nat /\ last <= lastId /\ agg.cursor < last
  BY <1>1, <1>2 DEF LiveIds, Live, LedgerInv, LedgerTypeOK
<1>5. /\ agg'.cursor = last /\ agg'.coverage = last /\ agg'.target = target
      /\ agg'.rev = agg.rev /\ agg'.status \in {"backfilling", "catching_up", "ready"}
      /\ agg' = [status |-> agg'.status, cursor |-> last, coverage |-> last, target |-> target,
                 rev |-> agg.rev]
  BY <1>2 DEF LedgerInv, LedgerTypeOK
<1>6. /\ counted' = [h \in Hash |->
            IF h \in taken /\ ~Aggregated(h) THEN counted[h] + 1 ELSE counted[h]]
      /\ ledger' = [h \in Hash |->
            IF h \in taken /\ ~Aggregated(h)
            THEN [known |-> TRUE, rawId |-> raw[h], rev |-> agg.rev]
            ELSE ledger[h]]
      /\ UNCHANGED <<raw, lastId, pending>>
  BY <1>2
<1> HIDE DEF target, due, taken
<1> USE <1>1, <1>3, <1>4, <1>5, <1>6 DEF LedgerInv, LedgerTypeOK, LedgerRow, AggStatus
<1>7. LedgerTypeOK'
  OBVIOUS
<1>8. LedgerTracksRaw' /\ IdsBounded' /\ RevisionsLag'
  <2>1. IdsBounded'
    BY DEF IdsBounded
  <2>2. LedgerTracksRaw'
    BY DEF LedgerTracksRaw, Live
  <2>3. RevisionsLag'
    <3>1. \A h \in Hash : ~ledger'[h].known => ledger'[h] = NoRow
      BY DEF RevisionsLag
    <3>2. \A h \in Hash : ledger'[h].rev <= agg'.rev
      BY DEF RevisionsLag
    <3>3. QED
      BY <3>1, <3>2 DEF RevisionsLag
  <2>4. QED
    BY <2>1, <2>2, <2>3
<1>9. \A h \in Hash : h \in taken => Aggregated(h)' /\ counted'[h] = 1
  BY DEF CountedMatches, Aggregated
<1>10. \A h \in Hash : h \notin taken => (Aggregated(h)' <=> Aggregated(h)) /\ counted'[h] = counted[h]
  BY DEF Aggregated
<1>11. CountedMatches'
  BY <1>9, <1>10 DEF CountedMatches, Aggregated
<1>12. CoverageSound'
  BY <1>9, <1>10 DEF CoverageSound, IdsBounded, Live
<1>13. QED
  BY <1>7, <1>8, <1>11, <1>12
-----------------------------------------------------------------------------
LEMMA RebuildKeepsInv ==
  ASSUME LedgerInv, Rebuild
  PROVE  LedgerInv'
<1> USE DEF LedgerInv, LedgerTypeOK, LedgerRow, AggStatus
<1>1. CASE InvalidateAggregate
  <2>1. PICK latest \in {0} \cup LiveIds :
          /\ agg' = [status |-> "clearing", cursor |-> 0, coverage |-> 0,
                     target |-> latest, rev |-> agg.rev + 1]
          /\ UNCHANGED <<raw, lastId, ledger, counted, pending>>
    BY <1>1 DEF InvalidateAggregate
  <2>2. latest \in Nat /\ latest <= lastId
    BY TargetBounded
  <2>3. LedgerTypeOK'
    BY <2>1, <2>2
  <2>4. LedgerTracksRaw' /\ IdsBounded' /\ RevisionsLag' /\ CountedMatches' /\ CoverageSound'
    BY <2>1, <2>2 DEF LedgerTracksRaw, IdsBounded, RevisionsLag, CountedMatches, CoverageSound, Live
  <2>5. QED
    BY <2>3, <2>4
<1>2. CASE ClearAggregateRows
  <2>1. PICK cleared \in SUBSET Hash :
          /\ counted' = [h \in Hash |-> IF h \in cleared THEN 0 ELSE counted[h]]
          /\ agg.status = "clearing"
          /\ UNCHANGED <<raw, lastId, ledger, agg, pending>>
    BY <1>2, Zenon DEF ClearAggregateRows
  <2>2. LedgerTypeOK'
    BY <2>1
  <2>3. LedgerTracksRaw' /\ IdsBounded' /\ RevisionsLag' /\ CountedMatches' /\ CoverageSound'
    BY <2>1 DEF LedgerTracksRaw, IdsBounded, RevisionsLag, CountedMatches, CoverageSound, Live
  <2>4. QED
    BY <2>2, <2>3
<1>3. CASE FinishClearing
  <2>1. PICK latest \in {0} \cup LiveIds :
          agg' = [agg EXCEPT !.status = RebuildStatus(latest), !.cursor = 0,
                            !.coverage = 0, !.target = latest]
    BY <1>3 DEF FinishClearing
  <2>2. latest \in Nat /\ latest <= lastId
    BY TargetBounded
  <2>3. /\ agg.status = "clearing" /\ counted' = [h \in Hash |-> 0]
        /\ agg'.rev = agg.rev /\ agg'.cursor = 0 /\ agg'.coverage = 0 /\ agg'.target = latest
        /\ agg' = [status |-> agg'.status, cursor |-> 0, coverage |-> 0, target |-> latest, rev |-> agg.rev]
        /\ agg'.status \in {"ready", "pending"}
        /\ UNCHANGED <<raw, lastId, ledger, pending>>
    BY <1>3, <2>1 DEF FinishClearing, RebuildStatus
  <2>4. LedgerTypeOK' /\ LedgerTracksRaw' /\ IdsBounded'
    BY <2>2, <2>3 DEF LedgerTracksRaw, IdsBounded, Live
  <2>5. \A h \in Hash : ledger[h].rev < agg.rev
    BY <2>3 DEF RevisionsLag
  <2>6. RevisionsLag' /\ CountedMatches' /\ CoverageSound'
    BY <2>3, <2>5 DEF RevisionsLag, CountedMatches, CoverageSound, Aggregated, Live
  <2>7. QED
    BY <2>4, <2>6
<1>4. QED
  BY <1>1, <1>2, <1>3 DEF Rebuild

LEMMA AttachKeepsInv ==
  ASSUME LedgerInv, NEW events \in SUBSET Hash, AttachRaw(events)
  PROVE  LedgerInv'
<1> USE DEF LedgerInv, LedgerTypeOK, LedgerRow, AggStatus, AttachRaw
<1>1. \A h \in Hash : raw[h] \in Nat /\ ledger'[h].rev = ledger[h].rev
  OBVIOUS
<1>2. \A h \in events : raw[h] > 0 /\ ledger'[h].known /\ ledger'[h].rawId = raw[h]
  BY DEF Live
<1>3. \A h \in Hash \ events : ledger'[h] = ledger[h]
  OBVIOUS
<1>4. \A h \in Hash : raw[h] > 0 => (Aggregated(h)' <=> Aggregated(h))
  <2> SUFFICES ASSUME NEW h \in Hash, h \in events PROVE Aggregated(h)' <=> Aggregated(h)
    BY <1>3 DEF Aggregated
  <2>1. CASE ledger[h].known
    BY <1>1, <1>2, <2>1 DEF Aggregated
  <2>2. CASE ~ledger[h].known
    <3>1. ledger[h].rev = 0
      BY <2>2 DEF RevisionsLag, NoRow
    <3>2. ledger'[h].rev # agg'.rev
      BY <1>1, <3>1
    <3>3. QED
      BY <2>2, <3>2 DEF Aggregated
  <2>3. QED
    BY <2>1, <2>2
<1>5. LedgerTypeOK' /\ IdsBounded'
  BY DEF IdsBounded
<1>6. LedgerTracksRaw'
  BY <1>2, <1>3 DEF LedgerTracksRaw, Live
<1>7. RevisionsLag'
  BY <1>1, <1>2, <1>3 DEF RevisionsLag
<1>8. CountedMatches'
  BY <1>2, <1>3, <1>4 DEF CountedMatches, Aggregated
<1>9. CoverageSound'
  BY <1>4 DEF CoverageSound, Live
<1>10. QED
  BY <1>5, <1>6, <1>7, <1>8, <1>9

LEMMA DeleteKeepsInv ==
  ASSUME LedgerInv, NEW events \in SUBSET Hash, DeleteRaw(events)
  PROVE  LedgerInv'
<1> USE DEF LedgerInv, LedgerTypeOK, LedgerRow, AggStatus, DeleteRaw
<1>1. \A h \in events : ledger[h].known /\ ledger'[h].known /\ ledger'[h].rawId = 0 /\ raw'[h] = 0
                         /\ ledger'[h].rev = ledger[h].rev
  BY DEF Aggregated
<1>2. \A h \in Hash \ events : ledger'[h] = ledger[h] /\ raw'[h] = raw[h]
  OBVIOUS
<1>3. LedgerTypeOK' /\ IdsBounded'
  BY DEF IdsBounded
<1>4. LedgerTracksRaw'
  BY <1>1, <1>2 DEF LedgerTracksRaw, Live
<1>5. RevisionsLag'
  BY <1>1, <1>2 DEF RevisionsLag
<1>6. CountedMatches' /\ CoverageSound'
  BY <1>1, <1>2 DEF CountedMatches, CoverageSound, Aggregated, Live
<1>7. QED
  BY <1>3, <1>4, <1>5, <1>6

LEMMA StepKeepsInv == LedgerInv /\ [LedgerNext]_ledgerVars => LedgerInv'
<1> SUFFICES ASSUME LedgerInv, [LedgerNext]_ledgerVars PROVE LedgerInv'
  OBVIOUS
<1>1. ASSUME NEW w \in Writer, NEW batch \in SUBSET Hash, Preflight(w, batch) PROVE LedgerInv'
  BY <1>1 DEF Preflight, LedgerInv, LedgerTypeOK, LedgerTracksRaw, IdsBounded, RevisionsLag,
              CountedMatches, CoverageSound, Aggregated, Live
<1>2. ASSUME NEW w \in Writer, AbortInsert(w) PROVE LedgerInv'
  BY <1>2 DEF AbortInsert, LedgerInv, LedgerTypeOK, LedgerTracksRaw, IdsBounded, RevisionsLag,
              CountedMatches, CoverageSound, Aggregated, Live
<1>3. CASE Insert
  BY <1>1, <1>2, <1>3, CommitKeepsInv DEF Insert
<1>4. CASE CatchUp
  BY <1>4, IdleKeepsInv, BatchKeepsInv DEF CatchUp
<1>5. CASE AggregateFailure
  <2>1. /\ agg.status # "clearing" /\ agg' = [agg EXCEPT !.status = "failed"]
        /\ UNCHANGED <<raw, lastId, ledger, counted, pending>>
    BY <1>5 DEF AggregateFailure
  <2>2. LedgerTypeOK' /\ LedgerTracksRaw' /\ IdsBounded'
    BY <2>1 DEF LedgerInv, LedgerTypeOK, AggStatus, LedgerTracksRaw, IdsBounded, Live
  <2>3. RevisionsLag' /\ CountedMatches' /\ CoverageSound'
    BY <2>1 DEF LedgerInv, LedgerTypeOK, RevisionsLag, CountedMatches, CoverageSound, Aggregated, Live
  <2>4. QED
    BY <2>2, <2>3 DEF LedgerInv
<1>6. CASE UNCHANGED ledgerVars
  BY <1>6 DEF ledgerVars, LedgerInv, LedgerTypeOK, LedgerTracksRaw, IdsBounded, RevisionsLag,
              CountedMatches, CoverageSound, Aggregated, Live
<1>7. QED
  BY <1>3, <1>4, <1>5, <1>6, RebuildKeepsInv, AttachKeepsInv, DeleteKeepsInv DEF LedgerNext

-----------------------------------------------------------------------------
\* The stored columns and the checkpoint of the usage store keep their types.
THEOREM LedgerTypeCorrect == LedgerSpec => []LedgerTypeOK
<1>1. LedgerInv => LedgerTypeOK
  BY DEF LedgerInv
<1>2. QED
  BY InitInv, StepKeepsInv, <1>1, PTL DEF LedgerSpec

\* An event with a raw row is read exactly once, at every moment of inserts,
\* aggregation, failures, rebuilds and archive deletions.
THEOREM ExactReads == LedgerSpec => []ReadExactlyOnce
<1>1. QED
  BY InitInv, StepKeepsInv, ReadsAreExact, PTL DEF LedgerSpec

\* The aggregate's checkpoint covers what the archive takes it to cover.
THEOREM CoverageCorrect == LedgerSpec => []CoverageSound
<1>1. LedgerInv => CoverageSound
  BY DEF LedgerInv
<1>2. QED
  BY InitInv, StepKeepsInv, <1>1, PTL DEF LedgerSpec

\* Raw ids are unique and the ledger points at them.
THEOREM LedgerCorrect == LedgerSpec => []LedgerTracksRaw
<1>1. LedgerInv => LedgerTracksRaw
  BY DEF LedgerInv
<1>2. QED
  BY InitInv, StepKeepsInv, <1>1, PTL DEF LedgerSpec

\* An event whose raw row was deleted never gets one again.
THEOREM DeletedForEver == LedgerSpec => NoResurrection
<1>1. LedgerInv /\ [LedgerNext]_ledgerVars =>
        [\A h \in Hash : ledger[h].known /\ raw[h] = 0 => raw'[h] = 0]_ledgerVars
  <2> SUFFICES ASSUME LedgerInv, [LedgerNext]_ledgerVars, ledgerVars' # ledgerVars,
                      NEW h \in Hash, ledger[h].known, raw[h] = 0
               PROVE  raw'[h] = 0
    BY Zenon
  <2>1. ASSUME NEW w \in Writer, CommitInsert(w) PROVE raw'[h] = 0
    BY <2>1 DEF CommitInsert, Claimed
  <2>2. ASSUME NEW events \in SUBSET Hash, DeleteRaw(events) PROVE raw'[h] = 0
    BY <2>2 DEF DeleteRaw, LedgerInv, LedgerTypeOK
  <2>3. raw' = raw \/ raw'[h] = 0
    BY <2>1, <2>2 DEF LedgerNext, Insert, Rebuild, Preflight, AbortInsert, CatchUp, CatchUpIdle,
          CatchUpBatch, AggregateFailure, InvalidateAggregate, ClearAggregateRows,
          FinishClearing, AttachRaw, ledgerVars
  <2>4. QED
    BY <2>3
<1>2. QED
  BY InitInv, StepKeepsInv, <1>1, PTL DEF LedgerSpec, NoResurrection
=============================================================================
