---------------------- MODULE AccountingMigrationProofs ----------------------
(***************************************************************************)
(* Proofs about AccountingMigration, for any finite set of events, any     *)
(* batch sizes and any number of failures and resumptions.                 *)
(***************************************************************************)
EXTENDS AccountingMigration, UsageLedgerProofs

\* Wrong rows are live rows of the affected kind; what the aggregate holds
\* wrongly it has marked in the ledger, so that a deleted event does not
\* come back as a live one with a stale count.
ValuesOK ==
    /\ wrong \subseteq Live \cap Affected
    /\ \A h \in stale : ledger[h].known

\* What a status says about the checkpoint: the previous release leaves a
\* pass that is over or not begun, a pass that runs has a target, and a pass
\* that clears has scanned and applied everything.
StatusOK ==
    /\ ~upgraded => revision = 2 /\ mig.status \in {"completed", "discovering"}
    /\ mig.status = "discovering" => mig.target = 0
    /\ mig.status \in {"pending", "running", "applying", "clearing"} => mig.target > 0
    /\ mig.status # "completed" /\ mig.target = 0 => mig.last = 0 /\ mig.changed = 0
    /\ mig.status = "clearing" => mig.target <= mig.last /\ mig.changed <= mig.applied

\* Until the pass is over the staging table holds exactly the wrong rows the
\* scan has passed, no wrong row is beyond the target, and the two counters
\* differ by what is staged.
PassOK ==
    mig.status # "completed" =>
        /\ mig.changed = mig.applied + Cardinality(staged)
        /\ staged = {h \in wrong : raw[h] <= mig.last}
        /\ mig.target > 0 => \A h \in wrong : raw[h] <= mig.target

\* Where no correction is under way the aggregate is no worse than the rows:
\* whatever live event it holds wrongly is still wrong in its row, too.
StaleOK ==
    mig.status = "completed" \/ mig.applied = 0 => Live \cap stale \subseteq wrong

\* A completed revision 3 has left no row wrong that the predicate selects.
CompletedOK ==
    revision = CurrentRevision /\ mig.status = "completed" => wrong \cap Flagged = {}

MigrationInv ==
    /\ LedgerInv /\ MigrationTypeOK
    /\ ValuesOK /\ StatusOK /\ PassOK /\ StaleOK
    /\ AppliesBehindClearing /\ CompletedOK
-----------------------------------------------------------------------------
(* The store below the migration *)

\* Whatever the migration does to the store is a step of the store.
LEMMA LedgerStep == [Next]_allVars => [LedgerNext]_ledgerVars
<1> SUFFICES ASSUME Next PROVE LedgerNext \/ UNCHANGED ledgerVars
  BY DEF allVars
<1>1. CASE Upgrade
  BY <1>1 DEF Upgrade
<1>2. CASE InsertEvents
  BY <1>2 DEF InsertEvents, LedgerNext
<1>3. CASE Aggregate
  BY <1>3 DEF Aggregate, LedgerNext
<1>4. CASE ArchiveDelete
  BY <1>4 DEF ArchiveDelete, LedgerNext
<1>5. CASE Discover
  BY <1>5 DEF Discover
<1>6. CASE RunBatch
  BY <1>6 DEF RunBatch, ScanBatch, ApplyBatch, ClearBatch, LedgerNext, Rebuild, InvalidatesDerived
<1>7. CASE RecordFailure
  BY <1>7 DEF RecordFailure
<1>8. QED
  BY <1>1, <1>2, <1>3, <1>4, <1>5, <1>6, <1>7 DEF Next

LEMMA LedgerKept == LedgerInv /\ [Next]_allVars => LedgerInv'
BY LedgerStep, StepKeepsInv

\* Inserting keeps what is stored, forgets no identity and brings no deleted
\* event back.
LEMMA InsertedRows ==
  ASSUME LedgerInv, Insert
  PROVE  /\ UNCHANGED <<counted, agg>>
         /\ \A h \in Hash :
              /\ raw[h] > 0 => raw'[h] = raw[h]
              /\ ledger[h].known => ledger'[h].known
              /\ ledger[h].known /\ raw[h] = 0 => raw'[h] = 0
<1> USE DEF LedgerInv, LedgerTypeOK, LedgerRow
<1>1. ASSUME NEW w \in Writer, NEW batch \in SUBSET Hash, Preflight(w, batch) \/ AbortInsert(w)
      PROVE  UNCHANGED <<raw, ledger, counted, agg>>
  BY <1>1 DEF Preflight, AbortInsert
<1>2. ASSUME NEW w \in Writer, CommitInsert(w)
      PROVE  /\ UNCHANGED <<counted, agg>>
             /\ \A h \in Hash :
                  /\ raw[h] > 0 => raw'[h] = raw[h]
                  /\ ledger[h].known => ledger'[h].known
                  /\ ledger[h].known /\ raw[h] = 0 => raw'[h] = 0
  <2> DEFINE claimed == Claimed(w)
             fresh   == {h \in claimed : raw[h] = 0}
  <2>1. PICK f \in Injection(fresh, (lastId + 1) .. (lastId + Cardinality(fresh))) :
          raw' = [h \in Hash |-> IF h \in fresh THEN f[h] ELSE raw[h]]
    BY <1>2 DEF CommitInsert
  <2>2. /\ ledger' = [h \in Hash |-> IF h \in claimed
                                     THEN [known |-> TRUE, rawId |-> raw'[h], rev |-> 0]
                                     ELSE ledger[h]]
        /\ UNCHANGED <<counted, agg>>
    BY <1>2 DEF CommitInsert
  <2>3. /\ \A h \in claimed : ~ledger[h].known
        /\ \A h \in fresh : raw[h] = 0 /\ h \in claimed
    BY DEF Claimed
  <2> HIDE DEF claimed, fresh
  <2>4. QED
    BY <2>1, <2>2, <2>3
<1>3. CASE \E w \in Writer, batch \in SUBSET Hash : Preflight(w, batch) \/ AbortInsert(w)
  BY <1>1, <1>3
<1>4. CASE \E w \in Writer : CommitInsert(w)
  BY <1>2, <1>4
<1>5. QED
  BY <1>3, <1>4 DEF Insert

\* Aggregating is held while the table is cleared, leaves the raw rows alone
\* and marks what it counts.
LEMMA AggregatedRows ==
  ASSUME LedgerInv, CatchUp \/ AggregateFailure
  PROVE  /\ agg.status # "clearing" /\ UNCHANGED raw
         /\ \A h \in Hash :
              /\ ledger[h].known => ledger'[h].known
              /\ counted'[h] > counted[h] => ledger'[h].known
<1> USE DEF LedgerInv, LedgerTypeOK, LedgerRow
<1>1. ASSUME NEW latest \in {0} \cup LiveIds, CatchUpIdle(latest)
      PROVE  UNCHANGED <<raw, ledger, counted>>
  BY <1>1 DEF CatchUpIdle
<1>2. ASSUME NEW latest \in {0} \cup LiveIds, CatchUpBatch(latest)
      PROVE  /\ UNCHANGED raw
             /\ \A h \in Hash :
                  /\ ledger[h].known => ledger'[h].known
                  /\ counted'[h] > counted[h] => ledger'[h].known
  <2> DEFINE due == {i \in LiveIds : agg.cursor < i /\ i <= NextTarget(latest)}
  <2>1. PICK last \in due :
          LET taken == {h \in Live : raw[h] \in {i \in due : i <= last}}
          IN  /\ counted' = [h \in Hash |->
                    IF h \in taken /\ ~Aggregated(h) THEN counted[h] + 1 ELSE counted[h]]
              /\ ledger' = [h \in Hash |->
                    IF h \in taken /\ ~Aggregated(h)
                    THEN [known |-> TRUE, rawId |-> raw[h], rev |-> agg.rev]
                    ELSE ledger[h]]
              /\ UNCHANGED raw
    BY <1>2, Zenon DEF CatchUpBatch
  <2> DEFINE taken == {h \in Live : raw[h] \in {i \in due : i <= last}}
  <2>2. /\ counted' = [h \in Hash |->
              IF h \in taken /\ ~Aggregated(h) THEN counted[h] + 1 ELSE counted[h]]
        /\ ledger' = [h \in Hash |->
              IF h \in taken /\ ~Aggregated(h)
              THEN [known |-> TRUE, rawId |-> raw[h], rev |-> agg.rev]
              ELSE ledger[h]]
        /\ UNCHANGED raw
    BY <2>1
  <2> HIDE DEF taken, due
  <2>3. QED
    BY <2>2
<1>3. CASE AggregateFailure
  BY <1>3 DEF AggregateFailure
<1>4. CASE CatchUp
  <2>1. PICK latest \in {0} \cup LiveIds : CatchUpIdle(latest) \/ CatchUpBatch(latest)
    BY <1>4 DEF CatchUp
  <2>2. CASE CatchUpIdle(latest)
    BY <1>1, <1>4, <2>2 DEF CatchUp
  <2>3. CASE CatchUpBatch(latest)
    BY <1>2, <1>4, <2>3 DEF CatchUp
  <2>4. QED
    BY <2>1, <2>2, <2>3
<1>5. QED
  BY <1>3, <1>4

\* What the migration itself does to the aggregate leaves the rows alone.
LEMMA RebuiltRows ==
  ASSUME LedgerInv, InvalidateAggregate \/ ClearAggregateRows \/ FinishClearing \/ UNCHANGED ledgerVars
  PROVE  UNCHANGED <<raw, ledger>>
BY DEF InvalidateAggregate, ClearAggregateRows, FinishClearing, ledgerVars

\* The next rows of a selection are the ones with the least ids: whatever has
\* a smaller id than one of them is one of them.
LEMMA FirstRowsClosed ==
  ASSUME LedgerInv, NEW S \in SUBSET Hash, NEW limit \in Nat,
         NEW h \in FirstRows(S, limit), NEW g \in S, raw[g] <= raw[h]
  PROVE  g \in FirstRows(S, limit)
<1> DEFINE upTo(k) == {e \in S : raw[e] <= raw[k]}
<1>0. h \in S /\ \A e \in S : raw[e] \in Nat
  BY DEF FirstRows, LedgerInv, LedgerTypeOK
<1>1. upTo(g) \subseteq upTo(h) /\ upTo(g) \in SUBSET Hash /\ upTo(h) \in SUBSET Hash
  BY <1>0
<1>2. IsFiniteSet(upTo(h))
  BY <1>1, LedgerAssumption, FS_Subset
<1>3. Cardinality(upTo(g)) <= Cardinality(upTo(h))
  BY <1>1, <1>2, FS_Subset
<1>4. Cardinality(upTo(g)) \in Nat /\ Cardinality(upTo(h)) \in Nat
  BY <1>1, SizeOfEvents
<1>5. Cardinality(upTo(h)) <= limit
  BY Zenon DEF FirstRows
<1> HIDE DEF upTo
<1>6. Cardinality(upTo(g)) <= limit
  BY <1>3, <1>4, <1>5
<1>7. QED
  BY <1>6, Zenon DEF FirstRows, upTo

\* Staging adds up: sets with no common event are counted one by one.
LEMMA SizesAdd ==
  ASSUME NEW S \in SUBSET Hash, NEW T \in SUBSET Hash
  PROVE  /\ S \cap T = {} => Cardinality(S \cup T) = Cardinality(S) + Cardinality(T)
         /\ T \subseteq S => Cardinality(S \ T) = Cardinality(S) - Cardinality(T)
         /\ Cardinality(S) = 0 => S = {}
         /\ Cardinality({}) = 0
<1>1. IsFiniteSet(S) /\ IsFiniteSet(T)
  BY LedgerAssumption, FS_Subset
<1>2. Cardinality(S) \in Nat /\ Cardinality(T) \in Nat /\ Cardinality(S \ T) \in Nat
  BY SizeOfEvents
<1>3. Cardinality({}) = 0
  BY FS_EmptySet
<1>4. Cardinality(S \cup T) = Cardinality(S) + Cardinality(T) - Cardinality(S \cap T)
  BY <1>1, FS_Union
<1>5. Cardinality(S \ T) = Cardinality(S) - Cardinality(S \cap T)
  BY <1>1, FS_Difference
<1>6. Cardinality(S) = 0 => S = {}
  BY <1>1, FS_EmptySet
<1>7. ASSUME S \cap T = {} PROVE Cardinality(S \cup T) = Cardinality(S) + Cardinality(T)
  <2>1. Cardinality(S \cap T) = 0
    BY <1>3, <1>7
  <2>2. QED
    BY <1>2, <1>4, <2>1
<1>8. ASSUME T \subseteq S PROVE Cardinality(S \ T) = Cardinality(S) - Cardinality(T)
  <2>1. S \cap T = T
    BY <1>8
  <2>2. QED
    BY <1>5, <2>1
<1>9. QED
  BY <1>3, <1>6, <1>7, <1>8

-----------------------------------------------------------------------------
(* The steps *)

LEMMA MigrationInit == Init => MigrationInv
<1> SUFFICES ASSUME Init PROVE MigrationInv
  OBVIOUS
<1>1. LedgerInv
  BY InitInv DEF Init
<1>2. PICK status \in {"completed", "discovering"} : mig = Checkpoint(status, NoCheckpoint)
  BY DEF Init
<1>3. /\ mig = [status |-> status, last |-> 0, target |-> 0, changed |-> 0, applied |-> 0]
      /\ mig.status = status /\ mig.last = 0 /\ mig.target = 0
      /\ mig.changed = 0 /\ mig.applied = 0
  BY <1>2 DEF Checkpoint, NoCheckpoint
<1>4. staged = {} /\ stale = {} /\ wrong = Live \cap Affected /\ upgraded = FALSE /\ revision = 2
  BY DEF Init
<1>5. MigrationTypeOK
  <2>1. mig \in [status : MigStatus, last : Nat, target : Nat, changed : Nat, applied : Nat]
    BY <1>3 DEF MigStatus
  <2>2. LedgerTypeOK /\ wrong \subseteq Hash
    BY <1>1, <1>4 DEF LedgerInv, Live
  <2>3. QED
    BY <1>4, <2>1, <2>2 DEF MigrationTypeOK
<1>6. ValuesOK /\ StatusOK /\ StaleOK /\ AppliesBehindClearing /\ CompletedOK
  BY <1>3, <1>4 DEF ValuesOK, StatusOK, StaleOK, AppliesBehindClearing, CompletedOK, CurrentRevision
<1>7. PassOK
  <2>1. \A h \in wrong : raw[h] \in Nat /\ raw[h] > 0
    BY <1>1, <1>4 DEF LedgerInv, LedgerTypeOK, Live
  <2>2. Cardinality(staged) = 0
    BY <1>4, SizesAdd
  <2>3. QED
    BY <1>3, <1>4, <2>1, <2>2 DEF PassOK
<1>8. QED
  BY <1>1, <1>5, <1>6, <1>7 DEF MigrationInv

LEMMA UpgradeKeeps == MigrationInv /\ LedgerInv' /\ Upgrade => MigrationInv'
<1> SUFFICES ASSUME MigrationInv, LedgerInv', Upgrade PROVE MigrationInv'
  OBVIOUS
<1>1. UNCHANGED <<raw, ledger, agg, revision, mig, staged, wrong, stale>> /\ upgraded'
  BY DEF Upgrade, ledgerVars
<1>2. Live' = Live
  BY <1>1 DEF Live
<1>3. MigrationTypeOK'
  BY <1>1 DEF MigrationInv, MigrationTypeOK, LedgerInv
<1>4. ValuesOK' /\ StatusOK' /\ PassOK' /\ StaleOK' /\ AppliesBehindClearing' /\ CompletedOK'
  BY <1>1, <1>2 DEF MigrationInv, ValuesOK, StatusOK, PassOK, StaleOK, AppliesBehindClearing, CompletedOK
<1>5. QED
  BY <1>3, <1>4 DEF MigrationInv

LEMMA InsertKeeps == MigrationInv /\ LedgerInv' /\ InsertEvents => MigrationInv'
<1> SUFFICES ASSUME MigrationInv, LedgerInv', InsertEvents PROVE MigrationInv'
  OBVIOUS
<1>1. /\ UNCHANGED <<counted, agg>>
      /\ \A h \in Hash : /\ raw[h] > 0 => raw'[h] = raw[h]
                         /\ ledger[h].known => ledger'[h].known
                         /\ ledger[h].known /\ raw[h] = 0 => raw'[h] = 0
  BY InsertedRows DEF MigrationInv, InsertEvents
<1>2. UNCHANGED <<upgraded, revision, mig, staged, stale>>
  BY DEF InsertEvents
<1>3. wrong' = IF upgraded THEN wrong ELSE wrong \cup {h \in Affected : raw[h] = 0 /\ raw'[h] > 0}
  BY DEF InsertEvents
<1>4. /\ raw \in [Hash -> Nat] /\ raw' \in [Hash -> Nat] /\ wrong \subseteq Hash /\ stale \subseteq Hash
      /\ LedgerTypeOK' /\ Affected \subseteq Hash
  BY MigrationAssumption DEF MigrationInv, LedgerInv, LedgerTypeOK, MigrationTypeOK
<1>5. MigrationTypeOK'
  <2>1. wrong' \subseteq Hash
    BY <1>3, <1>4
  <2>2. QED
    BY <1>2, <1>4, <2>1 DEF MigrationInv, MigrationTypeOK
<1>6. ValuesOK'
  <2>1. wrong \subseteq Live \cap Affected /\ \A h \in stale : ledger[h].known
    BY DEF MigrationInv, ValuesOK
  <2>2. \A h \in wrong' : h \in Affected /\ raw'[h] > 0
    BY <1>1, <1>3, <1>4, <2>1 DEF Live
  <2>3. QED
    BY <1>1, <1>2, <1>4, <2>1, <2>2 DEF ValuesOK, Live
<1>7. StatusOK' /\ AppliesBehindClearing'
  BY <1>1, <1>2 DEF MigrationInv, StatusOK, AppliesBehindClearing
<1>8. PassOK'
  <2>1. CASE upgraded
    <3>1. wrong' = wrong /\ \A h \in wrong : raw'[h] = raw[h]
      BY <1>1, <1>3, <1>4, <2>1 DEF MigrationInv, ValuesOK, Live
    <3>2. QED
      BY <1>2, <3>1 DEF MigrationInv, PassOK
  <2>2. CASE ~upgraded /\ mig.status # "completed"
    <3>1. mig.last = 0 /\ mig.target = 0 /\ mig.changed = 0
      BY <2>2 DEF MigrationInv, StatusOK
    <3>2. \A h \in wrong : ~(raw[h] <= mig.last)
      BY <1>4, <3>1 DEF MigrationInv, ValuesOK, Live
    <3>3. \A h \in wrong' : ~(raw'[h] <= mig.last)
      BY <1>4, <1>6, <3>1 DEF ValuesOK, Live
    <3>4. staged = {} /\ {h \in wrong' : raw'[h] <= mig.last} = {}
      BY <2>2, <3>2, <3>3 DEF MigrationInv, PassOK
    <3>5. QED
      BY <1>2, <2>2, <3>1, <3>4 DEF MigrationInv, PassOK
  <2>3. QED
    BY <1>2, <2>1, <2>2 DEF PassOK
<1>9. StaleOK'
  <2>1. Live' \cap stale \subseteq Live \cap stale
    BY <1>1, <1>4 DEF Live, MigrationInv, ValuesOK
  <2>2. wrong \subseteq wrong'
    BY <1>3
  <2>3. QED
    BY <1>2, <2>1, <2>2 DEF MigrationInv, StaleOK
<1>10. CompletedOK'
  BY <1>2, <1>3 DEF MigrationInv, CompletedOK, StatusOK, CurrentRevision
<1>11. QED
  BY <1>5, <1>6, <1>7, <1>8, <1>9, <1>10 DEF MigrationInv

LEMMA AggregateKeeps == MigrationInv /\ LedgerInv' /\ Aggregate => MigrationInv'
<1> SUFFICES ASSUME MigrationInv, LedgerInv', Aggregate PROVE MigrationInv'
  OBVIOUS
<1>1. /\ agg.status # "clearing" /\ UNCHANGED raw
      /\ \A h \in Hash : /\ ledger[h].known => ledger'[h].known
                         /\ counted'[h] > counted[h] => ledger'[h].known
  BY AggregatedRows DEF MigrationInv, Aggregate
<1>2. /\ UNCHANGED <<upgraded, revision, mig, staged, wrong>>
      /\ stale' = stale \cup {h \in wrong : counted'[h] > counted[h]}
  BY DEF Aggregate
<1>3. Live' = Live /\ wrong \subseteq Hash /\ stale \subseteq Hash
  BY <1>1 DEF Live, MigrationInv, MigrationTypeOK
<1>4. MigrationTypeOK'
  <2>1. stale' \subseteq Hash
    BY <1>2, <1>3
  <2>2. QED
    BY <1>2, <2>1 DEF MigrationInv, MigrationTypeOK, LedgerInv
<1>5. ValuesOK'
  BY <1>1, <1>2, <1>3 DEF MigrationInv, ValuesOK
<1>6. StaleOK'
  BY <1>2, <1>3 DEF MigrationInv, StaleOK
<1>7. AppliesBehindClearing'
  BY <1>1, <1>2 DEF MigrationInv, AppliesBehindClearing
<1>8. StatusOK' /\ PassOK' /\ CompletedOK'
  BY <1>1, <1>2 DEF MigrationInv, StatusOK, PassOK, CompletedOK
<1>9. QED
  BY <1>4, <1>5, <1>6, <1>7, <1>8 DEF MigrationInv

LEMMA DeleteKeeps == MigrationInv /\ LedgerInv' /\ ArchiveDelete => MigrationInv'
<1> SUFFICES ASSUME MigrationInv, LedgerInv', ArchiveDelete PROVE MigrationInv'
  OBVIOUS
<1>1. PICK events \in SUBSET Hash : DeleteRaw(events) /\ wrong' = wrong \ events
  BY DEF ArchiveDelete
<1>2. mig.status = "completed" /\ UNCHANGED <<upgraded, revision, mig, staged, stale>>
  BY DEF ArchiveDelete
<1>3. /\ raw' = [h \in Hash |-> IF h \in events THEN 0 ELSE raw[h]]
      /\ ledger' = [h \in Hash |-> IF h \in events THEN [ledger[h] EXCEPT !.rawId = 0] ELSE ledger[h]]
  BY <1>1 DEF DeleteRaw
<1>4. /\ wrong \subseteq Hash /\ stale \subseteq Hash
      /\ raw \in [Hash -> Nat] /\ ledger \in [Hash -> LedgerRow]
  BY DEF MigrationInv, MigrationTypeOK, LedgerTypeOK
<1>5. Live' = Live \ events
  BY <1>3, <1>4 DEF Live
<1>6. \A h \in Hash : ledger'[h].known = ledger[h].known
  BY <1>3, <1>4, Zenon DEF LedgerRow
<1>7. MigrationTypeOK'
  <2>1. wrong' \subseteq Hash
    BY <1>1, <1>4
  <2>2. QED
    BY <1>2, <2>1 DEF MigrationInv, MigrationTypeOK, LedgerInv
<1>8. ValuesOK'
  BY <1>1, <1>2, <1>4, <1>5, <1>6 DEF MigrationInv, ValuesOK
<1>9. StaleOK' /\ CompletedOK'
  BY <1>1, <1>2, <1>5 DEF MigrationInv, StaleOK, CompletedOK
<1>10. StatusOK' /\ PassOK' /\ AppliesBehindClearing'
  BY <1>2 DEF MigrationInv, StatusOK, PassOK, AppliesBehindClearing
<1>11. QED
  BY <1>7, <1>8, <1>9, <1>10 DEF MigrationInv

\* Where rows, values and identities stay, only the checkpoint matters.
LEMMA CheckpointStep ==
  ASSUME MigrationInv, LedgerInv', UNCHANGED <<raw, ledger, upgraded, wrong, stale>>,
         revision' \in {2, 3}, staged' \subseteq Hash,
         mig' \in [status : MigStatus, last : Nat, target : Nat, changed : Nat, applied : Nat],
         StatusOK', PassOK', StaleOK', AppliesBehindClearing', CompletedOK'
  PROVE  MigrationInv'
<1>1. MigrationTypeOK'
  BY DEF MigrationInv, MigrationTypeOK, LedgerInv
<1>2. ValuesOK'
  BY DEF MigrationInv, ValuesOK, Live
<1>3. QED
  BY <1>1, <1>2 DEF MigrationInv

\* A pass that starts covers every wrong row, because the rows it is to look
\* at include them all and its target is the latest of those.
LEMMA PassStarts ==
  ASSUME MigrationInv, LedgerInv', NEW i \in {0} \cup LiveIds, IsLatestCandidate(i), StartPass(i),
         upgraded, UNCHANGED <<ledgerVars, upgraded, wrong, stale>>, revision' \in {2, 3},
         mig.status = "completed" \/ mig.applied = 0
  PROVE  MigrationInv'
<1>0. UNCHANGED <<raw, ledger, agg>> /\ Live' = Live /\ staged' = {}
  BY DEF ledgerVars, Live, StartPass
<1>1. i \in Nat /\ wrong \subseteq Live /\ \A h \in wrong : raw[h] \in Nat /\ raw[h] > 0
  BY DEF MigrationInv, ValuesOK, LedgerInv, LedgerTypeOK, LiveIds, Live
<1>2. \A h \in wrong : raw[h] <= i
  <2>1. wrong \subseteq Live \cap Candidate
    BY MigrationAssumption DEF MigrationInv, ValuesOK
  <2>2. QED
    BY <2>1 DEF IsLatestCandidate
<1>3. Live \cap stale \subseteq wrong
  BY DEF MigrationInv, StaleOK
<1>4. Cardinality({}) = 0
  BY SizesAdd
<1>5. CASE i = 0
  <2>1. wrong = {}
    BY <1>1, <1>2, <1>5
  <2>2. mig' = [status |-> "completed", last |-> 0, target |-> 0, changed |-> 0, applied |-> 0]
    BY <1>5 DEF StartPass, Checkpoint, NoCheckpoint
  <2>3. mig' \in [status : MigStatus, last : Nat, target : Nat, changed : Nat, applied : Nat]
    BY <2>2 DEF MigStatus
  <2>4. StatusOK' /\ PassOK' /\ StaleOK' /\ AppliesBehindClearing' /\ CompletedOK'
    BY <1>0, <1>3, <2>1, <2>2 DEF StatusOK, PassOK, StaleOK, AppliesBehindClearing, CompletedOK
  <2>5. QED
    BY <1>0, <2>3, <2>4, CheckpointStep
<1>6. CASE i > 0
  <2>1. mig' = Checkpoint("pending", [NoCheckpoint EXCEPT !.target = i])
    BY <1>6 DEF StartPass
  <2>2. [NoCheckpoint EXCEPT !.target = i] = [last |-> 0, target |-> i, changed |-> 0, applied |-> 0]
    BY DEF NoCheckpoint
  <2>3. mig' = [status |-> "pending", last |-> 0, target |-> i, changed |-> 0, applied |-> 0]
    BY <2>1, <2>2 DEF Checkpoint
  <2>4. mig' \in [status : MigStatus, last : Nat, target : Nat, changed : Nat, applied : Nat]
    BY <1>1, <2>3 DEF MigStatus
  <2>5. PassOK'
    <3>1. {h \in wrong : raw[h] <= 0} = {}
      BY <1>1
    <3>2. QED
      BY <1>0, <1>2, <1>4, <2>3, <3>1 DEF PassOK
  <2>6. StatusOK' /\ StaleOK' /\ AppliesBehindClearing' /\ CompletedOK'
    BY <1>0, <1>3, <1>6, <2>3 DEF StatusOK, StaleOK, AppliesBehindClearing, CompletedOK
  <2>7. QED
    BY <1>0, <2>4, <2>5, <2>6, CheckpointStep
<1>7. QED
  BY <1>1, <1>5, <1>6

LEMMA DiscoverKeeps == MigrationInv /\ LedgerInv' /\ Discover => MigrationInv'
<1> SUFFICES ASSUME MigrationInv, LedgerInv', Discover PROVE MigrationInv'
  OBVIOUS
<1>0. /\ upgraded /\ UNCHANGED <<ledgerVars, upgraded, wrong, stale>>
      /\ UNCHANGED <<raw, ledger, agg>> /\ Live' = Live
  BY DEF Discover, ledgerVars, Live
<1>1. /\ mig \in [status : MigStatus, last : Nat, target : Nat, changed : Nat, applied : Nat]
      /\ revision \in {2, 3} /\ staged \subseteq Hash /\ Cardinality(staged) \in Nat
  BY SizeOfEvents DEF MigrationInv, MigrationTypeOK
<1>2. CASE Reconciles /\ ~NeedsRediscovery /\ revision' = CurrentRevision /\ UNCHANGED <<mig, staged>>
  <2>1. wrong \cap Flagged = {}
    BY <1>2 DEF NeedsRediscovery, MigrationInv, ValuesOK
  <2>2. StatusOK' /\ PassOK' /\ StaleOK' /\ AppliesBehindClearing' /\ CompletedOK'
    BY <1>0, <1>2, <2>1 DEF MigrationInv, StatusOK, PassOK, StaleOK, AppliesBehindClearing, CompletedOK
  <2>3. revision' \in {2, 3}
    BY <1>2 DEF CurrentRevision
  <2>4. QED
    BY <1>0, <1>1, <1>2, <2>2, <2>3, CheckpointStep
<1>3. CASE /\ Reconciles /\ revision' = CurrentRevision
           /\ \E i \in {0} \cup LiveIds : IsLatestCandidate(i) /\ StartPass(i)
  BY <1>0, <1>3, PassStarts DEF Reconciles, CurrentRevision
<1>4. CASE /\ mig.status = "discovering" \/ (mig.status = "failed" /\ ResumeStatus = "discovering")
           /\ \E i \in {0} \cup LiveIds : IsLatestCandidate(i) /\ StartPass(i)
           /\ UNCHANGED revision
  <2>1. mig.status # "completed" /\ mig.changed = 0
    BY <1>1, <1>4 DEF ResumeStatus, MigrationInv, StatusOK
  <2>2. mig.applied = 0
    BY <1>1, <2>1 DEF MigrationInv, PassOK
  <2>3. QED
    BY <1>0, <1>1, <1>4, <2>2, PassStarts
<1>5. CASE /\ mig.status = "failed" /\ ResumeStatus # "discovering"
           /\ mig' = [mig EXCEPT !.status = ResumeStatus]
           /\ UNCHANGED <<revision, staged>>
  <2>1. ResumeStatus \in {"applying", "running", "clearing", "pending"}
    BY <1>5 DEF ResumeStatus
  <2>2. /\ mig'.status = ResumeStatus /\ mig'.last = mig.last /\ mig'.target = mig.target
        /\ mig'.changed = mig.changed /\ mig'.applied = mig.applied
    BY <1>1, <1>5, Zenon
  <2>3. mig' \in [status : MigStatus, last : Nat, target : Nat, changed : Nat, applied : Nat]
    BY <1>1, <1>5, <2>1, Zenon DEF MigStatus
  <2>4. mig.target > 0
    BY <1>1, <1>5 DEF MigrationInv, StatusOK, ResumeStatus
  <2>5. ResumeStatus = "clearing" => mig.target <= mig.last /\ mig.changed <= mig.applied
    BY <1>1 DEF ResumeStatus
  <2>6. StatusOK'
    BY <1>0, <2>1, <2>2, <2>4, <2>5 DEF StatusOK
  <2>7. PassOK' /\ StaleOK' /\ AppliesBehindClearing' /\ CompletedOK'
    BY <1>0, <1>5, <2>1, <2>2 DEF MigrationInv, PassOK, StaleOK, AppliesBehindClearing, CompletedOK
  <2>8. QED
    BY <1>0, <1>1, <1>5, <2>3, <2>6, <2>7, CheckpointStep
<1>6. QED
  BY <1>2, <1>3, <1>4, <1>5 DEF Discover

LEMMA RecordFailureKeeps == MigrationInv /\ LedgerInv' /\ RecordFailure => MigrationInv'
<1> SUFFICES ASSUME MigrationInv, LedgerInv', RecordFailure PROVE MigrationInv'
  OBVIOUS
<1>0. /\ upgraded /\ UNCHANGED <<ledgerVars, upgraded, revision, staged, wrong, stale>>
      /\ UNCHANGED <<raw, ledger, agg>> /\ Live' = Live /\ mig.status # "completed"
  BY DEF RecordFailure, ledgerVars, Live
<1>1. /\ mig \in [status : MigStatus, last : Nat, target : Nat, changed : Nat, applied : Nat]
      /\ revision \in {2, 3} /\ staged \subseteq Hash
  BY DEF MigrationInv, MigrationTypeOK
<1>2. /\ mig'.status = "failed" /\ mig'.last = mig.last /\ mig'.target = mig.target
      /\ mig'.changed = mig.changed /\ mig'.applied = mig.applied
  BY <1>1, Zenon DEF RecordFailure
<1>3. mig' \in [status : MigStatus, last : Nat, target : Nat, changed : Nat, applied : Nat]
  BY <1>1, Zenon DEF MigStatus, RecordFailure
<1>4. StatusOK' /\ PassOK' /\ StaleOK' /\ AppliesBehindClearing' /\ CompletedOK'
  BY <1>0, <1>2 DEF MigrationInv, StatusOK, PassOK, StaleOK, AppliesBehindClearing, CompletedOK
<1>5. QED
  BY <1>0, <1>1, <1>3, <1>4, CheckpointStep

\* When the scan has passed every wrong row: either there was none, and the
\* pass is over, or all of them are staged and can be corrected.
LEMMA ScanFinishes ==
  ASSUME MigrationInv, LedgerInv', upgraded, mig.status \in {"pending", "running"},
         UNCHANGED <<ledgerVars, upgraded, revision, wrong, stale>>,
         NEW S \in SUBSET Hash, NEW c \in Nat, c = mig.applied + Cardinality(S),
         S = {h \in wrong : raw[h] <= mig.target},
         staged' = IF c = 0 THEN {} ELSE S, mig' = FinishedScan(c)
  PROVE  MigrationInv'
<1>0. UNCHANGED <<raw, ledger, agg>> /\ Live' = Live
  BY DEF ledgerVars, Live
<1>1. /\ mig \in [status : MigStatus, last : Nat, target : Nat, changed : Nat, applied : Nat]
      /\ revision \in {2, 3} /\ Cardinality(S) \in Nat
  BY SizeOfEvents DEF MigrationInv, MigrationTypeOK
<1>2. mig.target > 0 /\ mig.status # "completed"
  BY DEF MigrationInv, StatusOK
<1>3. S = wrong
  BY <1>2 DEF MigrationInv, PassOK
<1>4. CASE c = 0
  <2>1. mig.applied = 0 /\ Cardinality(S) = 0
    BY <1>1, <1>4
  <2>2. wrong = {}
    BY <1>3, <2>1, SizesAdd
  <2>3. Live \cap stale \subseteq wrong
    BY <2>1 DEF MigrationInv, StaleOK
  <2>4. mig'.status = "completed"
    BY <1>1, <1>4, Zenon DEF FinishedScan
  <2>5. mig' \in [status : MigStatus, last : Nat, target : Nat, changed : Nat, applied : Nat]
    <3>1. mig.target \in Nat /\ 0 \in Nat /\ "completed" \in MigStatus
      BY <1>1 DEF MigStatus
    <3>2. QED
      BY <1>1, <1>4, <3>1, Zenon DEF FinishedScan
  <2>6. StatusOK' /\ PassOK' /\ StaleOK' /\ AppliesBehindClearing' /\ CompletedOK'
    BY <1>0, <2>2, <2>3, <2>4 DEF StatusOK, PassOK, StaleOK, AppliesBehindClearing, CompletedOK
  <2>7. staged' \subseteq Hash
    BY <1>4
  <2>8. QED
    BY <1>0, <1>1, <2>5, <2>6, <2>7, CheckpointStep
<1>5. CASE c # 0
  <2>1. /\ mig'.status = "applying" /\ mig'.last = mig.target /\ mig'.target = mig.target
        /\ mig'.changed = c /\ mig'.applied = mig.applied
    BY <1>1, <1>5, Zenon DEF FinishedScan
  <2>2. mig' \in [status : MigStatus, last : Nat, target : Nat, changed : Nat, applied : Nat]
    <3>1. mig.target \in Nat /\ "applying" \in MigStatus
      BY <1>1 DEF MigStatus
    <3>2. QED
      BY <1>1, <1>5, <3>1, Zenon DEF FinishedScan
  <2>3. staged' = S
    BY <1>5
  <2>4. StatusOK' /\ PassOK' /\ StaleOK' /\ AppliesBehindClearing' /\ CompletedOK'
    BY <1>0, <1>2, <2>1, <2>3 DEF MigrationInv, StatusOK, PassOK, StaleOK, AppliesBehindClearing, CompletedOK
  <2>5. QED
    BY <1>0, <1>1, <2>2, <2>3, <2>4, CheckpointStep
<1>6. QED
  BY <1>4, <1>5

LEMMA ScanKeeps == MigrationInv /\ LedgerInv' /\ ScanBatch => MigrationInv'
<1> SUFFICES ASSUME MigrationInv, LedgerInv', ScanBatch PROVE MigrationInv'
  OBVIOUS
<1> DEFINE due   == {h \in Live \cap Candidate : mig.last < raw[h] /\ raw[h] <= mig.target}
           batch == FirstRows(due, MigrationBatch)
           found == batch \cap wrong
           changed == mig.changed + Cardinality(found)
<1>0. /\ upgraded /\ mig.status \in {"pending", "running"}
      /\ UNCHANGED <<ledgerVars, upgraded, revision, wrong, stale>>
      /\ UNCHANGED <<raw, ledger, agg>> /\ Live' = Live /\ mig.status # "completed"
  BY DEF ScanBatch, ledgerVars, Live
<1>1. /\ mig \in [status : MigStatus, last : Nat, target : Nat, changed : Nat, applied : Nat]
      /\ revision \in {2, 3} /\ staged \in SUBSET Hash /\ Cardinality(staged) \in Nat
      /\ raw \in [Hash -> Nat] /\ wrong \subseteq Hash
  BY SizeOfEvents DEF MigrationInv, MigrationTypeOK, LedgerTypeOK
<1>2. /\ due \in SUBSET Hash /\ batch \subseteq due /\ found \in SUBSET Hash /\ Cardinality(found) \in Nat
      /\ changed \in Nat
  <2>1. due \in SUBSET Hash /\ batch \subseteq due
    BY DEF Live, FirstRows
  <2>2. found \in SUBSET Hash
    BY <2>1
  <2>3. Cardinality(found) \in Nat
    BY <2>2, SizeOfEvents
  <2> HIDE DEF due, batch, found
  <2>4. QED
    BY <1>1, <2>1, <2>2, <2>3
<1>3. /\ mig.changed = mig.applied + Cardinality(staged)
      /\ staged = {h \in wrong : raw[h] <= mig.last}
      /\ mig.target > 0 /\ \A h \in wrong : raw[h] <= mig.target
  BY <1>0 DEF MigrationInv, PassOK, StatusOK
<1>4. \A h \in wrong : raw[h] > mig.last => h \in due
  BY <1>1, <1>3, MigrationAssumption DEF MigrationInv, ValuesOK
<1>5. CASE due = {} /\ mig' = FinishedScan(mig.changed) /\ staged' = IF mig.changed = 0 THEN {} ELSE staged
  <2>1. staged = {h \in wrong : raw[h] <= mig.target}
    BY <1>1, <1>3, <1>4, <1>5
  <2>2. QED
    BY <1>0, <1>1, <1>3, <1>5, <2>1, ScanFinishes
<1>6. ASSUME NEW h \in batch, \A g \in batch : raw[g] <= raw[h],
             staged' = IF raw[h] >= mig.target /\ changed = 0 THEN {} ELSE staged \cup found,
             mig' = IF raw[h] >= mig.target
                    THEN FinishedScan(changed)
                    ELSE [mig EXCEPT !.status = "running", !.last = raw[h], !.changed = changed]
      PROVE  MigrationInv'
  <2>1. h \in Hash /\ raw[h] \in Nat /\ mig.last < raw[h] /\ raw[h] <= mig.target
    BY <1>1, <1>2
  <2>2. \A g \in wrong : mig.last < raw[g] /\ raw[g] <= raw[h] => g \in batch
    <3> SUFFICES ASSUME NEW g \in wrong, mig.last < raw[g], raw[g] <= raw[h] PROVE g \in batch
      OBVIOUS
    <3>1. g \in due
      BY <1>1, <1>4
    <3>2. QED
      BY <1>2, <3>1, FirstRowsClosed, MigrationAssumption DEF MigrationInv
  <2>3. \A g \in found : g \in wrong /\ mig.last < raw[g] /\ raw[g] <= raw[h]
    BY <1>2, <1>6
  <2>4. staged \cap found = {}
    BY <1>1, <1>3, <2>3
  <2>5. Cardinality(staged \cup found) = Cardinality(staged) + Cardinality(found)
    BY <1>1, <1>2, <2>4, SizesAdd
  <2>6. staged \cup found = {g \in wrong : raw[g] <= raw[h]}
    <3>1. \A g \in wrong : raw[g] <= raw[h] => g \in staged \cup found
      BY <1>1, <1>3, <2>2
    <3>2. \A g \in staged \cup found : g \in wrong /\ raw[g] <= raw[h]
      BY <1>1, <1>3, <2>1, <2>3
    <3> HIDE DEF found
    <3>3. QED
      BY <3>1, <3>2
  <2>7. staged \cup found \in SUBSET Hash
    BY <1>1, <1>2
  <2> HIDE DEF due, batch, found
  <2>8. changed = mig.applied + Cardinality(staged \cup found)
    BY <1>1, <1>2, <1>3, <2>5
  <2> HIDE DEF changed
  <2>9. CASE raw[h] >= mig.target
    <3>1. raw[h] = mig.target
      BY <1>1, <2>1, <2>9
    <3>2. mig' = FinishedScan(changed) /\ staged' = IF changed = 0 THEN {} ELSE staged \cup found
      BY <1>6, <2>9
    <3>3. QED
      BY <1>0, <1>2, <2>6, <2>7, <2>8, <3>1, <3>2, ScanFinishes
  <2>10. CASE ~(raw[h] >= mig.target)
    <3>1. mig' = [mig EXCEPT !.status = "running", !.last = raw[h], !.changed = changed]
      BY <1>6, <2>10
    <3>2. /\ mig'.status = "running" /\ mig'.last = raw[h] /\ mig'.target = mig.target
          /\ mig'.changed = changed /\ mig'.applied = mig.applied
      BY <1>1, <3>1, Zenon
    <3>3. mig' \in [status : MigStatus, last : Nat, target : Nat, changed : Nat, applied : Nat]
      <4>1. "running" \in MigStatus
        BY DEF MigStatus
      <4>2. QED
        BY <1>1, <1>2, <2>1, <3>1, <4>1, Zenon
    <3>4. staged' = staged \cup found
      BY <1>6, <2>10
    <3>5. PassOK'
      BY <1>0, <1>3, <2>6, <2>8, <3>2, <3>4 DEF PassOK
    <3>6. StatusOK' /\ StaleOK' /\ AppliesBehindClearing' /\ CompletedOK'
      BY <1>0, <1>3, <3>2 DEF MigrationInv, StatusOK, StaleOK, AppliesBehindClearing, CompletedOK
    <3>7. QED
      BY <1>0, <1>1, <2>7, <3>3, <3>4, <3>5, <3>6, CheckpointStep
  <2>11. QED
    BY <2>9, <2>10
<1>7. QED
  <2> HIDE DEF due, batch, found, changed
  <2>1. \/ due = {} /\ mig' = FinishedScan(mig.changed) /\ staged' = IF mig.changed = 0 THEN {} ELSE staged
        \/ \E h \in batch :
             /\ \A g \in batch : raw[g] <= raw[h]
             /\ staged' = IF raw[h] >= mig.target /\ changed = 0 THEN {} ELSE staged \cup found
             /\ mig' = IF raw[h] >= mig.target
                       THEN FinishedScan(changed)
                       ELSE [mig EXCEPT !.status = "running", !.last = raw[h], !.changed = changed]
    BY Zenon DEF ScanBatch, due, batch, found, changed
  <2>2. QED
    BY <1>5, <1>6, <2>1

LEMMA ApplyKeeps == MigrationInv /\ LedgerInv' /\ ApplyBatch => MigrationInv'
<1> SUFFICES ASSUME MigrationInv, LedgerInv', ApplyBatch PROVE MigrationInv'
  OBVIOUS
<1> DEFINE batch   == FirstRows(staged, MigrationBatch)
           applied == mig.applied + Cardinality(batch)
<1>0. /\ upgraded /\ mig.status = "applying" /\ UNCHANGED <<upgraded, revision, stale>>
      /\ wrong' = wrong \ batch /\ staged' = staged \ batch
      /\ mig' = [mig EXCEPT !.status = AppliedStatus(applied), !.applied = applied]
      /\ IF InvalidatesDerived(batch) THEN InvalidateAggregate ELSE UNCHANGED ledgerVars
  BY Zenon DEF ApplyBatch
<1>1. /\ mig \in [status : MigStatus, last : Nat, target : Nat, changed : Nat, applied : Nat]
      /\ revision \in {2, 3} /\ staged \in SUBSET Hash /\ Cardinality(staged) \in Nat
      /\ wrong \subseteq Hash /\ stale \subseteq Hash
  BY SizeOfEvents DEF MigrationInv, MigrationTypeOK
<1>2. batch \subseteq staged /\ batch \in SUBSET Hash /\ Cardinality(batch) \in Nat
  <2>1. batch \subseteq staged
    BY DEF FirstRows
  <2>2. QED
    BY <1>1, <2>1, SizeOfEvents
<1>3. /\ mig.changed = mig.applied + Cardinality(staged)
      /\ staged = {h \in wrong : raw[h] <= mig.last}
      /\ mig.target > 0 /\ \A h \in wrong : raw[h] <= mig.target
  BY <1>0 DEF MigrationInv, PassOK, StatusOK
<1>4. Cardinality(staged \ batch) = Cardinality(staged) - Cardinality(batch)
  BY <1>1, <1>2, SizesAdd
<1>5. UNCHANGED <<raw, ledger>> /\ Live' = Live
  <2>1. UNCHANGED <<raw, ledger>>
    BY <1>0, RebuiltRows DEF MigrationInv
  <2>2. QED
    BY <2>1 DEF Live
<1>6. batch = {} => Cardinality(batch) = 0
  BY SizesAdd
<1>7. /\ AppliedStatus(applied) \in {"applying", "clearing", "running"}
      /\ AppliedStatus(applied) = "clearing" => mig.target <= mig.last /\ mig.changed <= applied
  BY <1>1, <1>2 DEF AppliedStatus
<1> HIDE DEF batch
<1>8. applied \in Nat
  BY <1>1, <1>2
<1>9. mig.applied > 0 \/ batch # {} => agg'.status = "clearing"
  <2>1. CASE mig.applied = 0 /\ batch # {}
    <3>1. InvalidateAggregate
      BY <1>0, <2>1 DEF InvalidatesDerived
    <3>2. QED
      BY <3>1 DEF InvalidateAggregate
  <2>2. CASE mig.applied > 0
    <3>1. UNCHANGED agg
      BY <1>0, <2>2 DEF InvalidatesDerived, ledgerVars
    <3>2. QED
      BY <1>0, <2>2, <3>1 DEF MigrationInv, AppliesBehindClearing
  <2>3. QED
    BY <1>1, <2>1, <2>2
<1>10. applied = 0 => mig.applied = 0 /\ Cardinality(batch) = 0 /\ batch = {}
  <2>1. applied = 0 => mig.applied = 0 /\ Cardinality(batch) = 0
    BY <1>1, <1>2
  <2>2. Cardinality(batch) = 0 => batch = {}
    BY <1>2, SizesAdd
  <2>3. QED
    BY <2>1, <2>2
<1>11. applied > 0 => agg'.status = "clearing"
  BY <1>1, <1>2, <1>6, <1>9
<1>12. mig.changed = applied + Cardinality(staged \ batch)
  BY <1>1, <1>2, <1>3, <1>4
<1> HIDE DEF applied
<1>13. /\ mig'.status = AppliedStatus(applied) /\ mig'.last = mig.last /\ mig'.target = mig.target
       /\ mig'.changed = mig.changed /\ mig'.applied = applied
  BY <1>0, <1>1, Zenon
<1>14. mig' \in [status : MigStatus, last : Nat, target : Nat, changed : Nat, applied : Nat]
  <2>1. AppliedStatus(applied) \in MigStatus
    BY <1>7 DEF MigStatus
  <2>2. QED
    BY <1>0, <1>1, <1>8, <2>1, Zenon
<1>15. MigrationTypeOK'
  <2>1. wrong' \subseteq Hash /\ staged' \subseteq Hash
    BY <1>0, <1>1
  <2>2. QED
    BY <1>0, <1>14, <2>1 DEF MigrationInv, MigrationTypeOK, LedgerInv
<1>16. ValuesOK'
  BY <1>0, <1>5 DEF MigrationInv, ValuesOK
<1>17. StatusOK'
  BY <1>0, <1>3, <1>7, <1>13 DEF StatusOK
<1>18. PassOK'
  <2>1. staged \ batch = {h \in wrong \ batch : raw[h] <= mig.last}
    BY <1>3
  <2>2. QED
    BY <1>0, <1>3, <1>5, <1>12, <1>13, <2>1 DEF PassOK
<1>19. StaleOK'
  BY <1>0, <1>5, <1>7, <1>10, <1>13 DEF MigrationInv, StaleOK
<1>20. AppliesBehindClearing' /\ CompletedOK'
  BY <1>7, <1>11, <1>13 DEF AppliesBehindClearing, CompletedOK
<1>21. QED
  BY <1>15, <1>16, <1>17, <1>18, <1>19, <1>20 DEF MigrationInv

LEMMA ClearKeeps == MigrationInv /\ LedgerInv' /\ ClearBatch => MigrationInv'
<1> SUFFICES ASSUME MigrationInv, LedgerInv', ClearBatch PROVE MigrationInv'
  OBVIOUS
<1>0. /\ upgraded /\ mig.status = "clearing" /\ UNCHANGED <<upgraded, revision, wrong>>
      /\ stale' = {h \in stale : counted'[h] > 0}
  BY DEF ClearBatch
<1>1. /\ mig \in [status : MigStatus, last : Nat, target : Nat, changed : Nat, applied : Nat]
      /\ revision \in {2, 3} /\ staged \in SUBSET Hash /\ Cardinality(staged) \in Nat
      /\ wrong \subseteq Hash /\ stale \subseteq Hash
  BY SizeOfEvents DEF MigrationInv, MigrationTypeOK
<1>2. UNCHANGED <<raw, ledger>> /\ Live' = Live
  <2>1. UNCHANGED <<raw, ledger>>
    BY RebuiltRows DEF MigrationInv, ClearBatch
  <2>2. QED
    BY <2>1 DEF Live
<1>3. ValuesOK'
  BY <1>0, <1>2 DEF MigrationInv, ValuesOK
<1>4. CASE ClearAggregateRows /\ UNCHANGED <<mig, staged>>
  <2>1. UNCHANGED agg
    BY <1>4 DEF ClearAggregateRows
  <2>2. MigrationTypeOK'
    <3>1. stale' \subseteq Hash
      BY <1>0, <1>1
    <3>2. QED
      BY <1>0, <1>4, <3>1 DEF MigrationInv, MigrationTypeOK, LedgerInv
  <2>3. StatusOK' /\ PassOK' /\ StaleOK' /\ AppliesBehindClearing' /\ CompletedOK'
    BY <1>0, <1>2, <1>4, <2>1 DEF MigrationInv, StatusOK, PassOK, StaleOK, AppliesBehindClearing, CompletedOK
  <2>4. QED
    BY <1>3, <2>2, <2>3 DEF MigrationInv
<1>5. CASE /\ FinishClearing /\ staged' = {}
           /\ mig' = [mig EXCEPT !.status = "completed", !.last = mig.target, !.applied = mig.changed]
  <2>1. stale' = {}
    <3>1. \A h \in stale : ~(counted'[h] > 0)
      BY <1>1, <1>5 DEF FinishClearing
    <3>2. QED
      BY <1>0, <3>1
  <2>2. wrong = {}
    <3>1. /\ mig.changed = mig.applied + Cardinality(staged)
          /\ staged = {h \in wrong : raw[h] <= mig.last}
          /\ \A h \in wrong : raw[h] <= mig.target
          /\ mig.target <= mig.last /\ mig.changed <= mig.applied
      BY <1>0 DEF MigrationInv, PassOK, StatusOK
    <3>2. Cardinality(staged) = 0
      BY <1>1, <3>1
    <3>3. staged = {}
      BY <1>1, <3>2, SizesAdd
    <3>4. \A h \in wrong : raw[h] \in Nat
      BY <1>1 DEF MigrationInv, LedgerInv, LedgerTypeOK
    <3>5. \A h \in wrong : raw[h] <= mig.last
      BY <1>1, <3>1, <3>4
    <3>6. QED
      BY <3>1, <3>3, <3>5
  <2>3. mig'.status = "completed"
    BY <1>1, <1>5, Zenon
  <2>4. mig' \in [status : MigStatus, last : Nat, target : Nat, changed : Nat, applied : Nat]
    <3>1. "completed" \in MigStatus /\ mig.target \in Nat /\ mig.changed \in Nat
      BY <1>1 DEF MigStatus
    <3>2. QED
      BY <1>1, <1>5, <3>1, Zenon
  <2>5. MigrationTypeOK'
    BY <1>0, <1>5, <2>1, <2>4 DEF MigrationInv, MigrationTypeOK, LedgerInv
  <2>6. StatusOK' /\ PassOK' /\ StaleOK' /\ AppliesBehindClearing' /\ CompletedOK'
    BY <1>0, <2>1, <2>2, <2>3 DEF StatusOK, PassOK, StaleOK, AppliesBehindClearing, CompletedOK
  <2>7. QED
    BY <1>3, <2>5, <2>6 DEF MigrationInv
<1>6. QED
  BY <1>4, <1>5 DEF ClearBatch

LEMMA MigrationStep == MigrationInv /\ [Next]_allVars => MigrationInv'
<1> SUFFICES ASSUME MigrationInv, [Next]_allVars PROVE MigrationInv'
  OBVIOUS
<1>1. LedgerInv'
  BY LedgerKept DEF MigrationInv
<1>2. CASE UNCHANGED allVars
  BY <1>1, <1>2 DEF allVars, ledgerVars, migVars, MigrationInv, MigrationTypeOK, ValuesOK, StatusOK, PassOK,
                    StaleOK, AppliesBehindClearing, CompletedOK, LedgerInv, Live
<1>3. CASE Next
  BY <1>1, <1>3, UpgradeKeeps, InsertKeeps, AggregateKeeps, DeleteKeeps, DiscoverKeeps, ScanKeeps, ApplyKeeps,
     ClearKeeps, RecordFailureKeeps DEF Next, RunBatch
<1>4. QED
  BY <1>2, <1>3

-----------------------------------------------------------------------------
(* The theorems *)

\* The migration keeps the promises of the store it corrects: every behaviour
\* of AccountingMigration is one of UsageLedger.
THEOREM MigrationRunsTheLedger == Spec => LedgerSpec
<1>1. Init => LedgerInit
  BY DEF Init
<1>2. QED
  BY <1>1, LedgerStep, PTL DEF Spec, LedgerSpec

THEOREM MigrationInvHolds == Spec => []MigrationInv
BY MigrationInit, MigrationStep, PTL DEF Spec

\* An interrupted pass can always be resumed in the right phase: checkpoint,
\* staging table and aggregate agree (MigrationConsistent).
THEOREM MigrationStaysConsistent == Spec => []MigrationConsistent
<1>1. MigrationInv => MigrationConsistent
  <2> SUFFICES ASSUME MigrationInv PROVE StagingConsistent
    BY DEF MigrationInv, MigrationConsistent
  <2>1. staged = {h \in wrong : raw[h] <= mig.last} => staged \subseteq Live \cap wrong
    BY DEF MigrationInv, ValuesOK
  <2>2. QED
    BY <2>1 DEF MigrationInv, PassOK, StagingConsistent
<1>2. QED
  BY <1>1, MigrationInvHolds, PTL

\* A completed revision 3 has corrected every live row and what the aggregate
\* holds of it (CorrectedTotals).
THEOREM TotalsAreCorrected == Spec => []CorrectedTotals
<1>1. MigrationInv => CorrectedTotals
  BY DEF MigrationInv, CompletedOK, StaleOK, CorrectedTotals
<1>2. QED
  BY <1>1, MigrationInvHolds, PTL

\* While the migration corrects, invalidates and clears, readers still count
\* every live event exactly once.
THEOREM ReadsStayExact == Spec => []ReadExactlyOnce
BY MigrationRunsTheLedger, ExactReads, PTL
==============================================================================
