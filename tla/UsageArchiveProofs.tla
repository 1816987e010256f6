------------------------- MODULE UsageArchiveProofs -------------------------
(***************************************************************************)
(* Proofs about UsageArchive, for any finite set of events, any runs,      *)
(* cutoffs and batch sizes, and any number of interrupted invocations.     *)
(*                                                                         *)
(* ArchiveInv says what an invocation finds and leaves behind: what the    *)
(* references say about the raw rows (RefsOK), that a run's references are *)
(* the events of its segments (SegmentsOK), what its counters and status   *)
(* mean (ProgressOK), and that at most one run has still to archive        *)
(* (EarlyUnique), which is why nobody takes events out of its scope.       *)
(***************************************************************************)
EXTENDS UsageArchive, UsageLedgerProofs, SequenceTheorems, WellFoundedInduction, TLAPS

Segment == [seq : Nat, first : Nat, last : Nat, events : SUBSET Hash]
RunRow == [status : Status, resume : Active \cup {"absent"}, mode : Mode, cutoff : SUBSET Hash,
           target : Nat, count : Nat, lastArchived : Nat, archived : Nat,
           lastDeleted : Nat, deleted : Nat, deleteStarted : BOOLEAN]
RefRow == [run : RunId \cup {NoRun}, rawId : Nat, deleted : BOOLEAN]
Pc == {"archive", "record", "publish", "verify", "checked", "revalidate", "delete", "committed"}
JobRow == [pc : Pc, stage : Active, run : RunId, batch : SUBSET Hash, intact : BOOLEAN]

RowsOK ==
    /\ run \in [RunId -> RunRow] /\ refs \in [Hash -> RefRow]
    /\ segs \in [RunId -> Seq(Segment)] /\ files \in [RunId -> SUBSET Segment]
    /\ manifest \in [RunId -> Seq(Segment)]
    /\ lock \in RunId \cup {NoRun} /\ job \in JobRow \cup {Idle} /\ retained \subseteq Hash

Failed(r, stages) == run[r].status = "failed" /\ run[r].resume \in stages

\* The run has still to archive; its whole scope is archived; it may delete.
Early(r) == run[r].status \in {"previewed", "archiving"} \/ Failed(r, {"archiving"})
Late(r) ==
    \/ run[r].status \in {"archived", "verifying", "verified", "deleting", "completed"}
    \/ Failed(r, {"verifying", "deleting"})
DeletionBegun(r) == run[r].status \in {"deleting", "completed"} \/ Failed(r, {"deleting"})

\* The store never clears the aggregate while archives exist, and an event
\* that lost its raw row had been counted.
StoreOK ==
    /\ LedgerInv
    /\ agg.status # "clearing"
    /\ \A h \in Hash : ledger[h].known /\ raw[h] = 0 => counted[h] = 1

\* A live reference names the raw row it was taken from; a deleted one stands
\* for every known event that has no raw row.
RefsOK ==
    \A h \in Hash :
        /\ refs[h].run # NoRun /\ ~refs[h].deleted => raw[h] > 0 /\ raw[h] = refs[h].rawId
        /\ refs[h].deleted => refs[h].run # NoRun /\ DeletionBegun(refs[h].run) /\ h \in retained
        /\ refs[h].deleted <=> ledger[h].known /\ raw[h] = 0

\* The segments of a run are numbered, share no event and hold what its
\* references name; a cancelled run keeps its segments but no reference.
RunSegmentsOK(r) ==
    /\ \A i \in DOMAIN segs[r] : segs[r][i].seq = i
    /\ \A i, j \in DOMAIN segs[r] : segs[r][i].events \cap segs[r][j].events # {} => i = j
    /\ run[r].status \in {"absent", "previewed"} => segs[r] = <<>>
    /\ RefsOf(r) = IF run[r].status = "cancelled" THEN {} ELSE EventsOf(r)

SegmentsOK == \A r \in RunId : RunSegmentsOK(r)

\* The counters of a run agree with its references and its status.
RunProgressOK(r) ==
    /\ run[r].status # "cancelled" => run[r].archived = Cardinality(RefsOf(r))
    /\ Late(r) => run[r].archived = run[r].count /\ run[r].lastArchived = run[r].target
    /\ run[r].status = "completed" => \A h \in RefsOf(r) : refs[h].deleted
    /\ run[r].status = "failed" => run[r].resume \in Active
    /\ run[r].deleteStarted => DeletionBegun(r)

ProgressOK == \A r \in RunId : RunProgressOK(r)

EarlyUnique == \A r, q \in RunId : Early(r) /\ Early(q) => r = q

\* An invocation that deletes has found the archive intact when it began.
InvocationOK ==
    /\ job.pc = "record" => job.batch # {}
    /\ job.pc = "delete" => job.intact
    /\ job.pc = "revalidate" /\ ArchiveIntact(job.run) => job.intact

ArchiveInv ==
    /\ RowsOK /\ StoreOK /\ RefsOK /\ SegmentsOK /\ ProgressOK
    /\ EarlyUnique /\ OneStageAtATime /\ InvocationOK /\ ScopeNeverShrinks

-----------------------------------------------------------------------------
(* Ids *)

\* A nonempty set of numbers has a least one.
LEMMA Least ==
  ASSUME NEW S \in SUBSET Nat, S # {}
  PROVE  \E i \in S : \A j \in S : i <= j
<1> DEFINE R == {ss \in Nat \X Nat : ss[1] < ss[2]}
<1>1. IsWellFoundedOn(R, Nat)
  BY NatLessThanWellFounded DEF OpToRel
<1> HIDE DEF R
<1>2. PICK i \in S : \A j \in S : ~(<<j, i>> \in R)
  BY <1>1, WFMin
<1>3. \A j \in S : j \in Nat /\ i \in Nat
  OBVIOUS
<1>4. \A j \in S : ~(j < i)
  BY <1>2, <1>3 DEF R
<1>5. QED
  BY <1>3, <1>4

\* And, when it is bounded, a greatest one.
LEMMA Greatest ==
  ASSUME NEW S \in SUBSET Nat, S # {}, NEW n \in Nat, \A i \in S : i <= n
  PROVE  \E i \in S : \A j \in S : j <= i
<1> DEFINE T == {n - i : i \in S}
<1>0. \A i \in S : n - i \in Nat
  OBVIOUS
<1>1. T \in SUBSET Nat /\ T # {}
  BY <1>0, Zenon
<1>2. PICK k \in T : \A j \in T : k <= j
  BY <1>1, Least
<1>3. PICK i \in S : k = n - i
  OBVIOUS
<1>4. \A j \in S : n - j \in T
  OBVIOUS
<1> HIDE DEF T
<1>5. \A j \in S : n - i <= n - j
  BY <1>2, <1>3, <1>4
<1>6. \A j \in S : j \in Nat
  OBVIOUS
<1>7. QED
  BY <1>5, <1>6

\* The next rows of a nonempty selection are not none.
LEMMA FirstRowsExist ==
  ASSUME LedgerInv, NEW S \in SUBSET Live, S # {}, NEW limit \in Nat \ {0}
  PROVE  FirstRows(S, limit) \in SUBSET S /\ FirstRows(S, limit) # {}
<1> DEFINE ids == {raw[h] : h \in S}
<1>1. ids \in SUBSET Nat /\ ids # {}
  BY DEF LedgerInv, LedgerTypeOK, Live
<1>2. PICK i \in ids : \A j \in ids : i <= j
  BY <1>1, Least
<1>3. PICK h \in S : i = raw[h]
  OBVIOUS
<1>4. \A g \in S : raw[g] \in ids /\ raw[g] \in Nat /\ raw[h] \in Nat
  BY DEF LedgerInv, LedgerTypeOK, Live
<1> HIDE DEF ids
<1>5. \A g \in S : raw[g] <= raw[h] => raw[g] = raw[h]
  BY <1>2, <1>3, <1>4
<1>6. \A g \in S : raw[g] <= raw[h] => g = h
  BY <1>5 DEF LedgerInv, LedgerTracksRaw
<1>7. {g \in S : raw[g] <= raw[h]} = {h}
  BY <1>4, <1>6
<1>8. Cardinality({g \in S : raw[g] <= raw[h]}) = 1
  BY <1>7, FS_Singleton
<1>9. h \in FirstRows(S, limit)
  BY <1>8 DEF FirstRows
<1>10. QED
  BY <1>9 DEF FirstRows

\* The ids of stored events have a least and a greatest one.
LEMMA BatchIds ==
  ASSUME LedgerInv, NEW S \in SUBSET Live, S # {}
  PROVE  LET ids == {raw[h] : h \in S}
             first == CHOOSE i \in ids : \A j \in ids : i <= j
             last == CHOOSE i \in ids : \A j \in ids : j <= i
         IN  /\ first \in Nat /\ last \in Nat
             /\ \A h \in S : first <= raw[h] /\ raw[h] <= last
             /\ \E h \in S : raw[h] = last
<1> DEFINE ids == {raw[h] : h \in S}
<1>1. ids \in SUBSET Nat /\ ids # {} /\ lastId \in Nat /\ \A i \in ids : i <= lastId
  BY DEF LedgerInv, LedgerTypeOK, LedgerTracksRaw, Live
<1>2. \A h \in S : raw[h] \in ids
  OBVIOUS
<1>a. \A i \in ids : \E h \in S : raw[h] = i
  OBVIOUS
<1> HIDE DEF ids
<1>3. \E i \in ids : \A j \in ids : i <= j
  BY <1>1, Least
<1>4. \E i \in ids : \A j \in ids : j <= i
  BY <1>1, Greatest
<1> DEFINE first == CHOOSE i \in ids : \A j \in ids : i <= j
           last == CHOOSE i \in ids : \A j \in ids : j <= i
<1>5. first \in ids /\ \A j \in ids : first <= j
  BY <1>3
<1>6. last \in ids /\ \A j \in ids : j <= last
  BY <1>4
<1> HIDE DEF first, last
<1>7. /\ first \in Nat /\ last \in Nat
      /\ \A h \in S : first <= raw[h] /\ raw[h] <= last
      /\ \E h \in S : raw[h] = last
  BY <1>1, <1>2, <1>a, <1>5, <1>6
<1>8. QED
  BY <1>7 DEF first, last, ids

-----------------------------------------------------------------------------
(* The store *)

\* What an insert, an aggregation or its failure may do to an event.
LEMMA StoreSteps ==
  ASSUME LedgerInv, agg.status # "clearing", Insert \/ CatchUp \/ AggregateFailure
  PROVE  /\ agg'.status # "clearing"
         /\ \A h \in Hash :
              /\ raw[h] > 0 => raw'[h] = raw[h]
              /\ ledger'[h].known /\ raw'[h] = 0 <=> ledger[h].known /\ raw[h] = 0
              /\ ledger[h].known /\ raw[h] = 0 => counted'[h] = counted[h]
<1> USE DEF LedgerInv, LedgerTypeOK, LedgerRow, AggStatus
<1>1. ASSUME NEW w \in Writer, NEW batch \in SUBSET Hash, Preflight(w, batch) \/ AbortInsert(w)
      PROVE  UNCHANGED <<raw, ledger, counted, agg>>
  BY <1>1 DEF Preflight, AbortInsert
<1>2. ASSUME NEW w \in Writer, CommitInsert(w)
      PROVE  /\ UNCHANGED <<agg, counted>>
             /\ \A h \in Hash :
                  /\ raw[h] > 0 => raw'[h] = raw[h]
                  /\ ledger'[h].known /\ raw'[h] = 0 <=> ledger[h].known /\ raw[h] = 0
  <2> DEFINE claimed == Claimed(w)
             fresh   == {h \in claimed : raw[h] = 0}
  <2>0. fresh \in SUBSET Hash /\ claimed \in SUBSET Hash
    BY DEF Claimed
  <2>1. PICK f \in Injection(fresh, (lastId + 1) .. (lastId + Cardinality(fresh))) :
          raw' = [h \in Hash |-> IF h \in fresh THEN f[h] ELSE raw[h]]
    BY <1>2 DEF CommitInsert
  <2>2. /\ ledger' = [h \in Hash |-> IF h \in claimed
                                   THEN [known |-> TRUE, rawId |-> raw'[h], rev |-> 0]
                                   ELSE ledger[h]]
        /\ UNCHANGED <<counted, agg>>
    BY <1>2 DEF CommitInsert
  <2>3. \A h \in fresh : f[h] \in Nat /\ f[h] > 0
    BY <2>0, <2>1, FreshIds
  <2>4. /\ \A h \in claimed : ~ledger[h].known /\ (h \notin fresh => raw[h] > 0)
        /\ \A h \in fresh : raw[h] = 0 /\ h \in claimed
    BY DEF Claimed
  <2> HIDE DEF claimed, fresh
  <2>5. QED
    BY <2>0, <2>1, <2>2, <2>3, <2>4
<1>3. ASSUME NEW latest \in {0} \cup LiveIds, CatchUpIdle(latest)
      PROVE  agg'.status # "clearing" /\ UNCHANGED <<raw, ledger, counted>>
  BY <1>3 DEF CatchUpIdle
<1>4. ASSUME NEW latest \in {0} \cup LiveIds, CatchUpBatch(latest)
      PROVE  /\ agg'.status # "clearing" /\ UNCHANGED raw
             /\ \A h \in Hash : raw[h] = 0 => ledger'[h] = ledger[h] /\ counted'[h] = counted[h]
             /\ \A h \in Hash : ledger[h].known => ledger'[h].known
  <2> DEFINE due == {i \in LiveIds : agg.cursor < i /\ i <= NextTarget(latest)}
  <2>1. PICK last \in due :
          LET taken == {h \in Live : raw[h] \in {i \in due : i <= last}}
          IN  /\ counted' = [h \in Hash |->
                    IF h \in taken /\ ~Aggregated(h) THEN counted[h] + 1 ELSE counted[h]]
              /\ ledger' = [h \in Hash |->
                    IF h \in taken /\ ~Aggregated(h)
                    THEN [known |-> TRUE, rawId |-> raw[h], rev |-> agg.rev]
                    ELSE ledger[h]]
              /\ agg' = [agg EXCEPT !.status = IF last < NextTarget(latest) /\ Rebuilding THEN "backfilling"
                                               ELSE IF last < NextTarget(latest) \/ latest > last
                                               THEN "catching_up" ELSE "ready",
                                    !.cursor = last, !.coverage = last, !.target = NextTarget(latest)]
              /\ UNCHANGED <<raw, lastId, pending>>
    BY <1>4, Zenon DEF CatchUpBatch
  <2> DEFINE taken == {h \in Live : raw[h] \in {i \in due : i <= last}}
  <2>2. \A h \in taken : raw[h] > 0
    BY DEF Live
  <2>3. /\ counted' = [h \in Hash |->
              IF h \in taken /\ ~Aggregated(h) THEN counted[h] + 1 ELSE counted[h]]
        /\ ledger' = [h \in Hash |->
              IF h \in taken /\ ~Aggregated(h)
              THEN [known |-> TRUE, rawId |-> raw[h], rev |-> agg.rev]
              ELSE ledger[h]]
        /\ UNCHANGED raw /\ agg'.status \in {"backfilling", "catching_up", "ready"}
    BY <2>1
  <2> HIDE DEF taken
  <2>4. QED
    BY <2>2, <2>3
<1>5. ASSUME AggregateFailure PROVE agg'.status # "clearing" /\ UNCHANGED <<raw, ledger, counted>>
  BY <1>5 DEF AggregateFailure
<1>6. CASE Insert
  <2>1. CASE \E w \in Writer, batch \in SUBSET Hash : Preflight(w, batch) \/ AbortInsert(w)
    BY <1>1, <2>1
  <2>2. CASE \E w \in Writer : CommitInsert(w)
    BY <1>2, <2>2
  <2>3. QED
    BY <1>6, <2>1, <2>2 DEF Insert
<1>7. CASE CatchUp
  <2>1. PICK latest \in {0} \cup LiveIds : CatchUpIdle(latest) \/ CatchUpBatch(latest)
    BY <1>7 DEF CatchUp
  <2>2. CASE CatchUpIdle(latest)
    BY <1>3, <2>2
  <2>3. CASE CatchUpBatch(latest)
    <3>1. \A h \in Hash : raw[h] > 0 => raw'[h] > 0
      BY <1>4, <2>3
    <3>2. QED
      BY <1>4, <2>3
  <2>4. QED
    BY <2>1, <2>2, <2>3
<1>8. CASE AggregateFailure
  BY <1>5, <1>8
<1>9. QED
  BY <1>6, <1>7, <1>8
-----------------------------------------------------------------------------
(* What one kind of step keeps *)

LEMMA LedgerStays == LedgerInv /\ UNCHANGED ledgerVars => LedgerInv'
BY StepKeepsInv

LEMMA ArchiveInit == Init => ArchiveInv
<1> SUFFICES ASSUME Init PROVE ArchiveInv
  OBVIOUS
<1>1. LedgerInv
  BY InitInv DEF Init
<1> USE DEF Init
<1>2. RowsOK
  <2>1. NewRun \in RunRow
    BY DEF NewRun, RunRow, Status, Active, Mode
  <2>2. NoRef \in RefRow
    BY DEF NoRef, RefRow
  <2>3. QED
    BY <2>1, <2>2 DEF RowsOK
<1>3. StoreOK
  BY <1>1 DEF StoreOK, LedgerInit, RebuildStatus, NoRow
<1>4. RefsOK
  BY DEF RefsOK, NoRef, LedgerInit, NoRow
<1>5. \A r \in RunId : RefsOf(r) = {} /\ EventsOf(r) = {}
  BY ArchiveAssumption DEF RefsOf, EventsOf, RowsOf, NoRef
<1>6. SegmentsOK
  <2>1. \A r \in RunId : segs[r] = <<>> /\ DOMAIN segs[r] = {} /\ run[r].status = "absent"
    BY DEF NewRun
  <2>2. QED
    BY <1>5, <2>1 DEF SegmentsOK, RunSegmentsOK
<1>7. Cardinality({}) = 0
  BY FS_EmptySet
<1>8. ProgressOK
  BY <1>5, <1>7 DEF ProgressOK, RunProgressOK, NewRun, Late, DeletionBegun, Failed
<1>9. EarlyUnique /\ ScopeNeverShrinks
  BY DEF EarlyUnique, ScopeNeverShrinks, Early, Failed, NewRun
<1>10. OneStageAtATime /\ InvocationOK
  BY ArchiveAssumption DEF OneStageAtATime, InvocationOK, NewRun, Idle, Active
<1>11. QED
  BY <1>2, <1>3, <1>4, <1>6, <1>8, <1>9, <1>10 DEF ArchiveInv

\* A step that leaves the database alone.
LEMMA DatabaseStays ==
  ASSUME ArchiveInv, UNCHANGED <<ledgerVars, run, refs, segs, lock, retained>>
  PROVE  /\ StoreOK' /\ RefsOK' /\ SegmentsOK' /\ ProgressOK' /\ EarlyUnique' /\ ScopeNeverShrinks'
         /\ \A r \in RunId : run'[r].status \in Active <=> lock' = r
<1> USE DEF ArchiveInv, ledgerVars
<1>1. StoreOK'
  BY LedgerStays DEF StoreOK
<1>2. RefsOK' /\ EarlyUnique'
  BY DEF RefsOK, EarlyUnique, Early, DeletionBegun, Failed
<1>3. \A r : RefsOf(r)' = RefsOf(r) /\ EventsOf(r)' = EventsOf(r)
  BY DEF RefsOf, EventsOf, RowsOf
<1>4. SegmentsOK' /\ ProgressOK'
  BY <1>3 DEF SegmentsOK, RunSegmentsOK, ProgressOK, RunProgressOK, Late, DeletionBegun, Failed
<1>5. ScopeNeverShrinks'
  BY DEF ScopeNeverShrinks, Eligible, Live
<1>6. QED
  BY <1>1, <1>2, <1>4, <1>5 DEF OneStageAtATime

\* A step that only moves a run to another status.
LEMMA StatusStep ==
  ASSUME ArchiveInv, NEW r \in RunId, UNCHANGED <<ledgerVars, refs, segs, retained>>,
         run' \in [RunId -> RunRow],
         \A q \in RunId \ {r} : run'[q] = run[q],
         run'[r].cutoff = run[r].cutoff, run'[r].target = run[r].target,
         run'[r].count = run[r].count, run'[r].archived = run[r].archived,
         run'[r].lastArchived = run[r].lastArchived,
         run[r].status \notin {"absent", "cancelled"},
         run'[r].status \notin {"absent", "previewed", "cancelled", "completed"},
         run'[r].status = "failed" => run'[r].resume \in Active,
         Early(r)' => Early(r),
         Late(r)' => Late(r) \/ ScopeArchived(r),
         DeletionBegun(r) => DeletionBegun(r)',
         run'[r].deleteStarted => DeletionBegun(r)'
  PROVE  StoreOK' /\ RefsOK' /\ SegmentsOK' /\ ProgressOK' /\ EarlyUnique' /\ ScopeNeverShrinks'
<1> USE DEF ArchiveInv, ledgerVars
<1>1. StoreOK'
  BY LedgerStays DEF StoreOK
<1>2. \A q \in RunId \ {r} : /\ Early(q)' <=> Early(q)
                             /\ Late(q)' <=> Late(q)
                             /\ DeletionBegun(q)' <=> DeletionBegun(q)
  BY DEF Early, Late, DeletionBegun, Failed
<1>3. RefsOK'
  <2> SUFFICES ASSUME NEW h \in Hash, refs[h].deleted
               PROVE  DeletionBegun(refs[h].run)'
    BY DEF RefsOK
  <2>1. refs[h].run \in RunId /\ DeletionBegun(refs[h].run)
    BY DEF RefsOK, RowsOK, RefRow
  <2>2. QED
    BY <1>2, <2>1
<1>4. EarlyUnique'
  BY <1>2 DEF EarlyUnique
<1>5. \A q : RefsOf(q)' = RefsOf(q) /\ EventsOf(q)' = EventsOf(q)
  BY DEF RefsOf, EventsOf, RowsOf
<1>6. SegmentsOK'
  BY <1>5 DEF SegmentsOK, RunSegmentsOK
<1>7. ProgressOK'
  BY <1>2, <1>5 DEF ProgressOK, RunProgressOK, ScopeArchived
<1>8. ScopeNeverShrinks'
  <2> SUFFICES ASSUME NEW q \in RunId, Early(q)'
               PROVE  Cardinality({h \in Eligible(run[q].cutoff) :
                                     run[q].lastArchived < raw[h] /\ raw[h] <= run[q].target})
                        >= run[q].count - run[q].archived
    BY DEF ScopeNeverShrinks, Early, Failed, Eligible, Live
  <2>1. Early(q)
    BY <1>2
  <2>2. QED
    BY <2>1 DEF ScopeNeverShrinks, Early, Failed
<1>9. QED
  BY <1>1, <1>3, <1>4, <1>6, <1>7, <1>8
-----------------------------------------------------------------------------
(* Entering and leaving a stage *)

LEMMA BeginStageKeeps ==
  ASSUME ArchiveInv, NEW r \in RunId, NEW stage \in Active, NEW from \in {"previewed", "archived", "verified"},
         NEW pc \in {"archive", "verify", "revalidate"},
         BeginStage(r, stage, from, pc),
         <<stage, from>> \in {<<"archiving", "previewed">>, <<"verifying", "archived">>, <<"deleting", "verified">>},
         UNCHANGED <<ledgerVars, refs, segs, files, manifest, retained>>
  PROVE  ArchiveInv'
<1> USE DEF ArchiveInv
<1>1. /\ run' \in [RunId -> RunRow]
      /\ \A q \in RunId \ {r} : run'[q] = run[q]
      /\ run'[r].cutoff = run[r].cutoff /\ run'[r].target = run[r].target
      /\ run'[r].count = run[r].count /\ run'[r].archived = run[r].archived
      /\ run'[r].lastArchived = run[r].lastArchived
      /\ run'[r].status = stage
      /\ run'[r].deleteStarted = (run[r].deleteStarted \/ stage = "deleting")
  <2>1. run[r] \in RunRow
    BY DEF RowsOK
  <2> DEFINE row == [run[r] EXCEPT !.status = stage, !.resume = "absent",
                                   !.deleteStarted = @ \/ stage = "deleting"]
  <2>2. /\ row \in RunRow
        /\ row.cutoff = run[r].cutoff /\ row.target = run[r].target
        /\ row.count = run[r].count /\ row.archived = run[r].archived
        /\ row.lastArchived = run[r].lastArchived /\ row.status = stage
        /\ row.deleteStarted = (run[r].deleteStarted \/ stage = "deleting")
    BY <2>1 DEF RunRow, Status, Active
  <2>3. run' = [run EXCEPT ![r] = row]
    BY DEF BeginStage, RowsOK
  <2> HIDE DEF row
  <2>4. QED
    BY <2>2, <2>3 DEF RowsOK
<1>2. /\ job = Idle /\ lock \in {NoRun, r} /\ lock' = r
      /\ run[r].status \in {from, stage} \/ (run[r].status = "failed" /\ run[r].resume = stage)
      /\ job' = [pc |-> pc, stage |-> stage, run |-> r, batch |-> {}, intact |-> ArchiveIntact(r)]
  <2> DEFINE intact == ArchiveIntact(r)
  <2>1. /\ job = Idle /\ lock \in {NoRun, r} /\ lock' = r
        /\ run[r].status \in {from, stage} \/ (run[r].status = "failed" /\ run[r].resume = stage)
        /\ job' = [Idle EXCEPT !.pc = pc, !.stage = stage, !.run = r, !.intact = intact]
    BY Zenon DEF BeginStage, LockFree
  <2> HIDE DEF intact
  <2>2. job' = [pc |-> pc, stage |-> stage, run |-> r, batch |-> {}, intact |-> intact]
    BY <2>1 DEF Idle
  <2>3. QED
    BY <2>1, <2>2 DEF intact
<1>3. /\ run[r].status \notin {"absent", "cancelled"}
      /\ Early(r)' => Early(r)
      /\ Late(r)' => Late(r)
      /\ DeletionBegun(r) => DeletionBegun(r)'
      /\ run[r].deleteStarted => DeletionBegun(r)
      /\ stage = "deleting" => DeletionBegun(r)'
      /\ stage \in Active
  BY <1>1, <1>2 DEF Active, Early, Late, DeletionBegun, Failed, ProgressOK, RunProgressOK
<1>4. StoreOK' /\ RefsOK' /\ SegmentsOK' /\ ProgressOK' /\ EarlyUnique' /\ ScopeNeverShrinks'
  BY <1>1, <1>3, StatusStep DEF Active
<1>5. job' \in JobRow /\ ArchiveIntact(r) \in BOOLEAN
  BY <1>2 DEF JobRow, Pc, ArchiveIntact, FilesIntact
<1>6. RowsOK'
  BY <1>1, <1>2, <1>5 DEF RowsOK
<1>7. OneStageAtATime'
  <2>1. \A q \in RunId \ {r} : run'[q].status \notin Active
    BY <1>1, <1>2, ArchiveAssumption DEF OneStageAtATime
  <2>2. QED
    BY <1>1, <1>2, <2>1 DEF OneStageAtATime
<1>8. InvocationOK'
  <2>1. ArchiveIntact(r)' = ArchiveIntact(r)
    BY DEF ArchiveIntact, FilesIntact, RowsOf, EventsOf
  <2>2. QED
    BY <1>2, <2>1 DEF InvocationOK
<1>9. QED
  BY <1>4, <1>6, <1>7, <1>8

\* The status, the lock and the invocation when a stage has committed.
LEMMA FinishStageKeeps ==
  ASSUME ArchiveInv, NEW r \in RunId, job # Idle, job.run = r,
         NEW status \in {"archived", "verified"}, FinishStage(r, status),
         run[r].status \in {"archiving", "verifying"}, Late(r) \/ ScopeArchived(r),
         UNCHANGED <<ledgerVars, refs, segs, files, manifest, retained>>
  PROVE  ArchiveInv'
<1> USE DEF ArchiveInv
<1>1. /\ run' \in [RunId -> RunRow]
      /\ \A q \in RunId \ {r} : run'[q] = run[q]
      /\ run'[r].cutoff = run[r].cutoff /\ run'[r].target = run[r].target
      /\ run'[r].count = run[r].count /\ run'[r].archived = run[r].archived
      /\ run'[r].lastArchived = run[r].lastArchived
      /\ run'[r].status = status
      /\ run'[r].deleteStarted = run[r].deleteStarted
  <2>1. run[r] \in RunRow
    BY DEF RowsOK
  <2> DEFINE row == [run[r] EXCEPT !.status = status]
  <2>2. /\ row \in RunRow
        /\ row.cutoff = run[r].cutoff /\ row.target = run[r].target
        /\ row.count = run[r].count /\ row.archived = run[r].archived
        /\ row.lastArchived = run[r].lastArchived /\ row.status = status
        /\ row.deleteStarted = run[r].deleteStarted
    BY <2>1 DEF RunRow, Status, Active
  <2>3. run' = [run EXCEPT ![r] = row]
    BY DEF FinishStage, RowsOK
  <2> HIDE DEF row
  <2>4. QED
    BY <2>2, <2>3 DEF RowsOK
<1>2. lock = r /\ lock' = NoRun
  BY DEF OneStageAtATime, FinishStage, ReleaseLock, Active
<1>3. job \in JobRow /\ job' = [job EXCEPT !.pc = "committed"]
  BY DEF RowsOK, FinishStage
<1>4. job' \in JobRow /\ job'.pc = "committed"
  BY <1>3 DEF JobRow, Pc
<1>5. /\ Early(r)' => Early(r)
      /\ ~DeletionBegun(r)
      /\ ~run[r].deleteStarted
  BY <1>1 DEF Early, DeletionBegun, Failed, ProgressOK, RunProgressOK
<1>6. StoreOK' /\ RefsOK' /\ SegmentsOK' /\ ProgressOK' /\ EarlyUnique' /\ ScopeNeverShrinks'
  BY <1>1, <1>5, StatusStep
<1>7. RowsOK'
  BY <1>1, <1>2, <1>4 DEF RowsOK
<1>8. OneStageAtATime' /\ InvocationOK'
  BY <1>1, <1>2, <1>4, ArchiveAssumption DEF OneStageAtATime, InvocationOK, Active
<1>9. QED
  BY <1>6, <1>7, <1>8

LEMMA FailureKeeps ==
  ASSUME ArchiveInv, NEW r \in RunId, RecordFailure(r)
  PROVE  ArchiveInv'
<1> USE DEF ArchiveInv
<1>1. /\ job # Idle /\ job.run = r /\ job \in JobRow /\ job.stage \in Active /\ job' = Idle
      /\ UNCHANGED <<ledgerVars, refs, segs, files, manifest, retained>>
  BY DEF RecordFailure, RowsOK, JobRow
<1>2. InvocationOK'
  BY <1>1 DEF InvocationOK, Idle
<1>3. CASE UNCHANGED <<run, lock>>
  <2>1. /\ StoreOK' /\ RefsOK' /\ SegmentsOK' /\ ProgressOK' /\ EarlyUnique' /\ ScopeNeverShrinks'
        /\ \A q \in RunId : run'[q].status \in Active <=> lock' = q
    BY <1>1, <1>3, DatabaseStays
  <2>2. RowsOK'
    BY <1>1, <1>3 DEF RowsOK
  <2>3. OneStageAtATime'
    BY <1>1, <2>1 DEF OneStageAtATime, Idle
  <2>4. QED
    BY <1>2, <2>1, <2>2, <2>3
<1>4. CASE FailureCounts(r) /\ run' = [run EXCEPT ![r].status = "failed", ![r].resume = job.stage]
           /\ ReleaseLock(r)
  <2>1. /\ run' \in [RunId -> RunRow]
        /\ \A q \in RunId \ {r} : run'[q] = run[q]
        /\ run'[r].cutoff = run[r].cutoff /\ run'[r].target = run[r].target
        /\ run'[r].count = run[r].count /\ run'[r].archived = run[r].archived
        /\ run'[r].lastArchived = run[r].lastArchived
        /\ run'[r].status = "failed" /\ run'[r].resume = job.stage
        /\ run'[r].deleteStarted = run[r].deleteStarted
    <3>1. run[r] \in RunRow
      BY DEF RowsOK
    <3> DEFINE row == [run[r] EXCEPT !.status = "failed", !.resume = job.stage]
    <3>2. /\ row \in RunRow
          /\ row.cutoff = run[r].cutoff /\ row.target = run[r].target
          /\ row.count = run[r].count /\ row.archived = run[r].archived
          /\ row.lastArchived = run[r].lastArchived
          /\ row.status = "failed" /\ row.resume = job.stage
          /\ row.deleteStarted = run[r].deleteStarted
      BY <1>1, <3>1 DEF RunRow, Status, Active
    <3>3. run' = [run EXCEPT ![r] = row]
      BY <1>4 DEF RowsOK
    <3> HIDE DEF row
    <3>4. QED
      BY <3>2, <3>3 DEF RowsOK
  <2>2. run[r].status = job.stage \/ (run[r].status = "failed" /\ run[r].resume = job.stage)
    BY <1>4, Zenon DEF FailureCounts
  <2>3. /\ run[r].status \notin {"absent", "cancelled"}
        /\ Early(r)' => Early(r)
        /\ Late(r)' => Late(r)
        /\ DeletionBegun(r) => DeletionBegun(r)'
        /\ run[r].deleteStarted => DeletionBegun(r)
    BY <1>1, <2>1, <2>2 DEF Active, Early, Late, DeletionBegun, Failed, ProgressOK, RunProgressOK
  <2>4. StoreOK' /\ RefsOK' /\ SegmentsOK' /\ ProgressOK' /\ EarlyUnique' /\ ScopeNeverShrinks'
    BY <1>1, <2>1, <2>3, StatusStep
  <2>5. lock' = IF lock = r THEN NoRun ELSE lock
    BY <1>4 DEF ReleaseLock
  <2>6. RowsOK'
    BY <1>1, <2>1, <2>5 DEF RowsOK
  <2>7. OneStageAtATime'
    BY <1>1, <2>1, <2>5, ArchiveAssumption DEF OneStageAtATime, Active, Idle
  <2>8. QED
    BY <1>2, <2>4, <2>6, <2>7
<1>5. QED
  BY <1>3, <1>4 DEF RecordFailure
-----------------------------------------------------------------------------
(* Steps on the disk and inside an invocation *)

LEMMA WriteSegmentKeeps ==
  ASSUME ArchiveInv, NEW r \in RunId, WriteSegment(r)
  PROVE  ArchiveInv'
<1> DEFINE due   == {h \in Eligible(run[r].cutoff) :
                       run[r].lastArchived < raw[h] /\ raw[h] <= run[r].target}
           batch == FirstRows(due, SegmentLimit)
           new   == SegmentOf(r, batch)
<1> USE DEF ArchiveInv
<1>1. /\ job.pc = "archive" /\ job.run = r /\ due # {}
      /\ files' = [files EXCEPT ![r] = {f \in @ : ~SameName(f, new)} \cup {new}]
      /\ job' = [job EXCEPT !.pc = "record", !.batch = batch]
      /\ UNCHANGED <<ledgerVars, run, refs, segs, lock, manifest, retained>>
  BY DEF WriteSegment
<1>2. due \in SUBSET Live
  BY DEF Eligible
<1>3. batch \in SUBSET Live /\ batch # {}
  BY <1>1, <1>2, FirstRowsExist, ArchiveAssumption DEF StoreOK
<1>4. new \in Segment
  <2> HIDE DEF batch
  <2>1. Len(segs[r]) \in Nat
    BY LenProperties DEF RowsOK
  <2>2. batch \subseteq Hash
    BY <1>3 DEF Live
  <2> DEFINE ids == {raw[h] : h \in batch}
             first == CHOOSE i \in ids : \A j \in ids : i <= j
             last == CHOOSE i \in ids : \A j \in ids : j <= i
  <2>3. first \in Nat /\ last \in Nat
    BY <1>3, BatchIds DEF StoreOK
  <2>4. new = [seq |-> Len(segs[r]) + 1, first |-> first, last |-> last, events |-> batch]
    BY DEF SegmentOf
  <2> HIDE DEF first, last, new
  <2>5. QED
    BY <2>1, <2>2, <2>3, <2>4 DEF Segment
<1> HIDE DEF due, batch, new
<1>5. job \in JobRow
  BY <1>1 DEF RowsOK, Idle
<1>6. job' \in JobRow /\ job'.pc = "record" /\ job'.batch = batch /\ job'.run = job.run /\ job'.stage = job.stage
  BY <1>1, <1>3, <1>5 DEF JobRow, Pc, Live
<1>7. RowsOK'
  BY <1>1, <1>4, <1>6 DEF RowsOK
<1>8. /\ StoreOK' /\ RefsOK' /\ SegmentsOK' /\ ProgressOK' /\ EarlyUnique' /\ ScopeNeverShrinks'
      /\ \A q \in RunId : run'[q].status \in Active <=> lock' = q
  BY <1>1, DatabaseStays
<1>9. OneStageAtATime' /\ InvocationOK'
  BY <1>1, <1>3, <1>6, <1>8 DEF OneStageAtATime, InvocationOK
<1>10. QED
  BY <1>7, <1>8, <1>9

LEMMA InvocationStepKeeps ==
  ASSUME ArchiveInv, NEW r \in RunId, WriteManifest(r) \/ Verify(r) \/ Revalidate(r)
  PROVE  ArchiveInv'
<1> USE DEF ArchiveInv
<1>1. /\ job.run = r /\ job.pc \in {"archive", "verify", "revalidate"}
      /\ UNCHANGED <<ledgerVars, run, refs, segs, lock, files, retained>>
      /\ manifest' = manifest \/ manifest' = [manifest EXCEPT ![r] = segs[r]]
  BY DEF WriteManifest, Verify, Revalidate
<1>2. PICK pc \in {"publish", "checked", "delete"} :
        /\ job' = [job EXCEPT !.pc = pc]
        /\ pc = "delete" => job.pc = "revalidate" /\ ArchiveIntact(r)
  BY DEF WriteManifest, Verify, Revalidate
<1>3. job \in JobRow
  BY <1>1 DEF RowsOK, Idle
<1>4. job' \in JobRow /\ job'.pc = pc /\ job'.run = r /\ job'.stage = job.stage /\ job'.intact = job.intact
  BY <1>1, <1>2, <1>3 DEF JobRow, Pc
<1>5. RowsOK'
  BY <1>1, <1>4 DEF RowsOK
<1>6. /\ StoreOK' /\ RefsOK' /\ SegmentsOK' /\ ProgressOK' /\ EarlyUnique' /\ ScopeNeverShrinks'
      /\ \A q \in RunId : run'[q].status \in Active <=> lock' = q
  BY <1>1, DatabaseStays
<1>7. OneStageAtATime' /\ InvocationOK'
  BY <1>1, <1>2, <1>4, <1>6 DEF OneStageAtATime, InvocationOK
<1>8. QED
  BY <1>5, <1>6, <1>7

LEMMA ReturnKeeps == ArchiveInv /\ Return => ArchiveInv'
<1> SUFFICES ASSUME ArchiveInv, Return PROVE ArchiveInv'
  OBVIOUS
<1> USE DEF ArchiveInv
<1>1. job' = Idle /\ UNCHANGED <<ledgerVars, run, refs, segs, lock, files, manifest, retained>>
  BY DEF Return
<1>2. /\ StoreOK' /\ RefsOK' /\ SegmentsOK' /\ ProgressOK' /\ EarlyUnique' /\ ScopeNeverShrinks'
      /\ \A q \in RunId : run'[q].status \in Active <=> lock' = q
  BY <1>1, DatabaseStays
<1>3. RowsOK' /\ OneStageAtATime' /\ InvocationOK'
  BY <1>1, <1>2 DEF RowsOK, OneStageAtATime, InvocationOK, Idle
<1>4. QED
  BY <1>2, <1>3

\* What is lost on disk was never a reason to take an archive for intact.
LEMMA DamageKeeps ==
  ASSUME ArchiveInv, NEW r \in RunId, DamageFile(r)
  PROVE  ArchiveInv'
<1> USE DEF ArchiveInv
<1>1. UNCHANGED <<ledgerVars, run, refs, segs, lock, job, retained>>
  BY DEF DamageFile
<1>2. /\ StoreOK' /\ RefsOK' /\ SegmentsOK' /\ ProgressOK' /\ EarlyUnique' /\ ScopeNeverShrinks'
      /\ \A q \in RunId : run'[q].status \in Active <=> lock' = q
  BY <1>1, DatabaseStays
<1>3. /\ files' \in [RunId -> SUBSET Segment] /\ \A q \in RunId : files'[q] \subseteq files[q]
      /\ manifest' \in [RunId -> Seq(Segment)]
      /\ \A q \in RunId : manifest'[q] = manifest[q] \/ manifest'[q] = <<>>
  <2>1. CASE \E f \in files[r] : files' = [files EXCEPT ![r] = @ \ {f}] /\ UNCHANGED manifest
    BY <2>1 DEF RowsOK
  <2>2. CASE manifest' = [manifest EXCEPT ![r] = <<>>] /\ UNCHANGED files
    <3>1. <<>> \in Seq(Segment)
      BY EmptySeq
    <3>2. QED
      BY <2>2, <3>1 DEF RowsOK
  <2>3. QED
    BY <2>1, <2>2 DEF DamageFile
<1>4. \A q \in RunId : ArchiveIntact(q)' => ArchiveIntact(q)
  BY <1>1, <1>3 DEF ArchiveIntact, FilesIntact, RowsOf, EventsOf
<1>5. job.pc = "revalidate" => job.run \in RunId
  BY DEF RowsOK, JobRow, Idle
<1>6. RowsOK' /\ OneStageAtATime' /\ InvocationOK'
  BY <1>1, <1>2, <1>3, <1>4, <1>5 DEF RowsOK, OneStageAtATime, InvocationOK
<1>7. QED
  BY <1>2, <1>6
-----------------------------------------------------------------------------
(* Scopes *)

\* What the scope of a run still holds.
Left(r) == {h \in Eligible(run[r].cutoff) : run[r].lastArchived < raw[h] /\ raw[h] <= run[r].target}

\* A step after which a run still finds the events it has to archive.
LEMMA ScopeStays ==
  ASSUME NEW q \in RunId, run \in [RunId -> RunRow], ScopeNeverShrinks, Early(q),
         run'[q] = run[q], Left(q) \subseteq Left(q)'
  PROVE  Cardinality(Left(q)') >= run'[q].count - run'[q].archived
<1>1. Left(q)' \subseteq Hash /\ Left(q) \subseteq Hash
  BY DEF Left, Eligible, Live
<1>2. IsFiniteSet(Left(q)')
  BY <1>1, FS_Subset, LedgerAssumption
<1>3. Cardinality(Left(q)) <= Cardinality(Left(q)')
  BY <1>2, FS_Subset
<1>4. Cardinality(Left(q)) \in Nat /\ Cardinality(Left(q)') \in Nat
  BY <1>1, SizeOfEvents
<1>5. Cardinality(Left(q)) >= run[q].count - run[q].archived
  BY DEF ScopeNeverShrinks, Left, Early, Failed
<1>6. run[q].count \in Nat /\ run[q].archived \in Nat
  BY DEF RunRow
<1>7. QED
  BY <1>3, <1>4, <1>5, <1>6

LEMMA ScopesKept ==
  ASSUME \A q \in RunId : Early(q)' => Cardinality(Left(q)') >= run'[q].count - run'[q].archived
  PROVE  ScopeNeverShrinks'
BY DEF ScopeNeverShrinks, Left, Early, Failed

\* Inserts and aggregation find every archive as it was.
LEMMA StoreRunsKeeps == ArchiveInv /\ StoreRuns => ArchiveInv'
<1> SUFFICES ASSUME ArchiveInv, StoreRuns PROVE ArchiveInv'
  OBVIOUS
<1> USE DEF ArchiveInv
<1>1. UNCHANGED <<run, refs, segs, lock, files, manifest, job, retained>>
  BY DEF StoreRuns, archiveVars
<1>2. LedgerInv'
  BY StepKeepsInv DEF StoreRuns, LedgerNext, StoreOK
<1>3. /\ agg'.status # "clearing"
      /\ \A h \in Hash :
           /\ raw[h] > 0 => raw'[h] = raw[h]
           /\ ledger'[h].known /\ raw'[h] = 0 <=> ledger[h].known /\ raw[h] = 0
           /\ ledger[h].known /\ raw[h] = 0 => counted'[h] = counted[h]
  BY StoreSteps DEF StoreRuns, StoreOK
<1>4. StoreOK'
  BY <1>2, <1>3 DEF StoreOK
<1>5. RefsOK'
  <2>1. \A q \in RunId : DeletionBegun(q)' <=> DeletionBegun(q)
    BY <1>1 DEF DeletionBegun, Failed
  <2>2. \A h \in Hash : refs[h].run # NoRun => refs[h].run \in RunId
    BY DEF RowsOK, RefRow
  <2>3. QED
    BY <1>1, <1>3, <2>1, <2>2 DEF RefsOK
<1>6. \A q : RefsOf(q)' = RefsOf(q) /\ EventsOf(q)' = EventsOf(q)
  BY <1>1 DEF RefsOf, EventsOf, RowsOf
<1>7. SegmentsOK' /\ ProgressOK' /\ EarlyUnique'
  BY <1>1, <1>6 DEF SegmentsOK, RunSegmentsOK, ProgressOK, RunProgressOK, EarlyUnique, Early, Late, DeletionBegun, Failed
<1>8. ScopeNeverShrinks'
  <2>1. ASSUME NEW q \in RunId, Early(q)'
        PROVE  Cardinality(Left(q)') >= run'[q].count - run'[q].archived
    <3>1. Early(q)
      BY <1>1, <2>1 DEF Early, Failed
    <3>2. Left(q) \subseteq Left(q)'
      BY <1>1, <1>3 DEF Left, Eligible, Live
    <3>3. QED
      BY <1>1, <3>1, <3>2, ScopeStays DEF RowsOK
  <2>2. QED
    BY <2>1, ScopesKept
<1>9. RowsOK' /\ OneStageAtATime' /\ InvocationOK'
  BY <1>1 DEF RowsOK, OneStageAtATime, InvocationOK, ArchiveIntact, FilesIntact, RowsOf, EventsOf
<1>10. QED
  BY <1>4, <1>5, <1>7, <1>8, <1>9

LEMMA NewRow ==
  ASSUME NEW mode, NEW cutoff, NEW target, NEW count, NEW row,
         row = [NewRun EXCEPT !.status = "previewed", !.mode = mode, !.cutoff = cutoff,
                              !.target = target, !.count = count]
  PROVE  row = [status |-> "previewed", resume |-> "absent", mode |-> mode, cutoff |-> cutoff,
                target |-> target, count |-> count, lastArchived |-> 0, archived |-> 0,
                lastDeleted |-> 0, deleted |-> 0, deleteStarted |-> FALSE]
BY DEF NewRun

\* A new run takes what no run has, while no other run has still to archive.
LEMMA CreateKeeps ==
  ASSUME ArchiveInv, NEW r \in RunId, NEW mode \in Mode, NEW cutoff \in Cutoffs, Create(r, mode, cutoff)
  PROVE  ArchiveInv'
<1> DEFINE scope == Eligible(cutoff)
<1> USE DEF ArchiveInv
<1>1. PICK last \in scope :
        /\ \A h \in scope : raw[h] <= raw[last]
        /\ run' = [run EXCEPT ![r] = [NewRun EXCEPT !.status = "previewed", !.mode = mode,
                                         !.cutoff = cutoff, !.target = raw[last],
                                         !.count = Cardinality(scope)]]
  BY DEF Create
<1>2. /\ job = Idle /\ run[r].status = "absent"
      /\ \A q \in RunId : ~BlocksCreation(q)
      /\ UNCHANGED <<ledgerVars, refs, segs, lock, files, manifest, job, retained>>
  BY DEF Create
<1>3. scope \in SUBSET Hash /\ Cardinality(scope) \in Nat /\ cutoff \in SUBSET Hash
  <2>1. scope \in SUBSET Hash
    BY DEF Eligible, Live
  <2>2. QED
    BY <2>1, SizeOfEvents, ArchiveAssumption
<1>4. raw \in [Hash -> Nat]
  BY DEF StoreOK, LedgerInv, LedgerTypeOK
<1>5. \A h \in scope : 0 < raw[h] /\ raw[h] <= raw[last]
  BY <1>1, <1>4 DEF Eligible, Live
<1> DEFINE row == [NewRun EXCEPT !.status = "previewed", !.mode = mode, !.cutoff = cutoff,
                                 !.target = raw[last], !.count = Cardinality(scope)]
<1>6. run' = [run EXCEPT ![r] = row]
  BY <1>1
<1>7. /\ row \in RunRow
      /\ row.status = "previewed" /\ row.resume = "absent" /\ ~row.deleteStarted /\ row.archived = 0
      /\ row.cutoff = cutoff /\ row.target = raw[last] /\ row.lastArchived = 0
      /\ row.count = Cardinality(scope)
  <2>1. row = [status |-> "previewed", resume |-> "absent", mode |-> mode, cutoff |-> cutoff,
               target |-> raw[last], count |-> Cardinality(scope), lastArchived |-> 0, archived |-> 0,
               lastDeleted |-> 0, deleted |-> 0, deleteStarted |-> FALSE]
    BY NewRow
  <2> HIDE DEF scope, row
  <2>2. raw[last] \in Nat
    BY <1>1, <1>3, <1>4
  <2>3. QED
    BY <1>3, <2>1, <2>2 DEF RunRow, Status, Active
<1>8. /\ run' \in [RunId -> RunRow] /\ \A q \in RunId \ {r} : run'[q] = run[q]
      /\ run'[r] = row
  <2> HIDE DEF row
  <2>1. QED
    BY <1>6, <1>7 DEF RowsOK
<1>9. /\ ~Late(r)' /\ ~DeletionBegun(r) /\ Early(r)'
      /\ run'[r].status = "previewed" /\ ~run'[r].deleteStarted /\ run'[r].archived = 0
      /\ run'[r].cutoff = cutoff /\ run'[r].target = raw[last] /\ run'[r].lastArchived = 0
      /\ run'[r].count = Cardinality(scope)
  <2> HIDE DEF row
  <2>1. QED
    BY <1>2, <1>7, <1>8 DEF Late, DeletionBegun, Early, Failed
<1>10. \A q \in RunId \ {r} : /\ ~Early(q)' /\ (Late(q)' <=> Late(q))
                              /\ (DeletionBegun(q)' <=> DeletionBegun(q))
  BY <1>2, <1>8 DEF Late, DeletionBegun, Early, Failed, BlocksCreation, ProgressOK, RunProgressOK
<1> HIDE DEF row, scope
<1>11. StoreOK'
  BY <1>2, LedgerStays DEF StoreOK, ledgerVars
<1>12. RefsOK'
  <2>1. \A h \in Hash : refs[h].run # NoRun => refs[h].run \in RunId
    BY DEF RowsOK, RefRow
  <2>2. QED
    BY <1>2, <1>9, <1>10, <2>1 DEF RefsOK, ledgerVars
<1>13. \A q : RefsOf(q)' = RefsOf(q) /\ EventsOf(q)' = EventsOf(q)
  BY <1>2 DEF RefsOf, EventsOf, RowsOf
<1>14. segs[r] = <<>> /\ EventsOf(r) = {} /\ RefsOf(r) = {}
  <2>1. segs[r] = <<>> /\ RefsOf(r) = EventsOf(r)
    BY <1>2 DEF SegmentsOK, RunSegmentsOK
  <2>2. EventsOf(r) = {}
    BY <2>1 DEF EventsOf, RowsOf
  <2>3. QED
    BY <2>1, <2>2
<1>15. SegmentsOK'
  BY <1>2, <1>8, <1>9, <1>13, <1>14 DEF SegmentsOK, RunSegmentsOK
<1>16. ProgressOK'
  <2>1. Cardinality({}) = 0
    BY FS_EmptySet
  <2>2. \A q \in RunId \ {r} : /\ Late(q)' <=> Late(q)
                               /\ DeletionBegun(q)' <=> DeletionBegun(q)
                               /\ run'[q] = run[q]
    BY <1>8, <1>10
  <2>3. refs' = refs
    BY <1>2
  <2>4. ASSUME NEW q \in RunId, q # r
        PROVE  RunProgressOK(q)'
    <3>1. /\ Late(q)' <=> Late(q)
          /\ DeletionBegun(q)' <=> DeletionBegun(q)
          /\ run'[q] = run[q] /\ RefsOf(q)' = RefsOf(q)
      BY <1>13, <2>2, <2>4
    <3>2. QED
      BY <2>3, <3>1 DEF ProgressOK, RunProgressOK
  <2>5. RefsOf(r)' = {}
    BY <1>13, <1>14
  <2>6. QED
    BY <1>9, <2>1, <2>4, <2>5 DEF ProgressOK, RunProgressOK
<1>17. EarlyUnique'
  BY <1>10 DEF EarlyUnique
<1>18. ScopeNeverShrinks'
  <2>1. Left(r)' = scope
    BY <1>2, <1>5, <1>9 DEF Left, Eligible, Live, ledgerVars, scope
  <2>2. Cardinality(Left(r)') >= run'[r].count - run'[r].archived
    BY <1>3, <1>9, <2>1
  <2>3. QED
    BY <1>10, <2>2, ScopesKept
<1>19. RowsOK' /\ OneStageAtATime' /\ InvocationOK'
  <2>1. RowsOK'
    BY <1>2, <1>8 DEF RowsOK
  <2>2. OneStageAtATime'
    BY <1>2, <1>8, <1>9 DEF OneStageAtATime, Active, Idle
  <2>3. InvocationOK'
    BY <1>2 DEF InvocationOK, Idle
  <2>4. QED
    BY <2>1, <2>2, <2>3
<1>20. QED
  BY <1>11, <1>12, <1>15, <1>16, <1>17, <1>18, <1>19
-----------------------------------------------------------------------------
(* Steps that move events *)

\* The next segment's events become the run's, and nobody else's.
LEMMA RecordSegmentKeeps ==
  ASSUME ArchiveInv, NEW r \in RunId, RecordSegment(r)
  PROVE  ArchiveInv'
<1> DEFINE batch == job.batch
           new == SegmentOf(r, batch)
           next == {h \in Eligible(run[r].cutoff) :
                      run[r].lastArchived < raw[h] /\ raw[h] <= run[r].target /\ raw[h] <= new.last}
           n == Len(segs[r])
<1> USE DEF ArchiveInv
<1>1. /\ job.pc = "record" /\ job.run = r /\ run[r].status = "archiving" /\ next = batch
      /\ AttachRaw(batch)
      /\ refs' = [h \in Hash |-> IF h \in batch
                                 THEN [run |-> r, rawId |-> raw[h], deleted |-> FALSE]
                                 ELSE refs[h]]
      /\ segs' = [segs EXCEPT ![r] = Append(@, new)]
      /\ run' = [run EXCEPT ![r].lastArchived = new.last, ![r].archived = @ + Cardinality(new.events)]
      /\ job' = [job EXCEPT !.pc = "archive", !.batch = {}]
      /\ UNCHANGED <<lock, files, manifest, retained>>
  BY DEF RecordSegment, Progress
<1>2. batch \in SUBSET Live /\ batch # {}
  <2>1. batch # {}
    BY <1>1 DEF InvocationOK
  <2>2. next \subseteq Live
    BY DEF Eligible
  <2>3. QED
    BY <1>1, <2>1, <2>2
<1>3. \A h \in batch : h \in Hash /\ refs[h].run = NoRun /\ raw[h] > 0
  <2>1. \A h \in next : h \in Hash /\ refs[h].run = NoRun /\ raw[h] > 0
    BY DEF Eligible, Live
  <2>2. QED
    BY <1>1, <2>1
<1>4. /\ new \in Segment /\ new.seq = n + 1 /\ new.events = batch /\ n \in Nat
      /\ DOMAIN segs[r] = 1 .. n /\ segs[r] \in Seq(Segment)
      /\ \A i \in 1 .. n : segs[r][i] \in Segment
  <2>1. segs[r] \in Seq(Segment) /\ n \in Nat /\ DOMAIN segs[r] = 1 .. n
    BY LenProperties DEF RowsOK
  <2> DEFINE ids == {raw[h] : h \in batch}
             first == CHOOSE i \in ids : \A j \in ids : i <= j
             last == CHOOSE i \in ids : \A j \in ids : j <= i
  <2>2. first \in Nat /\ last \in Nat
    BY <1>2, BatchIds DEF StoreOK
  <2>3. new = [seq |-> n + 1, first |-> first, last |-> last, events |-> batch]
    BY DEF SegmentOf
  <2> HIDE DEF first, last, new, n, batch
  <2>4. batch \subseteq Hash
    BY <1>2 DEF Live
  <2>5. new \in Segment /\ new.seq = n + 1 /\ new.events = batch
    BY <2>1, <2>2, <2>3, <2>4 DEF Segment
  <2>6. \A i \in 1 .. n : segs[r][i] \in Segment
    BY <2>1, ElementOfSeq DEF n
  <2>7. QED
    BY <2>1, <2>5, <2>6
<1> HIDE DEF new, n, batch, next
<1>5. Cardinality(batch) \in Nat
  BY <1>2, SizeOfEvents DEF Live
<1>6. /\ run' \in [RunId -> RunRow]
      /\ \A q \in RunId \ {r} : run'[q] = run[q]
      /\ \A q \in RunId : /\ run'[q].status = run[q].status /\ run'[q].resume = run[q].resume
                          /\ run'[q].deleteStarted = run[q].deleteStarted
      /\ run'[r].cutoff = run[r].cutoff /\ run'[r].target = run[r].target
      /\ run'[r].count = run[r].count
      /\ run'[r].archived = run[r].archived + Cardinality(batch)
      /\ run'[r].lastArchived = new.last
  <2>1. run[r] \in RunRow /\ new.last \in Nat
    BY <1>4 DEF RowsOK, Segment
  <2> DEFINE row == [run[r] EXCEPT !.lastArchived = new.last, !.archived = @ + Cardinality(batch)]
  <2>2. run[r].archived + Cardinality(batch) \in Nat
    BY <1>5, <2>1 DEF RunRow
  <2>3. /\ row \in RunRow
        /\ row.status = run[r].status /\ row.resume = run[r].resume
        /\ row.deleteStarted = run[r].deleteStarted
        /\ row.cutoff = run[r].cutoff /\ row.target = run[r].target /\ row.count = run[r].count
        /\ row.archived = run[r].archived + Cardinality(batch)
        /\ row.lastArchived = new.last
    BY <2>1, <2>2 DEF RunRow
  <2>4. run' = [run EXCEPT ![r] = row]
    BY <1>1, <1>4 DEF RowsOK
  <2> HIDE DEF row
  <2>5. QED
    BY <2>3, <2>4 DEF RowsOK
<1>7. \A q \in RunId : /\ Early(q)' <=> Early(q)
                       /\ Late(q)' <=> Late(q)
                       /\ DeletionBegun(q)' <=> DeletionBegun(q)
  BY <1>6 DEF Early, Late, DeletionBegun, Failed
<1>8. UNCHANGED <<raw, counted, agg>> /\ \A h \in Hash \ batch : ledger'[h] = ledger[h]
  BY <1>1 DEF AttachRaw, StoreOK, LedgerInv, LedgerTypeOK
<1>9. StoreOK'
  <2>1. batch \in SUBSET Hash
    BY <1>2 DEF Live
  <2>2. LedgerInv'
    BY <1>1, <2>1, AttachKeepsInv DEF StoreOK
  <2>3. QED
    BY <1>3, <1>8, <2>2 DEF StoreOK
<1>10. RefsOK'
  <2>1. \A h \in Hash : refs[h].run # NoRun => refs[h].run \in RunId
    BY DEF RowsOK, RefRow
  <2>2. ASSUME NEW h \in Hash, h \in batch
        PROVE  refs'[h].run = r /\ ~refs'[h].deleted /\ refs'[h].rawId = raw[h] /\ raw'[h] > 0
    BY <1>1, <1>3, <1>8, <2>2
  <2>3. \A h \in Hash \ batch : refs'[h] = refs[h]
    BY <1>1
  <2>4. QED
    BY <1>1, <1>7, <1>8, <2>1, <2>2, <2>3 DEF RefsOK
<1>11. /\ RefsOf(r)' = RefsOf(r) \cup batch /\ RefsOf(r) \cap batch = {}
       /\ \A q \in RunId \ {r} : RefsOf(q)' = RefsOf(q)
  <2>1. \A h \in Hash : refs'[h].run = IF h \in batch THEN r ELSE refs[h].run
    BY <1>1
  <2>2. QED
    BY <1>3, <2>1, ArchiveAssumption DEF RefsOf
<1>12. /\ segs' \in [RunId -> Seq(Segment)]
       /\ \A q \in RunId \ {r} : segs'[q] = segs[q]
       /\ DOMAIN segs'[r] = 1 .. n + 1
       /\ \A i \in 1 .. n : segs'[r][i] = segs[r][i]
       /\ segs'[r][n + 1] = new
  <2> DEFINE longer == Append(segs[r], new)
  <2>1. /\ longer \in Seq(Segment) /\ Len(longer) = n + 1
        /\ \A i \in 1 .. n : longer[i] = segs[r][i]
        /\ longer[n + 1] = new
    BY <1>4, AppendProperties DEF n
  <2>2. segs' = [segs EXCEPT ![r] = longer]
    BY <1>1 DEF RowsOK
  <2> HIDE DEF longer
  <2>3. DOMAIN longer = 1 .. n + 1
    BY <2>1, LenProperties
  <2>4. QED
    BY <2>1, <2>2, <2>3 DEF RowsOK
<1>13. EventsOf(r)' = EventsOf(r) \cup batch
  <2>1. \A h : h \in EventsOf(r)' <=> \E i \in 1 .. n + 1 : h \in segs'[r][i].events
    BY <1>12 DEF EventsOf, RowsOf
  <2>2. \A h : h \in EventsOf(r) <=> \E i \in 1 .. n : h \in segs[r][i].events
    BY <1>4 DEF EventsOf, RowsOf
  <2>3. 1 .. n + 1 = (1 .. n) \cup {n + 1}
    BY <1>4
  <2>4. \A h : h \in EventsOf(r)' <=> h \in EventsOf(r) \/ h \in batch
    BY <1>4, <1>12, <2>1, <2>2, <2>3
  <2>5. QED
    BY <2>4
<1>14. RefsOf(r) = EventsOf(r)
  BY <1>1 DEF SegmentsOK, RunSegmentsOK
<1>15. SegmentsOK'
  <2>1. ASSUME NEW q \in RunId, q # r
        PROVE  RunSegmentsOK(q)'
    <3>1. segs'[q] = segs[q] /\ run'[q] = run[q] /\ RefsOf(q)' = RefsOf(q)
      BY <1>6, <1>11, <1>12, <2>1
    <3>2. EventsOf(q)' = EventsOf(q)
      BY <3>1 DEF EventsOf, RowsOf
    <3>3. QED
      BY <3>1, <3>2 DEF SegmentsOK, RunSegmentsOK
  <2>2. \A i \in DOMAIN segs'[r] : segs'[r][i].seq = i
    <3>1. \A i \in 1 .. n : segs[r][i].seq = i
      BY <1>4 DEF SegmentsOK, RunSegmentsOK
    <3>2. QED
      BY <1>4, <1>12, <3>1
  <2>3. ASSUME NEW i \in DOMAIN segs'[r], NEW j \in DOMAIN segs'[r],
               segs'[r][i].events \cap segs'[r][j].events # {}
        PROVE  i = j
    <3>1. \A k \in 1 .. n : segs[r][k].events \cap batch = {}
      <4>1. \A k \in 1 .. n : segs[r][k].events \subseteq EventsOf(r)
        BY <1>4 DEF EventsOf, RowsOf
      <4>2. QED
        BY <1>11, <1>14, <4>1
    <3>2. CASE i \in 1 .. n /\ j \in 1 .. n
      <4>1. i \in DOMAIN segs[r] /\ j \in DOMAIN segs[r]
        BY <1>4, <3>2
      <4>2. segs[r][i].events \cap segs[r][j].events # {}
        BY <1>12, <2>3, <3>2
      <4>3. QED
        BY <4>1, <4>2 DEF SegmentsOK, RunSegmentsOK
    <3>3. CASE i = n + 1 /\ j \in 1 .. n
      BY <1>4, <1>12, <2>3, <3>1, <3>3
    <3>4. CASE i \in 1 .. n /\ j = n + 1
      BY <1>4, <1>12, <2>3, <3>1, <3>4
    <3>5. QED
      BY <1>4, <1>12, <3>2, <3>3, <3>4
  <2>4. run'[r].status = "archiving" /\ RefsOf(r)' = EventsOf(r)'
    BY <1>1, <1>6, <1>11, <1>13, <1>14
  <2>5. QED
    BY <2>1, <2>2, <2>3, <2>4 DEF SegmentsOK, RunSegmentsOK
<1>16. ProgressOK'
  <2>1. ASSUME NEW q \in RunId, q # r
        PROVE  RunProgressOK(q)'
    <3>1. /\ run'[q] = run[q] /\ RefsOf(q)' = RefsOf(q)
          /\ Late(q)' <=> Late(q)
          /\ DeletionBegun(q)' <=> DeletionBegun(q)
      BY <1>6, <1>7, <1>11, <2>1
    <3>2. \A h \in RefsOf(q) : refs'[h] = refs[h]
      BY <1>1, <1>3, ArchiveAssumption DEF RefsOf
    <3>3. QED
      BY <3>1, <3>2 DEF ProgressOK, RunProgressOK
  <2>2. run'[r].archived = Cardinality(RefsOf(r)')
    <3>1. RefsOf(r) \in SUBSET Hash /\ batch \in SUBSET Hash
      BY <1>2 DEF RefsOf, Live
    <3>2. IsFiniteSet(RefsOf(r)) /\ IsFiniteSet(batch)
      BY <3>1, FS_Subset, LedgerAssumption
    <3>3. Cardinality(RefsOf(r) \cap batch) = 0
      BY <1>11, FS_EmptySet
    <3>4. Cardinality(RefsOf(r) \cup batch) = Cardinality(RefsOf(r)) + Cardinality(batch)
                                                - Cardinality(RefsOf(r) \cap batch)
      BY <3>2, FS_Union
    <3>5. Cardinality(RefsOf(r)) \in Nat
      BY <3>1, SizeOfEvents
    <3>6. run[r].archived = Cardinality(RefsOf(r))
      BY <1>1 DEF ProgressOK, RunProgressOK
    <3>7. QED
      BY <1>5, <1>6, <1>11, <3>3, <3>4, <3>5, <3>6
  <2>3. run'[r].status = "archiving" /\ ~Late(r)' /\ ~run'[r].deleteStarted
    BY <1>1, <1>6 DEF Late, Failed, ProgressOK, RunProgressOK, DeletionBegun
  <2>4. QED
    BY <2>1, <2>2, <2>3 DEF ProgressOK, RunProgressOK
<1>17. EarlyUnique'
  BY <1>7 DEF EarlyUnique
<1>18. ScopeNeverShrinks'
  <2>1. Early(r)
    BY <1>1 DEF Early
  <2>2. \A q \in RunId : Early(q)' => q = r
    BY <1>7, <2>1 DEF EarlyUnique
  <2>3. Left(r) \ batch \subseteq Left(r)'
    <3>1. /\ raw \in [Hash -> Nat] /\ run[r].target \in Nat /\ run[r].lastArchived \in Nat
          /\ new.last \in Nat
      BY <1>4 DEF StoreOK, LedgerInv, LedgerTypeOK, RowsOK, RunRow, Segment
    <3>2. \A h \in Left(r) : raw[h] <= new.last => h \in batch
      BY <1>1 DEF Left, next
    <3>3. \A h \in Hash \ batch : refs'[h] = refs[h]
      BY <1>1
    <3>4. QED
      BY <1>6, <1>8, <3>1, <3>2, <3>3 DEF Left, Eligible, Live
  <2>4. /\ Left(r) \in SUBSET Hash /\ Left(r)' \in SUBSET Hash
        /\ IsFiniteSet(Left(r)) /\ IsFiniteSet(Left(r)') /\ IsFiniteSet(batch)
    <3>1. /\ Left(r) \in SUBSET Hash /\ Left(r)' \in SUBSET Hash /\ batch \in SUBSET Hash
      BY <1>2 DEF Left, Eligible, Live
    <3>2. QED
      BY <3>1, FS_Subset, LedgerAssumption
  <2>5. /\ Cardinality(Left(r) \ batch) <= Cardinality(Left(r)')
        /\ Cardinality(Left(r) \ batch) = Cardinality(Left(r)) - Cardinality(Left(r) \cap batch)
        /\ Cardinality(Left(r) \cap batch) <= Cardinality(batch)
    <3>1. Left(r) \cap batch \in SUBSET batch /\ Left(r) \ batch \in SUBSET Left(r)'
      BY <2>3
    <3>2. QED
      BY <2>4, <3>1, FS_Subset, FS_Difference
  <2>6. /\ Cardinality(Left(r)) \in Nat /\ Cardinality(Left(r)') \in Nat
        /\ Cardinality(Left(r) \cap batch) \in Nat
    BY <2>4, SizeOfEvents
  <2>7. Cardinality(Left(r)) >= run[r].count - run[r].archived
    BY <2>1 DEF ScopeNeverShrinks, Left, Early, Failed
  <2>8. run[r].count \in Nat /\ run[r].archived \in Nat
    BY DEF RowsOK, RunRow
  <2>9. Cardinality(Left(r)') >= run'[r].count - run'[r].archived
    BY <1>5, <1>6, <2>5, <2>6, <2>7, <2>8
  <2>10. QED
    BY <2>2, <2>9, ScopesKept
<1>19. RowsOK' /\ OneStageAtATime' /\ InvocationOK'
  <2>1. job \in JobRow
    BY <1>1 DEF RowsOK, Idle
  <2>2. job' \in JobRow /\ job'.pc = "archive" /\ job'.run = r /\ job'.stage = job.stage
    BY <1>1, <2>1 DEF JobRow, Pc
  <2>3. refs' \in [Hash -> RefRow]
    <3>1. ASSUME NEW h \in Hash PROVE refs'[h] \in RefRow
      <4>1. CASE h \in batch
        BY <1>1, <4>1 DEF RefRow, StoreOK, LedgerInv, LedgerTypeOK
      <4>2. CASE h \notin batch
        BY <1>1, <4>2 DEF RowsOK
      <4>3. QED
        BY <4>1, <4>2
    <3>2. QED
      BY <1>1, <3>1
  <2>4. RowsOK'
    BY <1>1, <1>6, <1>12, <2>2, <2>3 DEF RowsOK
  <2>5. OneStageAtATime'
    BY <1>1, <1>6, <2>2 DEF OneStageAtATime
  <2>6. InvocationOK'
    BY <2>2 DEF InvocationOK
  <2>7. QED
    BY <2>4, <2>5, <2>6
<1>20. QED
  BY <1>9, <1>10, <1>15, <1>16, <1>17, <1>18, <1>19

\* Deleted rows were in the aggregate and stay in the archive.
LEMMA DeleteBatchKeeps ==
  ASSUME ArchiveInv, NEW r \in RunId, DeleteBatch(r)
  PROVE  ArchiveInv'
<1> DEFINE batch == FirstRows(Deletable(r), DeleteLimit)
           remaining == {h \in RefsOf(r) \ batch : ~refs[h].deleted}
           deleted == run[r].deleted + Cardinality(batch)
           last == {raw[h] : h \in batch} \cup {run[r].lastDeleted}
           status == IF remaining = {} THEN "completed" ELSE "deleting"
<1> USE DEF ArchiveInv
<1>1. /\ job.pc = "delete" /\ job.run = r /\ run[r].status = "deleting"
      /\ DeleteRaw(batch) /\ retained' = retained \cup batch
      /\ refs' = [h \in Hash |-> IF h \in batch
                                 THEN [refs[h] EXCEPT !.deleted = TRUE]
                                 ELSE refs[h]]
      /\ lock' = IF remaining = {} /\ lock = r THEN NoRun ELSE lock
      /\ job' = IF remaining = {} THEN [job EXCEPT !.pc = "committed"] ELSE job
      /\ UNCHANGED <<segs, files, manifest>>
  BY DEF DeleteBatch, RepairProjection, ReleaseLock
<1>2. PICK i \in last :
        run' = [run EXCEPT ![r].lastDeleted = i, ![r].deleted = deleted,
                           ![r].status = IF remaining = {} THEN "completed" ELSE @]
  BY DEF DeleteBatch
<1>3. /\ batch \in SUBSET Hash
      /\ \A h \in batch : /\ refs[h].run = r /\ ~refs[h].deleted /\ refs[h].rawId = raw[h] /\ raw[h] > 0
                          /\ Aggregated(h) /\ ledger[h].known
  BY DEF FirstRows, Deletable, RefsOf, Live, Aggregated
<1>4. Cardinality(batch) \in Nat /\ last \subseteq Nat
  <2>1. Cardinality(batch) \in Nat
    BY <1>3, SizeOfEvents
  <2>2. run[r].lastDeleted \in Nat /\ raw \in [Hash -> Nat]
    BY DEF RowsOK, RunRow, StoreOK, LedgerInv, LedgerTypeOK
  <2>3. \A h \in batch : raw[h] \in Nat
    BY <1>3, <2>2
  <2>4. QED
    BY <2>1, <2>2, <2>3
<1>5. /\ run' \in [RunId -> RunRow]
      /\ \A q \in RunId \ {r} : run'[q] = run[q]
      /\ run'[r].cutoff = run[r].cutoff /\ run'[r].target = run[r].target
      /\ run'[r].count = run[r].count /\ run'[r].archived = run[r].archived
      /\ run'[r].lastArchived = run[r].lastArchived
      /\ run'[r].status = status
      /\ run'[r].deleteStarted = run[r].deleteStarted
  <2>1. run[r] \in RunRow
    BY DEF RowsOK
  <2>2. deleted \in Nat /\ i \in Nat
    BY <1>2, <1>4, <2>1 DEF RunRow
  <2> DEFINE row == [run[r] EXCEPT !.lastDeleted = i, !.deleted = deleted, !.status = status]
  <2>3. run' = [run EXCEPT ![r] = row]
    BY <1>1, <1>2 DEF RowsOK
  <2>4. status \in Status
    BY DEF Status, Active
  <2> HIDE DEF deleted, status
  <2>5. /\ row \in RunRow
        /\ row.cutoff = run[r].cutoff /\ row.target = run[r].target
        /\ row.count = run[r].count /\ row.archived = run[r].archived
        /\ row.lastArchived = run[r].lastArchived /\ row.status = status
        /\ row.deleteStarted = run[r].deleteStarted
    BY <2>1, <2>2, <2>4 DEF RunRow
  <2> HIDE DEF row
  <2>6. QED
    BY <2>3, <2>5 DEF RowsOK
<1>6. remaining = {} => \A h \in RefsOf(r) : refs[h].deleted \/ h \in batch
  OBVIOUS
<1> HIDE DEF batch, remaining, deleted, last
<1>7. \A q \in RunId : /\ Early(q)' <=> Early(q)
                       /\ Late(q)' <=> Late(q)
                       /\ DeletionBegun(q)' <=> DeletionBegun(q)
  BY <1>1, <1>5 DEF Early, Late, DeletionBegun, Failed
<1>8. /\ agg' = agg /\ counted' = counted
      /\ \A h \in batch : raw'[h] = 0 /\ ledger'[h].known
      /\ \A h \in Hash \ batch : raw'[h] = raw[h] /\ ledger'[h] = ledger[h]
  BY <1>1, <1>3 DEF DeleteRaw, StoreOK, LedgerInv, LedgerTypeOK, LedgerRow
<1>9. StoreOK'
  <2>1. LedgerInv'
    BY <1>1, <1>3, DeleteKeepsInv DEF StoreOK
  <2>2. \A h \in batch : counted[h] = 1
    BY <1>3 DEF StoreOK, LedgerInv, CountedMatches
  <2>3. QED
    BY <1>8, <2>1, <2>2 DEF StoreOK
<1>10. /\ refs' \in [Hash -> RefRow]
       /\ \A h \in batch : refs'[h].run = r /\ refs'[h].deleted
       /\ \A h \in Hash \ batch : refs'[h] = refs[h]
  <2>1. ASSUME NEW h \in Hash, h \in batch
        PROVE  refs'[h] \in RefRow /\ refs'[h].run = r /\ refs'[h].deleted
    <3>1. refs[h] \in RefRow
      BY DEF RowsOK
    <3>2. refs'[h] = [refs[h] EXCEPT !.deleted = TRUE]
      BY <1>1, <2>1
    <3>3. refs'[h] \in RefRow /\ refs'[h].run = refs[h].run /\ refs'[h].deleted = TRUE
      BY <3>1, <3>2 DEF RefRow
    <3>4. QED
      BY <1>3, <2>1, <3>3
  <2>2. \A h \in Hash \ batch : refs'[h] = refs[h] /\ refs[h] \in RefRow
    BY <1>1 DEF RowsOK
  <2>3. QED
    BY <1>1, <1>3, <2>1, <2>2
<1>11. RefsOK'
  <2>1. \A h \in Hash : refs[h].run # NoRun => refs[h].run \in RunId
    BY DEF RowsOK, RefRow
  <2>2. DeletionBegun(r)' /\ r # NoRun
    BY <1>1, <1>7, ArchiveAssumption DEF DeletionBegun
  <2>3. QED
    BY <1>1, <1>7, <1>8, <1>10, <2>1, <2>2 DEF RefsOK
<1>12. \A q \in RunId : RefsOf(q)' = RefsOf(q) /\ EventsOf(q)' = EventsOf(q)
  <2>1. \A h \in Hash : refs'[h].run = refs[h].run
    BY <1>3, <1>10
  <2>2. QED
    BY <1>1, <2>1 DEF RefsOf, EventsOf, RowsOf
<1>13. SegmentsOK'
  <2>1. segs' = segs
    BY <1>1
  <2>2. \A q \in RunId : \/ run'[q].status = run[q].status
                         \/ q = r /\ run[q].status = "deleting" /\ run'[q].status = "completed"
    BY <1>1, <1>5
  <2>3. QED
    BY <1>12, <2>1, <2>2 DEF SegmentsOK, RunSegmentsOK
<1>14. ProgressOK'
  <2>1. ASSUME NEW q \in RunId, q # r
        PROVE  RunProgressOK(q)'
    <3>1. /\ run'[q] = run[q] /\ RefsOf(q)' = RefsOf(q)
          /\ Late(q)' <=> Late(q)
          /\ DeletionBegun(q)' <=> DeletionBegun(q)
      BY <1>5, <1>7, <1>12, <2>1
    <3>2. \A h \in RefsOf(q) : refs[h].deleted => refs'[h].deleted
      BY <1>10 DEF RefsOf
    <3>3. QED
      BY <3>1, <3>2 DEF ProgressOK, RunProgressOK
  <2>2. /\ run'[r].archived = Cardinality(RefsOf(r)')
        /\ run'[r].archived = run'[r].count /\ run'[r].lastArchived = run'[r].target
    <3>1. Late(r) /\ run[r].status # "cancelled"
      BY <1>1 DEF Late
    <3>2. QED
      BY <1>5, <1>12, <3>1 DEF ProgressOK, RunProgressOK
  <2>3. run'[r].status = "completed" => \A h \in RefsOf(r)' : refs'[h].deleted
    <3>1. run'[r].status = "completed" => remaining = {}
      BY <1>5
    <3>2. \A h \in RefsOf(r) : refs[h].deleted \/ h \in batch => refs'[h].deleted
      BY <1>10 DEF RefsOf
    <3>3. QED
      BY <1>6, <1>12, <3>1, <3>2
  <2>4. run'[r].status # "failed" /\ DeletionBegun(r)'
    BY <1>1, <1>5, <1>7 DEF DeletionBegun
  <2>5. QED
    BY <2>1, <2>2, <2>3, <2>4 DEF ProgressOK, RunProgressOK
<1>15. EarlyUnique'
  BY <1>7 DEF EarlyUnique
<1>16. ScopeNeverShrinks'
  <2>1. ASSUME NEW q \in RunId, Early(q)'
        PROVE  Cardinality(Left(q)') >= run'[q].count - run'[q].archived
    <3>1. Early(q) /\ q # r
      BY <1>1, <1>7, <2>1 DEF Early, Failed
    <3>2. run'[q] = run[q]
      BY <1>5, <3>1
    <3>3. Left(q) \subseteq Left(q)'
      <4>1. \A h \in Left(q) : h \in Hash \ batch
        BY <1>3, ArchiveAssumption DEF Left, Eligible, Live
      <4>2. QED
        BY <1>8, <1>10, <3>2, <4>1 DEF Left, Eligible, Live
    <3>4. QED
      BY <3>1, <3>2, <3>3, ScopeStays DEF RowsOK
  <2>2. QED
    BY <2>1, ScopesKept
<1>17. RowsOK' /\ OneStageAtATime' /\ InvocationOK'
  <2>1. job \in JobRow
    BY <1>1 DEF RowsOK, Idle
  <2>2. /\ job' \in JobRow /\ job'.run = r /\ job'.stage = job.stage /\ job'.intact = job.intact
        /\ job'.pc = IF remaining = {} THEN "committed" ELSE "delete"
    BY <1>1, <2>1 DEF JobRow, Pc
  <2>3. RowsOK'
    BY <1>1, <1>3, <1>5, <1>10, <2>2 DEF RowsOK
  <2>4. OneStageAtATime'
    <3>1. lock = r
      BY <1>1 DEF OneStageAtATime, Active
    <3>2. \A q \in RunId \ {r} : run[q].status \notin Active
      BY <3>1 DEF OneStageAtATime
    <3>3. QED
      BY <1>1, <1>5, <2>2, <3>1, <3>2, ArchiveAssumption DEF OneStageAtATime, Active
  <2>5. InvocationOK'
    BY <1>1, <2>2 DEF InvocationOK
  <2>6. QED
    BY <2>3, <2>4, <2>5
<1>18. QED
  BY <1>9, <1>11, <1>13, <1>14, <1>15, <1>16, <1>17

\* A cancelled run gives its events back.
LEMMA CancelKeeps ==
  ASSUME ArchiveInv, NEW r \in RunId, Cancel(r)
  PROVE  ArchiveInv'
<1> USE DEF ArchiveInv
<1>1. /\ job = Idle /\ run[r].status \in {"previewed", "failed"} /\ ~run[r].deleteStarted
      /\ ~(run[r].status = "failed" /\ run[r].resume = "deleting")
      /\ run' = [run EXCEPT ![r].status = "cancelled", ![r].resume = "absent"]
      /\ lock' = IF lock = r THEN NoRun ELSE lock
      /\ UNCHANGED <<ledgerVars, segs, files, manifest, job, retained>>
  BY DEF Cancel, ReleaseLock
<1>2. /\ refs' = [h \in Hash |-> IF h \in RefsOf(r) THEN NoRef ELSE refs[h]]
      /\ \A h \in RefsOf(r) : ~refs[h].deleted
  <2>1. CASE run[r].status = "failed"
    <3>1. run[r].resume \in {"archiving", "verifying"}
      BY <1>1, <2>1 DEF ProgressOK, RunProgressOK, Active
    <3>2. QED
      BY <2>1, <3>1 DEF Cancel
  <2>2. CASE run[r].status = "previewed"
    <3>1. segs[r] = <<>> /\ RefsOf(r) = EventsOf(r)
      BY <2>2 DEF SegmentsOK, RunSegmentsOK
    <3>2. RefsOf(r) = {}
      BY <3>1 DEF EventsOf, RowsOf
    <3>3. refs' = [h \in Hash |-> refs[h]]
      BY <2>2 DEF Cancel
    <3>4. QED
      BY <3>2, <3>3
  <2>3. QED
    BY <1>1, <2>1, <2>2
<1>3. /\ run' \in [RunId -> RunRow]
      /\ \A q \in RunId \ {r} : run'[q] = run[q]
      /\ run'[r].status = "cancelled" /\ run'[r].deleteStarted = run[r].deleteStarted
  <2>1. run[r] \in RunRow
    BY DEF RowsOK
  <2> DEFINE row == [run[r] EXCEPT !.status = "cancelled", !.resume = "absent"]
  <2>2. run' = [run EXCEPT ![r] = row]
    BY <1>1 DEF RowsOK
  <2>3. row \in RunRow /\ row.status = "cancelled" /\ row.deleteStarted = run[r].deleteStarted
    BY <2>1 DEF RunRow, Status, Active
  <2> HIDE DEF row
  <2>4. QED
    BY <2>2, <2>3 DEF RowsOK
<1>4. /\ ~Early(r)' /\ ~Late(r)' /\ ~DeletionBegun(r)
      /\ \A q \in RunId \ {r} : /\ Early(q)' <=> Early(q)
                                /\ Late(q)' <=> Late(q)
                                /\ DeletionBegun(q)' <=> DeletionBegun(q)
  BY <1>1, <1>3 DEF Early, Late, DeletionBegun, Failed
<1>5. /\ \A h \in Hash : refs[h].run = r => refs'[h] = NoRef
      /\ \A h \in Hash : refs[h].run # r => refs'[h] = refs[h]
  BY <1>2 DEF RefsOf
<1>6. StoreOK'
  BY <1>1, LedgerStays DEF StoreOK, ledgerVars
<1>7. NoRef.run = NoRun /\ ~NoRef.deleted /\ NoRef \in RefRow
  BY DEF NoRef, RefRow
<1>8. RefsOK'
  <2>1. \A h \in Hash : refs[h].run # NoRun => refs[h].run \in RunId
    BY DEF RowsOK, RefRow
  <2>2. ASSUME NEW h \in Hash, refs[h].run = r
        PROVE  refs'[h].run = NoRun /\ ~refs'[h].deleted /\ ~(ledger[h].known /\ raw[h] = 0)
    <3>1. ~refs[h].deleted
      BY <1>2, <2>2 DEF RefsOf
    <3>2. QED
      BY <1>5, <1>7, <2>2, <3>1 DEF RefsOK
  <2>3. UNCHANGED <<raw, ledger, retained>>
    BY <1>1 DEF ledgerVars
  <2>4. QED
    BY <1>4, <1>5, <2>1, <2>2, <2>3 DEF RefsOK
<1>9. /\ RefsOf(r)' = {}
      /\ \A q \in RunId \ {r} : RefsOf(q)' = RefsOf(q)
      /\ \A q \in RunId \ {r} : \A h \in RefsOf(q) : refs'[h] = refs[h]
  BY <1>5, <1>7, ArchiveAssumption DEF RefsOf
<1>10. SegmentsOK'
  <2>1. segs' = segs /\ \A q : EventsOf(q)' = EventsOf(q)
    BY <1>1 DEF EventsOf, RowsOf
  <2>2. QED
    BY <1>3, <1>9, <2>1 DEF SegmentsOK, RunSegmentsOK
<1>11. ProgressOK'
  <2>1. ASSUME NEW q \in RunId, q # r
        PROVE  RunProgressOK(q)'
    <3>1. /\ run'[q] = run[q] /\ RefsOf(q)' = RefsOf(q)
          /\ Late(q)' <=> Late(q)
          /\ DeletionBegun(q)' <=> DeletionBegun(q)
          /\ \A h \in RefsOf(q) : refs'[h] = refs[h]
      BY <1>3, <1>4, <1>9, <2>1
    <3>2. QED
      BY <3>1 DEF ProgressOK, RunProgressOK
  <2>2. QED
    BY <1>1, <1>3, <1>4, <2>1 DEF ProgressOK, RunProgressOK
<1>12. EarlyUnique'
  BY <1>4 DEF EarlyUnique
<1>13. ScopeNeverShrinks'
  <2>1. ASSUME NEW q \in RunId, Early(q)'
        PROVE  Cardinality(Left(q)') >= run'[q].count - run'[q].archived
    <3>1. Early(q) /\ run'[q] = run[q]
      BY <1>3, <1>4, <2>1
    <3>2. Left(q) \subseteq Left(q)'
      BY <1>1, <1>5, <1>7, <3>1 DEF Left, Eligible, Live, ledgerVars
    <3>3. QED
      BY <3>1, <3>2, ScopeStays DEF RowsOK
  <2>2. QED
    BY <2>1, ScopesKept
<1>14. RowsOK' /\ OneStageAtATime' /\ InvocationOK'
  <2>1. refs' \in [Hash -> RefRow]
    BY <1>2, <1>7 DEF RowsOK
  <2>2. lock' = lock /\ lock # r
    BY <1>1 DEF OneStageAtATime, Active
  <2>3. RowsOK'
    BY <1>1, <1>3, <2>1, <2>2 DEF RowsOK
  <2>4. OneStageAtATime'
    BY <1>1, <1>3, <2>2 DEF OneStageAtATime, Idle, Active
  <2>5. InvocationOK'
    BY <1>1 DEF InvocationOK, Idle
  <2>6. QED
    BY <2>3, <2>4, <2>5
<1>15. QED
  BY <1>6, <1>8, <1>10, <1>11, <1>12, <1>13, <1>14
-----------------------------------------------------------------------------
(* Every step *)

LEMMA BeginKeeps ==
  ASSUME ArchiveInv, NEW r \in RunId, BeginArchive(r) \/ BeginVerification(r) \/ BeginDelete(r)
  PROVE  ArchiveInv'
<1>1. CASE BeginArchive(r)
  BY <1>1, BeginStageKeeps DEF BeginArchive, Active
<1>2. CASE BeginVerification(r)
  BY <1>2, BeginStageKeeps DEF BeginVerification, Active
<1>3. CASE BeginDelete(r)
  BY <1>3, BeginStageKeeps DEF BeginDelete, Active
<1>4. QED
  BY <1>1, <1>2, <1>3

LEMMA MarkKeeps ==
  ASSUME ArchiveInv, NEW r \in RunId, MarkArchived(r) \/ MarkVerified(r)
  PROVE  ArchiveInv'
<1>1. CASE MarkArchived(r)
  <2>1. /\ job # Idle /\ job.run = r /\ FinishStage(r, "archived") /\ run[r].status = "archiving"
        /\ ScopeArchived(r) /\ UNCHANGED <<ledgerVars, refs, segs, files, manifest, retained>>
    BY <1>1 DEF MarkArchived, Idle
  <2>2. QED
    BY <2>1, FinishStageKeeps
<1>2. CASE MarkVerified(r)
  <2>1. /\ job # Idle /\ job.run = r /\ FinishStage(r, "verified") /\ run[r].status = "verifying"
        /\ UNCHANGED <<ledgerVars, refs, segs, files, manifest, retained>>
    BY <1>2 DEF MarkVerified, Idle
  <2>2. Late(r)
    BY <2>1 DEF Late
  <2>3. QED
    BY <2>1, <2>2, FinishStageKeeps
<1>3. QED
  BY <1>1, <1>2

LEMMA ArchiveStep == ArchiveInv /\ [Next]_vars => ArchiveInv'
<1> SUFFICES ASSUME ArchiveInv, [Next]_vars PROVE ArchiveInv'
  OBVIOUS
<1>1. ASSUME NEW r \in RunId, Manage(r) PROVE ArchiveInv'
  BY <1>1, CreateKeeps, CancelKeeps DEF Manage
<1>2. ASSUME NEW r \in RunId, Archive(r) PROVE ArchiveInv'
  BY <1>2, BeginKeeps, WriteSegmentKeeps, RecordSegmentKeeps, InvocationStepKeeps, MarkKeeps DEF Archive
<1>3. ASSUME NEW r \in RunId, VerifyStage(r) PROVE ArchiveInv'
  BY <1>3, BeginKeeps, InvocationStepKeeps, MarkKeeps DEF VerifyStage
<1>4. ASSUME NEW r \in RunId, DeleteStage(r) PROVE ArchiveInv'
  BY <1>4, BeginKeeps, InvocationStepKeeps, DeleteBatchKeeps DEF DeleteStage
<1>5. ASSUME NEW r \in RunId, RecordFailure(r) \/ DamageFile(r) PROVE ArchiveInv'
  BY <1>5, FailureKeeps, DamageKeeps
<1>6. CASE UNCHANGED vars
  <2>1. UNCHANGED <<ledgerVars, run, refs, segs, lock, retained>> /\ UNCHANGED <<files, manifest, job>>
    BY <1>6 DEF vars, archiveVars
  <2>2. /\ StoreOK' /\ RefsOK' /\ SegmentsOK' /\ ProgressOK' /\ EarlyUnique' /\ ScopeNeverShrinks'
        /\ \A q \in RunId : run'[q].status \in Active <=> lock' = q
    BY <2>1, DatabaseStays
  <2>3. RowsOK' /\ OneStageAtATime' /\ InvocationOK'
    BY <2>1, <2>2 DEF ArchiveInv, RowsOK, OneStageAtATime, InvocationOK,
                      ArchiveIntact, FilesIntact, RowsOf, EventsOf
  <2>4. QED
    BY <2>2, <2>3 DEF ArchiveInv
<1>7. QED
  BY <1>1, <1>2, <1>3, <1>4, <1>5, <1>6, ReturnKeeps, StoreRunsKeeps DEF Next

-----------------------------------------------------------------------------
(* What holds in every state *)

LEMMA RawOnlyGone == ArchiveInv => RawOnlyGoneThroughArchive
<1> SUFFICES ASSUME ArchiveInv, NEW h \in Hash, ledger[h].known, raw[h] = 0
             PROVE  /\ refs[h].run # NoRun /\ refs[h].deleted
                    /\ \/ run[refs[h].run].status \in {"deleting", "completed"}
                       \/ run[refs[h].run].status = "failed" /\ run[refs[h].run].resume = "deleting"
                    /\ Cardinality({i \in DOMAIN segs[refs[h].run] : h \in segs[refs[h].run][i].events}) = 1
                    /\ h \in retained
  BY DEF RawOnlyGoneThroughArchive
<1> DEFINE r == refs[h].run
           places == {i \in DOMAIN segs[r] : h \in segs[r][i].events}
<1>1. refs[h].deleted /\ r # NoRun /\ DeletionBegun(r) /\ h \in retained
  BY DEF ArchiveInv, RefsOK
<1>2. r \in RunId /\ h \in RefsOf(r)
  BY <1>1 DEF ArchiveInv, RowsOK, RefRow, RefsOf
<1> HIDE DEF r
<1>3. run[r].status # "cancelled"
  BY <1>1 DEF DeletionBegun, Failed
<1>4. h \in EventsOf(r)
  BY <1>2, <1>3 DEF ArchiveInv, SegmentsOK, RunSegmentsOK
<1>5. PICK i \in DOMAIN segs[r] : h \in segs[r][i].events
  BY <1>4 DEF EventsOf, RowsOf
<1>6. places = {i}
  BY <1>2, <1>5 DEF ArchiveInv, SegmentsOK, RunSegmentsOK
<1>7. Cardinality(places) = 1
  BY <1>6, FS_Singleton
<1>8. QED
  BY <1>1, <1>7 DEF r, DeletionBegun, Failed

LEMMA ShapeOK == ArchiveInv => ArchiveTypeOK
<1> SUFFICES ASSUME ArchiveInv PROVE ArchiveTypeOK
  OBVIOUS
<1>1. LedgerTypeOK
  BY DEF ArchiveInv, StoreOK, LedgerInv
<1>2. \A r \in RunId :
         /\ run[r].status \in Status /\ run[r].resume \in Active \cup {"absent"}
         /\ run[r].mode \in Mode /\ run[r].cutoff \subseteq Hash
         /\ {run[r].target, run[r].count, run[r].lastArchived, run[r].archived,
             run[r].lastDeleted, run[r].deleted} \subseteq Nat
  BY DEF ArchiveInv, RowsOK, RunRow
<1>3. \A r \in RunId : \A i \in DOMAIN segs[r] : segs[r][i].seq = i /\ segs[r][i].events \subseteq Hash
  <2> SUFFICES ASSUME NEW r \in RunId, NEW i \in DOMAIN segs[r]
               PROVE  segs[r][i].seq = i /\ segs[r][i].events \subseteq Hash
    OBVIOUS
  <2>1. segs[r] \in Seq(Segment)
    BY DEF ArchiveInv, RowsOK
  <2>2. segs[r][i] \in Segment
    BY <2>1, LenProperties, ElementOfSeq
  <2>3. QED
    BY <2>2 DEF Segment, ArchiveInv, SegmentsOK, RunSegmentsOK
<1>4. /\ refs \in [Hash -> [run : RunId \cup {NoRun}, rawId : Nat, deleted : BOOLEAN]]
      /\ lock \in RunId \cup {NoRun} /\ job.run \in RunId \cup {NoRun} /\ retained \subseteq Hash
  BY DEF ArchiveInv, RowsOK, RefRow, JobRow, Idle
<1>5. QED
  BY <1>1, <1>2, <1>3, <1>4 DEF ArchiveTypeOK

LEMMA DisjointArchives == ArchiveInv => ArchivedOnce
<1> SUFFICES ASSUME ArchiveInv PROVE ArchivedOnce
  OBVIOUS
<1>1. \A r \in RunId : RefsOf(r) = IF run[r].status = "cancelled" THEN {} ELSE EventsOf(r)
  BY DEF ArchiveInv, SegmentsOK, RunSegmentsOK
<1>2. ASSUME NEW r \in RunId, NEW q \in RunId, r # q,
             run[r].status # "cancelled", run[q].status # "cancelled"
      PROVE  EventsOf(r) \cap EventsOf(q) = {}
  <2>1. EventsOf(r) = RefsOf(r) /\ EventsOf(q) = RefsOf(q)
    BY <1>1, <1>2
  <2>2. QED
    BY <1>2, <2>1 DEF RefsOf
<1>3. QED
  BY <1>1, <1>2 DEF ArchivedOnce

LEMMA ScopesWhole == ArchiveInv => WholeScope
BY DEF ArchiveInv, WholeScope, ProgressOK, RunProgressOK, RefsOK, RefsOf, Late

LEMMA FailedCanCancel == ArchiveInv => CancelNeverBlocked
<1> SUFFICES ASSUME ArchiveInv, NEW r \in RunId,
                    run[r].status = "failed", run[r].resume \in {"archiving", "verifying"}
             PROVE  /\ Cardinality(RefsOf(r)) = run[r].archived
                    /\ \A h \in RefsOf(r) : ~refs[h].deleted /\ raw[h] = refs[h].rawId
                    /\ ~run[r].deleteStarted
  BY DEF CancelNeverBlocked
<1>1. ~DeletionBegun(r)
  BY DEF DeletionBegun, Failed
<1>2. Cardinality(RefsOf(r)) = run[r].archived /\ ~run[r].deleteStarted
  BY <1>1 DEF ArchiveInv, ProgressOK, RunProgressOK
<1>3. \A h \in RefsOf(r) : ~refs[h].deleted /\ raw[h] = refs[h].rawId
  BY <1>1, ArchiveAssumption DEF ArchiveInv, RefsOK, RefsOf
<1>4. QED
  BY <1>2, <1>3

-----------------------------------------------------------------------------
THEOREM ArchiveInvHolds == Spec => []ArchiveInv
<1>1. QED
  BY ArchiveInit, ArchiveStep, PTL DEF Spec

\* What every invocation finds is consistent, whatever the one before it left
\* unfinished: types, the one stage that holds the lock, raw rows that only a
\* recorded deletion took away, and a scope that nobody shrinks.
THEOREM ArchiveConsistent == Spec => []RunsConsistent
<1>1. ArchiveInv => RunsConsistent
  <2>1. ArchiveInv => OneStageAtATime /\ ScopeNeverShrinks
    BY DEF ArchiveInv
  <2>2. QED
    BY <2>1, ShapeOK, RawOnlyGone DEF RunsConsistent
<1>2. QED
  BY <1>1, ArchiveInvHolds, PTL

\* No event is archived by two runs unless one of them was cancelled, and a
\* run's references are exactly the events of its segments.
THEOREM NothingArchivedTwice == Spec => []ArchivedOnce
BY DisjointArchives, ArchiveInvHolds, PTL

\* An archived run covers its whole scope, and a completed one deleted it.
THEOREM ScopeIsWhole == Spec => []WholeScope
BY ScopesWhole, ArchiveInvHolds, PTL

\* A run that failed before its deletion can be cancelled.
THEOREM CancelIsPossible == Spec => []CancelNeverBlocked
BY FailedCanCancel, ArchiveInvHolds, PTL
-----------------------------------------------------------------------------
(* What no step does *)

\* Only a delete batch takes raw rows away; only an insert adds any.
LEMMA RawMoves ==
  ASSUME ArchiveInv, [Next]_vars
  PROVE  \/ \E r \in RunId : DeleteBatch(r)
         \/ StoreRuns
         \/ UNCHANGED <<raw, counted, agg>>
            /\ \A h \in Hash : raw[h] = 0 => ledger'[h] = ledger[h]
<1>1. ASSUME NEW r \in RunId, RecordSegment(r)
      PROVE  UNCHANGED <<raw, counted, agg>> /\ \A h \in Hash : raw[h] = 0 => ledger'[h] = ledger[h]
  <2>1. AttachRaw(job.batch)
    BY <1>1 DEF RecordSegment
  <2>2. QED
    BY <2>1 DEF AttachRaw, Live, ArchiveInv, StoreOK, LedgerInv, LedgerTypeOK
<1>2. ASSUME NEW r \in RunId, Manage(r) \/ Archive(r) \/ VerifyStage(r) \/ DeleteStage(r)
      PROVE  \/ RecordSegment(r) \/ DeleteBatch(r) \/ UNCHANGED ledgerVars
  BY <1>2 DEF Manage, Create, Cancel, Archive, BeginArchive, WriteSegment, WriteManifest, MarkArchived,
              VerifyStage, BeginVerification, Verify, MarkVerified, DeleteStage, BeginDelete, Revalidate
<1>3. ASSUME NEW r \in RunId, RecordFailure(r) \/ DamageFile(r)
      PROVE  UNCHANGED ledgerVars
  BY <1>3 DEF RecordFailure, DamageFile
<1>4. Return \/ UNCHANGED vars => UNCHANGED ledgerVars
  BY DEF Return, vars
<1>5. QED
  BY <1>1, <1>2, <1>3, <1>4 DEF Next, ledgerVars

LEMMA DeletesIntact == ArchiveInv /\ [Next]_vars => DeletesOnlyIntact
<1> SUFFICES ASSUME ArchiveInv, [Next]_vars, NEW h \in Hash, raw[h] > 0, raw'[h] = 0
             PROVE  job.intact
  BY DEF DeletesOnlyIntact
<1>1. CASE \E r \in RunId : DeleteBatch(r)
  BY <1>1 DEF DeleteBatch, ArchiveInv, InvocationOK
<1>2. CASE StoreRuns
  <2>1. raw'[h] = raw[h]
    BY <1>2, StoreSteps DEF StoreRuns, ArchiveInv, StoreOK
  <2>2. QED
    BY <2>1
<1>3. QED
  BY <1>1, <1>2, RawMoves

LEMMA CommittedNotFailed == ArchiveInv /\ [Next]_vars => CommittedStays
<1> SUFFICES ASSUME ArchiveInv, [Next]_vars, NEW q \in RunId,
                    run[q].status \in {"archived", "verified", "completed"}
             PROVE  run'[q].status # "failed"
  BY DEF CommittedStays
<1>0. run \in [RunId -> RunRow]
  BY DEF ArchiveInv, RowsOK
<1>1. ASSUME NEW r \in RunId, RecordFailure(r) PROVE run'[q].status # "failed"
  <2>1. CASE ~FailureCounts(r)
    BY <1>1, <2>1 DEF RecordFailure
  <2>2. CASE FailureCounts(r)
    <3>1. job \in JobRow
      BY <1>1 DEF RecordFailure, ArchiveInv, RowsOK
    <3>2. run[r].status \in Active \cup {"failed"}
      BY <2>2, <3>1 DEF FailureCounts, JobRow
    <3>3. q # r
      BY <3>2 DEF Active
    <3>4. run'[q] = run[q]
      BY <1>0, <1>1, <3>3 DEF RecordFailure
    <3>5. QED
      BY <3>4
  <2>3. QED
    BY <2>1, <2>2
<1>2. ASSUME NEW r \in RunId, NEW mode \in Mode, NEW cutoff \in Cutoffs, Create(r, mode, cutoff)
      PROVE  run'[q].status # "failed"
  <2>1. q # r
    BY <1>2 DEF Create
  <2>2. run'[q] = run[q]
    BY <1>0, <1>2, <2>1 DEF Create
  <2>3. QED
    BY <2>2
<1>3. ASSUME NEW r \in RunId, Cancel(r)
      PROVE  run'[q].status # "failed"
  <2>1. q # r
    BY <1>3 DEF Cancel
  <2>2. run'[q] = run[q]
    BY <1>0, <1>3, <2>1 DEF Cancel
  <2>3. QED
    BY <2>2
<1>4. ASSUME NEW r \in RunId, NEW stage \in Active, NEW from, NEW pc, BeginStage(r, stage, from, pc)
      PROVE  run'[q].status # "failed"
  <2>1. run'[q].status = IF q = r THEN stage ELSE run[q].status
    BY <1>0, <1>4 DEF BeginStage, RunRow
  <2>2. QED
    BY <2>1 DEF Active
<1>5. ASSUME NEW r \in RunId, NEW status \in {"archived", "verified"}, FinishStage(r, status)
      PROVE  run'[q].status # "failed"
  BY <1>0, <1>5 DEF FinishStage, RunRow
<1>6. ASSUME NEW r \in RunId, RecordSegment(r)
      PROVE  run'[q].status # "failed"
  <2>1. q # r
    BY <1>6 DEF RecordSegment
  <2>2. run'[q] = run[q]
    BY <1>0, <1>6, <2>1 DEF RecordSegment, Progress
  <2>3. QED
    BY <2>2
<1>7. ASSUME NEW r \in RunId, DeleteBatch(r)
      PROVE  run'[q].status # "failed"
  <2>1. q # r
    BY <1>7 DEF DeleteBatch
  <2>2. run'[q] = run[q]
    BY <1>0, <1>7, <2>1 DEF DeleteBatch
  <2>3. QED
    BY <2>2
<1>8. ASSUME UNCHANGED run PROVE run'[q].status # "failed"
  BY <1>8
<1>9. ASSUME NEW r \in RunId, Manage(r) \/ Archive(r) \/ VerifyStage(r) \/ DeleteStage(r)
      PROVE  run'[q].status # "failed"
  <2>1. CASE Manage(r)
    BY <1>2, <1>3, <2>1 DEF Manage
  <2>2. CASE Archive(r)
    BY <1>4, <1>5, <1>6, <1>8, <2>2
       DEF Archive, BeginArchive, WriteSegment, WriteManifest, MarkArchived, Active
  <2>3. CASE VerifyStage(r)
    BY <1>4, <1>5, <1>8, <2>3 DEF VerifyStage, BeginVerification, Verify, MarkVerified, Active
  <2>4. CASE DeleteStage(r)
    BY <1>4, <1>7, <1>8, <2>4 DEF DeleteStage, BeginDelete, Revalidate, Active
  <2>5. QED
    BY <1>9, <2>1, <2>2, <2>3, <2>4
<1>10. ASSUME NEW r \in RunId, DamageFile(r) PROVE run'[q].status # "failed"
  BY <1>8, <1>10 DEF DamageFile
<1>11. CASE Return \/ StoreRuns \/ UNCHANGED vars
  BY <1>8, <1>11 DEF Return, StoreRuns, vars, archiveVars
<1>12. QED
  BY <1>1, <1>9, <1>10, <1>11 DEF Next

\* Raw rows are deleted only by an invocation that found the archive intact
\* when it began, and a committed stage is never reported as failed.
THEOREM SafeInvocations == Spec => InvocationsAreSafe
<1>1. ArchiveInv /\ [Next]_vars => [DeletesOnlyIntact /\ CommittedStays]_vars
  BY DeletesIntact, CommittedNotFailed
<1>2. QED
  BY <1>1, ArchiveInvHolds, PTL DEF Spec, InvocationsAreSafe
-----------------------------------------------------------------------------
(* The history that readers see *)

\* Where an event is, in the words of UsageHistory.
Life(h) == IF raw[h] > 0 THEN "stored" ELSE IF ledger[h].known THEN "archived" ELSE "absent"

TotalsOK == \A h \in Hash : Reads(h) = IF Life(h) = "absent" THEN 0 ELSE 1

\* Whatever was ever stored is counted once, wherever it is now.
LEMMA TotalsAreExact ==
  ASSUME ArchiveInv, NEW h \in Hash
  PROVE  Reads(h) = IF Life(h) = "absent" THEN 0 ELSE 1
<1> USE DEF ArchiveInv, StoreOK, LedgerInv, LedgerTypeOK, LedgerRow
<1>1. CASE raw[h] > 0
  BY <1>1, ReadsAreExact DEF ReadExactlyOnce, Live, Life
<1>2. CASE ~(raw[h] > 0)
  <2>1. raw[h] = 0
    BY <1>2
  <2>2. CASE ledger[h].known
    BY <2>1, <2>2 DEF Reads, StoredReads, RawReads, Life
  <2>3. CASE ~ledger[h].known
    <3>1. counted[h] = 0
      BY <2>3 DEF CountedMatches, Aggregated
    <3>2. QED
      BY <2>1, <2>3, <3>1 DEF Reads, StoredReads, RawReads, Life
  <2>4. QED
    BY <2>2, <2>3
<1>3. QED
  BY <1>1, <1>2

\* An insert transaction makes new events visible, and all of them at once.
LEMMA InsertStores ==
  ASSUME ArchiveInv, ArchiveInv', StoreRuns
  PROVE  \E events \in SUBSET Hash :
           /\ \A h \in events : Life(h) = "absent"
           /\ \A h \in Hash : Life(h)' = IF h \in events THEN "stored" ELSE Life(h)
<1> DEFINE events == {h \in Hash : Life(h) = "absent" /\ Life(h)' = "stored"}
<1>1. \A h \in Hash :
        /\ raw[h] \in Nat /\ raw'[h] \in Nat
        /\ raw[h] > 0 => raw'[h] = raw[h]
        /\ ledger'[h].known /\ raw'[h] = 0 <=> ledger[h].known /\ raw[h] = 0
  BY StoreSteps DEF StoreRuns, ArchiveInv, StoreOK, LedgerInv, LedgerTypeOK
<1>2. ASSUME NEW h \in Hash
      PROVE  Life(h)' = IF Life(h) = "absent" /\ Life(h)' = "stored" THEN "stored" ELSE Life(h)
  BY <1>1 DEF Life
<1>3. events \in SUBSET Hash /\ \A h \in events : Life(h) = "absent"
  OBVIOUS
<1>4. \A h \in Hash : Life(h)' = IF h \in events THEN "stored" ELSE Life(h)
  BY <1>2
<1> HIDE DEF events
<1>5. QED
  BY <1>3, <1>4

\* A delete batch moves events from the store to the archive.
LEMMA DeleteArchives ==
  ASSUME ArchiveInv, NEW r \in RunId, DeleteBatch(r)
  PROVE  \E events \in SUBSET Hash :
           /\ \A h \in events : Life(h) = "stored"
           /\ \A h \in Hash : Life(h)' = IF h \in events THEN "archived" ELSE Life(h)
<1> DEFINE batch == FirstRows(Deletable(r), DeleteLimit)
<1>1. batch \in SUBSET Hash /\ \A h \in batch : raw[h] > 0 /\ ledger[h].known
  BY DEF FirstRows, Deletable, RefsOf, Live, Aggregated
<1>2. DeleteRaw(batch)
  BY DEF DeleteBatch
<1> HIDE DEF batch
<1>3. /\ \A h \in batch : raw'[h] = 0 /\ ledger'[h].known
      /\ \A h \in Hash \ batch : raw'[h] = raw[h] /\ ledger'[h] = ledger[h]
  BY <1>1, <1>2 DEF DeleteRaw, ArchiveInv, StoreOK, LedgerInv, LedgerTypeOK, LedgerRow
<1>4. \A h \in batch : Life(h) = "stored"
  BY <1>1 DEF Life
<1>5. \A h \in Hash : Life(h)' = IF h \in batch THEN "archived" ELSE Life(h)
  BY <1>3 DEF Life
<1>6. QED
  BY <1>1, <1>4, <1>5

LEMMA HistoryInit == Init => History!Init
<1> SUFFICES ASSUME Init PROVE History!Init
  OBVIOUS
<1>1. \A h \in Hash : ~ledger[h].known
  BY DEF Init, LedgerInit, NoRow
<1>2. \A h \in Hash : Life(h) \in {"absent", "stored"}
  BY <1>1 DEF Life
<1>3. \A h \in Hash : Reads(h) = IF Life(h) = "stored" THEN 1 ELSE 0
  BY <1>2, ArchiveInit, TotalsAreExact
<1>4. QED
  BY <1>2, <1>3 DEF History!Init, Life

LEMMA TotalsStayExact == ArchiveInv' => TotalsOK'
<1>1. ArchiveInv => TotalsOK
  BY TotalsAreExact DEF TotalsOK
<1>2. QED
  BY <1>1, PTL

LEMMA HistoryStep == ArchiveInv /\ ArchiveInv' /\ [Next]_vars => [History!Next]_(History!historyVars)
<1> SUFFICES ASSUME ArchiveInv, ArchiveInv', [Next]_vars
             PROVE  [History!Next]_(History!historyVars)
  OBVIOUS
<1> DEFINE life == [h \in Hash |-> Life(h)]
           total == [h \in Hash |-> Reads(h)]
<1>1. /\ \A h \in Hash : Reads(h) = IF Life(h) = "absent" THEN 0 ELSE 1
      /\ \A h \in Hash : Reads(h)' = IF Life(h)' = "absent" THEN 0 ELSE 1
  BY TotalsAreExact, TotalsStayExact DEF TotalsOK
<1>2. ASSUME NEW events \in SUBSET Hash, \A h \in events : Life(h) = "absent",
             \A h \in Hash : Life(h)' = IF h \in events THEN "stored" ELSE Life(h)
      PROVE  History!Store(events)
  <2>1. \A h \in Hash : Reads(h)' = IF h \in events THEN 1 ELSE Reads(h)
    BY <1>1, <1>2
  <2>2. QED
    BY <1>2, <2>1 DEF History!Store, Life
<1>3. ASSUME NEW events \in SUBSET Hash, \A h \in events : Life(h) = "stored",
             \A h \in Hash : Life(h)' = IF h \in events THEN "archived" ELSE Life(h)
      PROVE  History!MoveToArchive(events)
  <2>1. \A h \in Hash : Reads(h)' = Reads(h)
    BY <1>1, <1>3
  <2>2. QED
    BY <1>3, <2>1 DEF History!MoveToArchive, Life
<1>4. CASE StoreRuns
  BY <1>2, <1>4, InsertStores DEF History!Next
<1>5. CASE \E r \in RunId : DeleteBatch(r)
  BY <1>3, <1>5, DeleteArchives DEF History!Next
<1>6. CASE UNCHANGED <<raw, counted, agg>> /\ \A h \in Hash : raw[h] = 0 => ledger'[h] = ledger[h]
  <2>1. \A h \in Hash : Life(h)' = Life(h)
    BY <1>6 DEF Life, ArchiveInv, StoreOK, LedgerInv, LedgerTypeOK
  <2>2. \A h \in Hash : Reads(h)' = Reads(h)
    BY <1>1, <2>1
  <2>3. QED
    BY <2>1, <2>2 DEF History!historyVars, Life
<1>7. QED
  BY <1>4, <1>5, <1>6, RawMoves

\* The archive keeps the promise of UsageHistory: every event that was ever
\* stored is counted exactly once, whether its raw row is still there or not.
THEOREM ArchiveKeepsHistory == Spec => KeepsHistory
BY HistoryInit, HistoryStep, ArchiveInvHolds, PTL DEF Spec, KeepsHistory, History!Spec
=============================================================================
