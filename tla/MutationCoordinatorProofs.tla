--------------------- MODULE MutationCoordinatorProofs ---------------------
(***************************************************************************)
(* Proofs about MutationCoordinator, for any finite set of callers and any *)
(* files.  TypeOK alone is not inductive: Grant decrements waitingAll, so  *)
(* one must know that it counts the registered callers (CountInv).  The    *)
(* lock invariant LockInv says which callers the shared fields stand for.  *)
(***************************************************************************)
EXTENDS MutationCoordinator, FiniteSetTheorems, TLAPS

\* Who is registered, and who sleeps on the current channel.
Registration ==
    /\ \A p \in registered : All(p) /\ pc[p] \in {"try", "asleep", "leaving"}
    /\ \A p \in Caller : pc[p] = "leaving" => p \in registered
    /\ \A p \in Caller : pc[p] = "asleep" /\ All(p) => p \in registered
    /\ \A p \in open : pc[p] = "asleep"

CountInv == TypeOK /\ WaitingCountExact /\ Registration

\* The shared fields say exactly what the callers hold.
FieldsMatch ==
    /\ \A f \in File : f \in active <=> \E p \in Caller : pc[p] = "held" /\ f \in want[p]
    /\ activeAll <=> \E p \in Caller : pc[p] = "held" /\ All(p)

LockInv == CountInv /\ FieldsMatch /\ Exclusive /\ NoLostWakeup

-----------------------------------------------------------------------------
\* The registered callers are finitely many, so their number is a natural one.
LEMMA RegisteredFinite ==
  ASSUME registered \subseteq Caller
  PROVE  /\ IsFiniteSet(registered)
         /\ Cardinality(registered) \in Nat
         /\ Cardinality(registered) = 0 <=> registered = {}
         /\ \A p \in Caller : Cardinality(registered \cup {p}) =
              IF p \in registered THEN Cardinality(registered) ELSE Cardinality(registered) + 1
         /\ \A p \in Caller : Cardinality(registered \ {p}) =
              IF p \in registered THEN Cardinality(registered) - 1 ELSE Cardinality(registered)
<1>1. IsFiniteSet(registered)
  BY CallersFinite, FS_Subset
<1>2. QED
  BY <1>1, FS_CardinalityType, FS_EmptySet, FS_AddElement, FS_RemoveElement

\* The count and the types are kept by every step.
LEMMA CountStep == CountInv /\ [Next]_vars => CountInv'
<1> SUFFICES ASSUME CountInv, [Next]_vars PROVE CountInv'
  OBVIOUS
<1> USE DEF CountInv, TypeOK, WaitingCountExact, Registration, Place, All
<1>0. /\ Cardinality(registered) \in Nat
      /\ Cardinality(registered) = 0 <=> registered = {}
      /\ \A p \in Caller : Cardinality(registered \cup {p}) =
           IF p \in registered THEN waitingAll ELSE waitingAll + 1
      /\ \A p \in Caller : Cardinality(registered \ {p}) =
           IF p \in registered THEN waitingAll - 1 ELSE waitingAll
      /\ \A p \in registered : waitingAll > 0
  BY RegisteredFinite
<1>1. ASSUME NEW p \in Caller, NEW files \in SUBSET File, Request(p, files) PROVE CountInv'
  BY <1>1 DEF Request
<1>2. ASSUME NEW p \in Caller, Grant(p) PROVE CountInv'
  <2>1. activeAll' \in BOOLEAN
    BY <1>2, Zenon DEF Grant
  <2>2. waitingAll' \in Nat /\ waitingAll' = Cardinality(registered')
    BY <1>0, <1>2 DEF Grant, Waiting
  <2>3. Registration'
    BY <1>2 DEF Grant
  <2>4. QED
    BY <1>2, <2>1, <2>2, <2>3 DEF Grant
<1>3. ASSUME NEW p \in Caller, Sleep(p) PROVE CountInv'
  <2>1. waitingAll' \in Nat /\ waitingAll' = Cardinality(registered')
    BY <1>0, <1>3 DEF Sleep, Waiting
  <2>2. QED
    BY <1>3, <2>1 DEF Sleep
<1>4. ASSUME NEW p \in Caller, Wake(p) PROVE CountInv'
  BY <1>4 DEF Wake
<1>5. ASSUME NEW p \in Caller, GiveUp(p) PROVE CountInv'
  BY <1>5 DEF GiveUp
<1>6. ASSUME NEW p \in Caller, CancelAllWaiter(p) PROVE CountInv'
  <2>1. waitingAll' \in Nat /\ waitingAll' = Cardinality(registered')
    BY <1>0, <1>6 DEF CancelAllWaiter
  <2>2. QED
    BY <1>6, <2>1 DEF CancelAllWaiter, Notify
<1>7. ASSUME NEW p \in Caller, Release(p) PROVE CountInv'
  BY <1>7 DEF Release, Notify
<1>8. CASE UNCHANGED vars
  BY <1>8 DEF vars
<1>9. QED
  BY <1>1, <1>2, <1>3, <1>4, <1>5, <1>6, <1>7, <1>8 DEF Next, Step

\* A granted caller is added to what the shared fields stand for.
LEMMA GrantKeepsFields ==
  ASSUME TypeOK, FieldsMatch, NEW p \in Caller, Grant(p)
  PROVE  FieldsMatch'
<1>1. /\ pc[p] = "try" /\ ~activeAll
      /\ pc' = [pc EXCEPT ![p] = "held"] /\ want' = want
      /\ active' = active \cup want[p]
      /\ activeAll' = All(p)
  BY DEF Grant, CanAcquire
<1>2. \A q \in Caller : pc'[q] = "held" <=> q = p \/ pc[q] = "held"
  BY <1>1 DEF TypeOK
<1>3. ASSUME NEW f \in File
      PROVE  f \in active' <=> \E q \in Caller : pc'[q] = "held" /\ f \in want'[q]
  <2>1. f \in active <=> \E q \in Caller : pc[q] = "held" /\ f \in want[q]
    BY DEF FieldsMatch
  <2>2. QED
    BY <1>1, <1>2, <2>1
<1>4. activeAll' <=> \E q \in Caller : pc'[q] = "held" /\ All(q)'
  <2>1. ~\E q \in Caller : pc[q] = "held" /\ All(q)
    BY <1>1 DEF FieldsMatch
  <2>2. \A q \in Caller : All(q)' <=> All(q)
    BY <1>1 DEF All
  <2>3. QED
    BY <1>1, <1>2, <2>1, <2>2
<1>5. QED
  BY <1>3, <1>4 DEF FieldsMatch

\* The lock invariant is kept by every step.
LEMMA LockStep == LockInv /\ [Next]_vars => LockInv'
<1> SUFFICES ASSUME LockInv, [Next]_vars PROVE LockInv'
  OBVIOUS
<1>0. CountInv /\ CountInv'
  BY CountStep DEF LockInv
<1>w. \A p \in Caller : ~All(p) => Waiting(p) = waitingAll
  BY DEF Waiting
<1> USE <1>0 DEF LockInv, CountInv, TypeOK, Registration, FieldsMatch, Exclusive, NoLostWakeup, CanAcquire, All
<1>1. ASSUME NEW p \in Caller, NEW files \in SUBSET File, Request(p, files) PROVE LockInv'
  BY <1>1 DEF Request
<1>2. ASSUME NEW p \in Caller, Grant(p) PROVE LockInv'
  <2> USE <1>2 DEF Grant
  <2>1. FieldsMatch'
    BY GrantKeepsFields
  <2>2. Exclusive'
    <3>1. ~activeAll /\ (All(p) => active = {}) /\ active \cap want[p] = {}
      OBVIOUS
    <3>2. QED
      BY <3>1
  <2>3. NoLostWakeup'
    <3> SUFFICES ASSUME NEW q \in open PROVE ~CanAcquire(q, waitingAll)'
      BY Zenon
    <3>1. q # p /\ q \in Caller /\ ~CanAcquire(q, waitingAll)
      OBVIOUS
    <3>2. CASE All(p)
      BY <3>1, <3>2
    <3>3. CASE ~All(p)
      BY <3>1, <3>3, <1>w
    <3>4. QED
      BY <3>2, <3>3
  <2>4. QED
    BY <2>1, <2>2, <2>3
<1>3. ASSUME NEW p \in Caller, Sleep(p) PROVE LockInv'
  <2> USE <1>3 DEF Sleep
  <2>1. FieldsMatch' /\ Exclusive'
    OBVIOUS
  <2>2. NoLostWakeup'
    <3> SUFFICES ASSUME NEW q \in open' PROVE ~CanAcquire(q, waitingAll)'
      BY Zenon
    <3>1. CASE q = p
      BY <3>1
    <3>2. CASE q # p
      BY <3>2 DEF Waiting
    <3>3. QED
      BY <3>1, <3>2
  <2>3. QED
    BY <2>1, <2>2
<1>4. ASSUME NEW p \in Caller, Wake(p) PROVE LockInv'
  BY <1>4 DEF Wake
<1>5. ASSUME NEW p \in Caller, GiveUp(p) PROVE LockInv'
  BY <1>5 DEF GiveUp
<1>6. ASSUME NEW p \in Caller, CancelAllWaiter(p) PROVE LockInv'
  BY <1>6 DEF CancelAllWaiter, Notify
<1>7. ASSUME NEW p \in Caller, Release(p) PROVE LockInv'
  <2> USE <1>7 DEF Release, Notify
  <2>1. NoLostWakeup'
    OBVIOUS
  <2>2. Exclusive'
    OBVIOUS
  <2>3. FieldsMatch'
    OBVIOUS
  <2>4. QED
    BY <2>1, <2>2, <2>3
<1>8. CASE UNCHANGED vars
  BY <1>8 DEF vars
<1>9. QED
  BY <1>1, <1>2, <1>3, <1>4, <1>5, <1>6, <1>7, <1>8 DEF Next, Step
\* All of it holds initially.
LEMMA LockInit == Init => LockInv
<1> SUFFICES ASSUME Init PROVE LockInv
  OBVIOUS
<1>1. Cardinality(registered) = 0
  BY FS_EmptySet DEF Init
<1>2. QED
  BY <1>1 DEF Init, LockInv, CountInv, TypeOK, WaitingCountExact, Registration, Place,
              FieldsMatch, Exclusive, NoLostWakeup

\* The coordinator's fields and its callers keep their types; the count of
\* waiting AcquireAll callers never goes below zero.
THEOREM TypeCorrect == Spec => []TypeOK
<1>1. CountInv => TypeOK
  BY DEF CountInv
<1>2. QED
  BY LockInit, LockStep, <1>1, PTL DEF Spec, LockInv

\* Two mutations of one auth file never run at once, and AcquireAll runs alone
\* (the comment on MutationCoordinator).
THEOREM MutualExclusion == Spec => []Exclusive
<1>1. LockInv => Exclusive
  BY DEF LockInv
<1>2. QED
  BY LockInit, LockStep, <1>1, PTL DEF Spec

\* Nobody sleeps on the open channel while the coordinator could serve him.
THEOREM WakeupsAreComplete == Spec => []NoLostWakeup
<1>1. LockInv => NoLostWakeup
  BY DEF LockInv
<1>2. QED
  BY LockInit, LockStep, <1>1, PTL DEF Spec

\* waitingAll is the number of registered AcquireAll callers, cancelled or not.
THEOREM CountIsExact == Spec => []WaitingCountExact
<1>1. LockInv => WaitingCountExact
  BY DEF LockInv, CountInv
<1>2. QED
  BY LockInit, LockStep, <1>1, PTL DEF Spec

\* No file is granted while an AcquireAll caller is registered.
THEOREM AllComesFirst == Spec => AllHasPreference
<1>1. LockInv /\ [Next]_vars => [registered # {} => active' \subseteq active]_vars
  <2> SUFFICES ASSUME LockInv, [Next]_vars, registered # {}, vars' # vars
               PROVE  active' \subseteq active
    BY Zenon
  <2> USE DEF LockInv, CountInv, TypeOK, WaitingCountExact, All
  <2>1. waitingAll # 0
    BY RegisteredFinite
  <2>2. ASSUME NEW p \in Caller, Grant(p) PROVE active' \subseteq active
    BY <2>1, <2>2 DEF Grant, CanAcquire, Waiting
  <2>3. QED
    BY <2>2 DEF Next, Step, Request, Sleep, Wake, GiveUp, CancelAllWaiter, Release, vars
<1>2. QED
  BY LockInit, LockStep, <1>1, PTL DEF Spec, AllHasPreference
=============================================================================
