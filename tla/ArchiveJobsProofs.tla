------------------------- MODULE ArchiveJobsProofs -------------------------
(***************************************************************************)
(* Proofs about the archive runner, for any runs, callers and number of    *)
(* crashes: the maintenance lock is held by exactly the runs inside a      *)
(* stage, nothing is deleted that nobody asked to delete, and nobody waits *)
(* for a stage that is neither requested, claimed, cancelled nor passed.   *)
(*                                                                         *)
(* A stage executes in several steps, and callers, cancellations, stops    *)
(* and crashes come in between.  JobsInv says what holds in between: the   *)
(* executing stage is the status of its run, which has the lock, and a     *)
(* stage that the runner executes is the claimed one.                      *)
(***************************************************************************)
EXTENDS ArchiveJobs, FiniteSetTheorems, SequenceTheorems, TLAPS

Row == [status : Status, resume : Stage \cup {None}, requested : Stage \cup {None}]
Execs == [by : {"runner", "worker", "caller"}, run : RunId, stage : Stage]
Jobs == [pc : {"claimed", "executing", "ran", "judged", "cleared"},
         run : RunId, stage : Stage, err : {"nil", "coverage", "other"}, keep : BOOLEAN]

\* The queue lists every run once.
Lists(queue) == queue \in Seq(RunId) /\ IsInjective(queue) /\ Range(queue) = RunId

RowsOK == run \in [RunId -> Row] /\ Lists(order)

WorkOK ==
    /\ lock \in RunId \cup {NoRun} /\ cancelled \in RunId \cup {NoRun}
    /\ exec \in Execs \cup {NoExec} /\ job \in Jobs \cup {NoJob}

AnswersOK == policy \in [Key -> {"unset", "once", "retry"}] /\ waiters \in [Key -> SUBSET Caller]

ExecutesUnderLock ==
    exec # NoExec =>
        /\ run[exec.run].status = exec.stage
        /\ exec.by = "runner" => job.pc = "executing"

JobsInv ==
    /\ RowsOK /\ WorkOK /\ AnswersOK
    /\ ExecutesUnderLock /\ LockHeldInStage /\ CancelledStaysQuiet

-----------------------------------------------------------------------------
(* The queue *)

\* Moving a run to the end of the queue keeps every run in it, once.
LEMMA MovedKeepsList ==
  ASSUME NEW queue, Lists(queue), NEW i \in DOMAIN queue, NEW r, queue[i] = r
  PROVE  Lists(Append(RemoveAt(queue, i), r))
<1> DEFINE n == Len(queue)
           front == SubSeq(queue, 1, i - 1)
           back == SubSeq(queue, i + 1, n)
           both == front \o back
           moved == Append(both, r)
<1>1. n \in Nat /\ DOMAIN queue = 1 .. n /\ queue \in Seq(RunId) /\ i \in 1 .. n
  BY LenProperties DEF Lists
<1>2. \A k \in 1 .. n : queue[k] \in RunId
  BY <1>1, ElementOfSeq
<1>3. /\ front \in Seq(RunId) /\ Len(front) = i - 1
      /\ \A k \in 1 .. i - 1 : front[k] = queue[k]
  <2>1. \A k \in 1 .. i - 1 : queue[k] \in RunId
    BY <1>1, <1>2
  <2>2. /\ front \in Seq(RunId)
        /\ Len(front) = IF 1 <= i - 1 THEN (i - 1) - 1 + 1 ELSE 0
        /\ \A k \in 1 .. (i - 1) - 1 + 1 : front[k] = queue[1 + k - 1]
    BY <1>1, <2>1, SubSeqProperties
  <2>3. QED
    BY <1>1, <2>2
<1>4. /\ back \in Seq(RunId) /\ Len(back) = n - i
      /\ \A k \in 1 .. n - i : back[k] = queue[i + k]
  <2>1. \A k \in i + 1 .. n : queue[k] \in RunId
    BY <1>1, <1>2
  <2>2. /\ back \in Seq(RunId)
        /\ Len(back) = IF i + 1 <= n THEN n - (i + 1) + 1 ELSE 0
        /\ \A k \in 1 .. n - (i + 1) + 1 : back[k] = queue[(i + 1) + k - 1]
    BY <1>1, <2>1, SubSeqProperties
  <2>3. QED
    BY <1>1, <2>2
<1> HIDE DEF front, back
<1>5. /\ both \in Seq(RunId) /\ Len(both) = n - 1
      /\ \A k \in 1 .. n - 1 : both[k] = IF k < i THEN queue[k] ELSE queue[k + 1]
  <2>1. /\ both \in Seq(RunId)
        /\ Len(both) = Len(front) + Len(back)
        /\ \A k \in 1 .. Len(front) + Len(back) :
             both[k] = IF k <= Len(front) THEN front[k] ELSE back[k - Len(front)]
    BY <1>3, <1>4, ConcatProperties
  <2> HIDE DEF both, n
  <2>2. Len(both) = n - 1
    BY <1>1, <1>3, <1>4, <2>1
  <2>3. ASSUME NEW k \in 1 .. n - 1, k < i
        PROVE  both[k] = queue[k]
    BY <1>1, <1>3, <1>4, <2>1, <2>3
  <2>4. ASSUME NEW k \in 1 .. n - 1, ~(k < i)
        PROVE  both[k] = queue[k + 1]
    <3>1. k \in 1 .. Len(front) + Len(back) /\ ~(k <= Len(front))
      BY <1>1, <1>3, <1>4, <2>4
    <3>2. both[k] = back[k - (i - 1)]
      BY <1>3, <2>1, <3>1
    <3>3. k - (i - 1) \in 1 .. n - i /\ i + (k - (i - 1)) = k + 1
      BY <1>1, <2>4
    <3>4. back[k - (i - 1)] = queue[i + (k - (i - 1))]
      BY <1>4, <3>3
    <3>5. QED
      BY <3>2, <3>3, <3>4
  <2>5. QED
    BY <2>1, <2>2, <2>3, <2>4
<1> HIDE DEF both
<1>6. /\ moved \in Seq(RunId) /\ Len(moved) = n
      /\ \A k \in 1 .. n - 1 : moved[k] = IF k < i THEN queue[k] ELSE queue[k + 1]
      /\ moved[n] = queue[i]
  <2>1. r \in RunId
    BY <1>1, <1>2
  <2>2. /\ moved \in Seq(RunId) /\ Len(moved) = Len(both) + 1
        /\ \A k \in 1 .. Len(both) : moved[k] = both[k]
        /\ moved[Len(both) + 1] = r
    BY <1>5, <2>1, AppendProperties
  <2> HIDE DEF moved, n
  <2>3. Len(both) + 1 = n /\ 1 .. Len(both) = 1 .. n - 1
    BY <1>1, <1>5
  <2>4. QED
    BY <1>5, <2>2, <2>3
<1> HIDE DEF moved, n
<1> DEFINE from == [k \in 1 .. n |-> IF k < i THEN k ELSE IF k = n THEN i ELSE k + 1]
<1>7. /\ DOMAIN moved = 1 .. n
      /\ \A k \in 1 .. n : from[k] \in 1 .. n /\ moved[k] = queue[from[k]]
  <2>1. DOMAIN moved = 1 .. n
    BY <1>6, LenProperties
  <2>2. QED
    BY <1>1, <1>6, <2>1
<1>8. \A a, b \in 1 .. n : from[a] = from[b] => a = b
  BY <1>1
<1>9. \A k \in 1 .. n : \E a \in 1 .. n : from[a] = k
  <2>1. TAKE k \in 1 .. n
  <2>2. CASE k < i
    BY <1>1, <2>1, <2>2
  <2>3. CASE k = i
    BY <1>1, <2>1, <2>3
  <2>4. CASE k > i
    <3>1. k - 1 \in 1 .. n /\ from[k - 1] = k
      BY <1>1, <2>1, <2>4
    <3>2. QED
      BY <3>1
  <2>5. QED
    BY <1>1, <2>1, <2>2, <2>3, <2>4
<1>10. IsInjective(moved)
  BY <1>1, <1>7, <1>8 DEF Lists, IsInjective
<1>11. Range(moved) = RunId
  <2>1. Range(queue) = RunId
    BY DEF Lists
  <2>2. \A x : x \in Range(queue) <=> x \in Range(moved)
    <3>1. \A x \in Range(moved) : x \in Range(queue)
      BY <1>1, <1>7 DEF Range
    <3>2. ASSUME NEW x \in Range(queue) PROVE x \in Range(moved)
      <4>1. PICK k \in 1 .. n : x = queue[k]
        BY <1>1, <3>2 DEF Range
      <4>2. PICK a \in 1 .. n : from[a] = k
        BY <1>9
      <4>3. QED
        BY <1>7, <4>1, <4>2 DEF Range
    <3>3. QED
      BY <3>1, <3>2
  <2>3. QED
    BY <2>1, <2>2
<1>12. moved = Append(RemoveAt(queue, i), r)
  BY DEF moved, both, front, back, n, RemoveAt
<1>13. QED
  BY <1>6, <1>10, <1>11, <1>12 DEF Lists

LEMMA TouchKeepsList ==
  ASSUME NEW r, Lists(order), Touch(r)
  PROVE  Lists(order')
<1>1. PICK i \in DOMAIN order : order[i] = r /\ order' = Append(RemoveAt(order, i), r)
  BY DEF Touch
<1>2. QED
  BY <1>1, MovedKeepsList

\* The runs in any order.
LEMMA FirstList ==
  ASSUME NEW queue \in SetToSeqs(RunId)
  PROVE  Lists(queue)
<1> DEFINE n == Cardinality(RunId)
<1>1. IsFiniteSet(RunId) /\ n \in Nat
  BY JobsAssumption, FS_CardinalityType
<1>2. queue \in [1 .. n -> RunId] /\ \A i, j \in 1 .. n : i # j => queue[i] # queue[j]
  BY DEF SetToSeqs
<1>3. queue \in Injection(1 .. n, RunId)
  BY <1>2 DEF Injection, IsInjective
<1>4. Cardinality(1 .. n) = n
  BY <1>1, FS_Interval
<1>5. queue \in Surjection(1 .. n, RunId)
  BY <1>1, <1>3, <1>4, FS_Injection
<1>6. Range(queue) = RunId
  BY <1>2, <1>5 DEF Surjection, Range
<1>7. queue \in Seq(RunId)
  BY <1>1, <1>2, SeqDef
<1>8. QED
  BY <1>3, <1>6, <1>7 DEF Lists, Injection

-----------------------------------------------------------------------------
(* What is the same in several actions *)

\* A run's row gets another status, resume stage or request.
LEMMA RowChanges ==
  ASSUME NEW rows \in [RunId -> Row], NEW r \in RunId
  PROVE  /\ \A st \in Stage \cup {None} : [rows EXCEPT ![r].requested = st] \in [RunId -> Row]
         /\ \A st \in Status, rs \in Stage \cup {None} :
              [rows EXCEPT ![r].status = st, ![r].resume = rs] \in [RunId -> Row]
         /\ \A st \in Status : [rows EXCEPT ![r].status = st] \in [RunId -> Row]
         /\ \A row \in Row : [rows EXCEPT ![r] = row] \in [RunId -> Row]
  BY DEF Row

\* A claimed job goes on.
LEMMA JobChanges ==
  ASSUME NEW j \in Jobs
  PROVE  /\ [j EXCEPT !.pc = "executing"] \in Jobs
         /\ \A err \in {"nil", "coverage", "other"} : [j EXCEPT !.pc = "ran", !.err = err] \in Jobs
         /\ \A keep \in BOOLEAN : [j EXCEPT !.pc = "judged", !.keep = keep] \in Jobs
         /\ [j EXCEPT !.pc = "cleared", !.err = "nil"] \in Jobs
         /\ [j EXCEPT !.pc = "cleared", !.err = "nil", !.keep = TRUE] \in Jobs
  BY DEF Jobs

LEMMA RequestTypes ==
  ASSUME JobsInv, NEW r \in RunId
  PROVE  /\ run[r] \in Row
         /\ run[r].status \in Status /\ run[r].resume \in Stage \cup {None}
         /\ run[r].requested \in Stage \cup {None}
         /\ Outstanding(r) \in {None, run[r].requested}
  BY DEF JobsInv, RowsOK, Row, Outstanding

LEMMA NotAStage == None \notin Stage /\ NoExec \notin Execs /\ NoJob \notin Jobs /\ NoJob.pc = "idle"
  BY DEF None, Stage, NoExec, NoRun, Execs, NoJob, Jobs

LEMMA JobsInvInit == Init => JobsInv
<1> SUFFICES ASSUME Init PROVE JobsInv
  OBVIOUS
<1>1. PICK fresh \in RunId :
        \E f \in [RunId \ {fresh} -> {"archived", "verified"}] :
          run = [r \in RunId |->
                  [status |-> IF r = fresh THEN "previewed" ELSE f[r], resume |-> None, requested |-> None]]
  BY DEF Init
<1>2. PICK f \in [RunId \ {fresh} -> {"archived", "verified"}] :
        run = [r \in RunId |->
                [status |-> IF r = fresh THEN "previewed" ELSE f[r], resume |-> None, requested |-> None]]
  BY <1>1
<1>3. /\ run \in [RunId -> Row]
      /\ \A r \in RunId : run[r].status \in {"previewed", "archived", "verified"}
  <2>1. \A r \in RunId : r # fresh => f[r] \in {"archived", "verified"}
    BY <1>2
  <2>2. QED
    BY <1>2, <2>1 DEF Row, Status, Stable
<1>4. Lists(order)
  BY FirstList DEF Init
<1>5. WorkOK /\ AnswersOK /\ ExecutesUnderLock
  BY DEF Init, WorkOK, AnswersOK, ExecutesUnderLock
<1>6. LockHeldInStage
  BY <1>3, JobsAssumption DEF Init, LockHeldInStage, Stage
<1>7. CancelledStaysQuiet
  BY <1>3 DEF CancelledStaysQuiet
<1>8. QED
  BY <1>3, <1>4, <1>5, <1>6, <1>7 DEF JobsInv, RowsOK

\* Asking for a stage touches neither the status of a run nor any work.
LEMMA RequestKeepsInv ==
  ASSUME JobsInv, NEW r \in RunId, NEW stage \in Stage, Request(r, stage), AnswersOK'
  PROVE  JobsInv'
<1>1. run[r].status # "cancelled"
  <2>1. CASE New(r) /\ CanExecute(r, stage)
    BY <2>1 DEF CanExecute, StageBegun, Stage
  <2>2. CASE Outstanding(r) = stage
    <3>1. run[r].requested # None
      BY <2>2, RequestTypes, NotAStage
    <3>2. QED
      BY <3>1 DEF JobsInv, CancelledStaysQuiet
  <2>3. QED
    BY <2>1, <2>2 DEF Request
<1>2. run' = [run EXCEPT ![r].requested = stage] /\ run' \in [RunId -> Row]
  BY RowChanges DEF Request, JobsInv, RowsOK
<1>3. \A q \in RunId : /\ run'[q].status = run[q].status
                       /\ q # r => run'[q].requested = run[q].requested
  BY <1>2 DEF JobsInv, RowsOK, Row
<1>4. Lists(order')
  BY TouchKeepsList DEF Request, JobsInv, RowsOK
<1>5. WorkOK' /\ ExecutesUnderLock' /\ LockHeldInStage'
  BY <1>3, NotAStage DEF Request, JobsInv, WorkOK, ExecutesUnderLock, LockHeldInStage, Execs
<1>6. CancelledStaysQuiet'
  BY <1>1, <1>3 DEF JobsInv, CancelledStaysQuiet
<1>7. QED
  BY <1>2, <1>4, <1>5, <1>6 DEF JobsInv, RowsOK

\* Entering a stage takes the lock.
LEMMA EnterKeepsInv ==
  ASSUME JobsInv, NEW r \in RunId, NEW stage \in Stage, NEW by \in {"runner", "worker", "caller"},
         Enter(r, stage, by), job' \in Jobs \cup {NoJob}, by = "runner" => job'.pc = "executing"
  PROVE  JobsInv'
<1>1. run' = [run EXCEPT ![r].status = stage, ![r].resume = None] /\ run' \in [RunId -> Row]
  <2>1. stage \in Status
    BY DEF Status
  <2>2. QED
    BY <2>1, RowChanges DEF Enter, JobsInv, RowsOK
<1>2. \A q \in RunId : /\ run'[q].requested = run[q].requested
                       /\ run'[q].status = IF q = r THEN stage ELSE run[q].status
  BY <1>1 DEF JobsInv, RowsOK, Row
<1>3. Lists(order')
  BY TouchKeepsList DEF Enter, JobsInv, RowsOK
<1>4. exec' \in Execs /\ exec'.run = r /\ exec'.stage = stage /\ exec'.by = by
  BY DEF Enter, Execs
<1>5. WorkOK' /\ AnswersOK'
  BY <1>4 DEF Enter, JobsInv, WorkOK, AnswersOK
<1>6. ExecutesUnderLock'
  BY <1>2, <1>4 DEF ExecutesUnderLock
<1>7. LockHeldInStage'
  BY <1>2, JobsAssumption DEF Enter, JobsInv, LockHeldInStage
<1>8. CancelledStaysQuiet'
  BY <1>2 DEF JobsInv, CancelledStaysQuiet, Stage
<1>9. QED
  BY <1>1, <1>3, <1>5, <1>6, <1>7, <1>8 DEF JobsInv, RowsOK

\* A stage that ends in a status outside the stages frees the lock.
LEMMA EndKeepsInv ==
  ASSUME JobsInv, exec # NoExec, NEW st \in Status \ (Stage \cup {"cancelled"}),
         run' \in [RunId -> Row],
         \A q \in RunId : /\ run'[q].requested = run[q].requested
                          /\ run'[q].status = IF q = exec.run THEN st ELSE run[q].status,
         Release(exec.run), Touch(exec.run),
         NEW err \in {"nil", "coverage", "other"}, Leave(err)
  PROVE  JobsInv'
<1>1. exec \in Execs /\ exec.run \in RunId /\ run[exec.run].status \in Stage /\ lock = exec.run
  BY DEF JobsInv, WorkOK, Execs, ExecutesUnderLock, LockHeldInStage
<1>2. Lists(order')
  BY TouchKeepsList DEF JobsInv, RowsOK
<1>3. job' \in Jobs \cup {NoJob}
  <2>1. CASE exec.by = "runner"
    BY <2>1, JobChanges, NotAStage DEF JobsInv, WorkOK, ExecutesUnderLock, Leave
  <2>2. CASE exec.by # "runner"
    BY <2>2 DEF JobsInv, WorkOK, Leave
  <2>3. QED
    BY <2>1, <2>2
<1>4. WorkOK' /\ AnswersOK' /\ ExecutesUnderLock'
  BY <1>1, <1>3 DEF JobsInv, WorkOK, AnswersOK, ExecutesUnderLock, Leave, Release
<1>5. LockHeldInStage'
  BY <1>1, JobsAssumption DEF JobsInv, LockHeldInStage, Release
<1>6. CancelledStaysQuiet'
  BY DEF JobsInv, CancelledStaysQuiet
<1>7. QED
  BY <1>2, <1>4, <1>5, <1>6 DEF JobsInv, RowsOK

-----------------------------------------------------------------------------
(* The lock, the types and cancelled runs *)

LEMMA JobsInvStep == JobsInv /\ [Next]_vars => JobsInv'
<1> SUFFICES ASSUME JobsInv, [Next]_vars PROVE JobsInv'
  OBVIOUS
<1> USE NotAStage
<1>1. ASSUME NEW r \in RunId, NEW stage \in Stage, SubmitSatisfied(r, stage)
      PROVE  JobsInv'
  <2>1. run' = [run EXCEPT ![r].requested = None] /\ run' \in [RunId -> Row]
    BY <1>1, RowChanges DEF SubmitSatisfied, JobsInv, RowsOK
  <2>2. \A q \in RunId : /\ run'[q].status = run[q].status
                         /\ run'[q].requested \in {None, run[q].requested}
    BY <2>1 DEF JobsInv, RowsOK, Row
  <2>3. QED
    BY <1>1, <2>1, <2>2 DEF SubmitSatisfied, JobsInv, RowsOK, WorkOK, AnswersOK,
       ExecutesUnderLock, LockHeldInStage, CancelledStaysQuiet, Execs
<1>2. ASSUME NEW r \in RunId, NEW stage \in Stage, SubmitInBackground(r, stage)
      PROVE  JobsInv'
  <2>1. AnswersOK'
    BY <1>2 DEF SubmitInBackground, JobsInv, AnswersOK, Key
  <2>2. QED
    BY <1>2, <2>1, RequestKeepsInv DEF SubmitInBackground
<1>3. ASSUME NEW c \in Caller, NEW r \in RunId, NEW stage \in Stage, SubmitAndWait(c, r, stage)
      PROVE  JobsInv'
  <2>1. AnswersOK'
    BY <1>3 DEF SubmitAndWait, JobsInv, AnswersOK, Key
  <2>2. QED
    BY <1>3, <2>1, RequestKeepsInv DEF SubmitAndWait
<1>4. ASSUME NEW c \in Caller, NEW key \in Key, GiveUp(c, key)
      PROVE  JobsInv'
  BY <1>4 DEF GiveUp, JobsInv, RowsOK, WorkOK, AnswersOK, ExecutesUnderLock, LockHeldInStage,
     CancelledStaysQuiet
<1>5. CASE RunnerEnters
  <2>1. job \in Jobs /\ job.run \in RunId /\ job.stage \in Stage
    BY <1>5 DEF RunnerEnters, JobsInv, WorkOK, Jobs
  <2>2. job' \in Jobs /\ job'.pc = "executing"
    BY <1>5, <2>1, JobChanges DEF RunnerEnters, Jobs
  <2>3. Enter(job.run, job.stage, "runner")
    BY <1>5 DEF RunnerEnters
  <2>4. QED
    BY <2>1, <2>2, <2>3, EnterKeepsInv
<1>6. ASSUME NEW r \in RunId, NEW stage \in Stage, NEW by \in {"worker", "caller"},
             EnterAlone(r, stage, by)
      PROVE  JobsInv'
  <2>1. job' \in Jobs \cup {NoJob}
    BY <1>6 DEF EnterAlone, JobsInv, WorkOK
  <2>2. QED
    BY <1>6, <2>1, EnterKeepsInv DEF EnterAlone
<1>7. ASSUME NEW err \in {"nil", "coverage", "other"}, ReturnEarly(err)
      PROVE  JobsInv'
  <2>1. job' \in Jobs
    BY <1>7, JobChanges DEF ReturnEarly, JobsInv, WorkOK
  <2>2. QED
    BY <1>7, <2>1 DEF ReturnEarly, Free, JobsInv, RowsOK, WorkOK, AnswersOK, ExecutesUnderLock,
       LockHeldInStage, CancelledStaysQuiet
<1>8. CASE Progress
  <2>1. Lists(order')
    BY <1>8, TouchKeepsList DEF Progress, JobsInv, RowsOK
  <2>2. QED
    BY <1>8, <2>1 DEF Progress, JobsInv, RowsOK, WorkOK, AnswersOK, ExecutesUnderLock,
       LockHeldInStage, CancelledStaysQuiet
<1>9. CASE Succeed
  <2>1. exec \in Execs /\ exec.run \in RunId /\ exec.stage \in Stage
    BY <1>9 DEF Succeed, JobsInv, WorkOK, Execs
  <2>2. Done(exec.stage) \in Status \ (Stage \cup {"cancelled"})
    BY <2>1 DEF Done, Status, Stable, Stage
  <2>3. run' = [run EXCEPT ![exec.run].status = Done(exec.stage)] /\ run' \in [RunId -> Row]
    BY <1>9, <2>1, <2>2, RowChanges DEF Succeed, JobsInv, RowsOK
  <2>4. \A q \in RunId : /\ run'[q].requested = run[q].requested
                         /\ run'[q].status = IF q = exec.run THEN Done(exec.stage) ELSE run[q].status
    BY <2>3 DEF JobsInv, RowsOK, Row
  <2>5. QED
    BY <1>9, <2>2, <2>3, <2>4, EndKeepsInv DEF Succeed
<1>10. ASSUME NEW err \in {"coverage", "other"}, Fail(err)
       PROVE  JobsInv'
  <2>1. exec \in Execs /\ exec.run \in RunId /\ exec.stage \in Stage
    BY <1>10 DEF Fail, JobsInv, WorkOK, Execs
  <2>2. "failed" \in Status \ (Stage \cup {"cancelled"})
    BY DEF Status, Stage
  <2>3. /\ run' = [run EXCEPT ![exec.run].status = "failed", ![exec.run].resume = exec.stage]
        /\ run' \in [RunId -> Row]
    BY <1>10, <2>1, <2>2, RowChanges DEF Fail, JobsInv, RowsOK
  <2>4. \A q \in RunId : /\ run'[q].requested = run[q].requested
                         /\ run'[q].status = IF q = exec.run THEN "failed" ELSE run[q].status
    BY <2>3 DEF JobsInv, RowsOK, Row
  <2>5. QED
    BY <1>10, <2>2, <2>3, <2>4, EndKeepsInv DEF Fail
<1>11. CASE FailUnrecorded
  <2>1. exec \in Execs
    BY <1>11 DEF FailUnrecorded, JobsInv, WorkOK
  <2>2. job' \in Jobs \cup {NoJob}
    <3>1. CASE exec.by = "runner"
      BY <1>11, <3>1, JobChanges DEF FailUnrecorded, JobsInv, WorkOK, ExecutesUnderLock, Leave
    <3>2. CASE exec.by # "runner"
      BY <1>11, <3>2 DEF FailUnrecorded, JobsInv, WorkOK, Leave
    <3>3. QED
      BY <3>1, <3>2
  <2>3. QED
    BY <1>11, <2>2 DEF FailUnrecorded, Leave, JobsInv, RowsOK, WorkOK, AnswersOK,
       ExecutesUnderLock, LockHeldInStage, CancelledStaysQuiet
<1>12. CASE Start
  BY <1>12 DEF Start, JobsInv, RowsOK, WorkOK, AnswersOK, ExecutesUnderLock, LockHeldInStage,
     CancelledStaysQuiet
<1>13. CASE Recover
  <2>1. \A q \in RunId : /\ run'[q] \in Row
                         /\ run'[q].status = run[q].status
                         /\ \/ run'[q].requested = run[q].requested
                            \/ run[q].status \in Stage
    BY <1>13 DEF Recover, Interrupted, JobsInv, RowsOK, Row
  <2>2. run' \in [RunId -> Row]
    BY <1>13, <2>1 DEF Recover
  <2>3. "cancelled" \notin Stage
    BY DEF Stage
  <2>4. QED
    BY <1>13, <2>1, <2>2, <2>3 DEF Recover, JobsInv, RowsOK, WorkOK, AnswersOK, ExecutesUnderLock,
       LockHeldInStage, CancelledStaysQuiet, Execs
<1>14. CASE Claim
  <2>1. PICK i \in DOMAIN order :
          /\ run[order[i]].requested # None
          /\ job' = [NoJob EXCEPT !.pc = "claimed", !.run = order[i],
                                  !.stage = run[order[i]].requested]
    BY <1>14 DEF Claim
  <2>2. order[i] \in RunId
    BY <2>1 DEF JobsInv, RowsOK, Lists, Range
  <2>3. job' \in Jobs
    BY <2>1, <2>2, RequestTypes DEF NoJob, Jobs
  <2>4. exec # NoExec => exec.by # "runner"
    BY <1>14 DEF Claim, JobsInv, ExecutesUnderLock
  <2>5. QED
    BY <1>14, <2>3, <2>4 DEF Claim, JobsInv, RowsOK, WorkOK, AnswersOK, ExecutesUnderLock,
       LockHeldInStage, CancelledStaysQuiet
<1>15. CASE Judge
  <2>1. job \in Jobs
    BY <1>15 DEF Judge, JobsInv, WorkOK
  <2>2. job' \in Jobs
    <3> DEFINE keep == job.err # "nil" /\ runner.life = "up" /\ ShouldRetry(job.run, job.stage, job.err)
    <3>1. keep \in BOOLEAN /\ job' = [job EXCEPT !.pc = "judged", !.keep = keep]
      BY <1>15 DEF Judge
    <3> HIDE DEF keep
    <3>2. QED
      BY <2>1, <3>1, JobChanges
  <2>3. exec # NoExec => exec.by # "runner"
    BY <1>15 DEF Judge, JobsInv, ExecutesUnderLock
  <2>4. QED
    BY <1>15, <2>2, <2>3 DEF Judge, JobsInv, RowsOK, WorkOK, AnswersOK, ExecutesUnderLock,
       LockHeldInStage, CancelledStaysQuiet
<1>16. CASE Clear
  <2>1. job \in Jobs /\ job.run \in RunId
    BY <1>16 DEF Clear, JobsInv, WorkOK, Jobs
  <2>2. job' \in Jobs
    BY <1>16, <2>1, JobChanges DEF Clear
  <2>3. Cleared(job.run, job.stage) \in {None, run[job.run].requested}
    BY DEF Cleared
  <2>4. \/ run' = run
        \/ run' = [run EXCEPT ![job.run].requested = Cleared(job.run, job.stage)]
    BY <1>16 DEF Clear
  <2>5. run' \in [RunId -> Row]
    BY <2>1, <2>3, <2>4, RowChanges, RequestTypes DEF JobsInv, RowsOK
  <2>6. \A q \in RunId : /\ run'[q].status = run[q].status
                         /\ run'[q].requested \in {None, run[q].requested}
    BY <2>1, <2>3, <2>4 DEF JobsInv, RowsOK, Row
  <2>7. exec # NoExec => exec.by # "runner"
    BY <1>16 DEF Clear, JobsInv, ExecutesUnderLock
  <2>8. QED
    BY <1>16, <2>2, <2>5, <2>6, <2>7 DEF Clear, JobsInv, RowsOK, WorkOK, AnswersOK,
       ExecutesUnderLock, LockHeldInStage, CancelledStaysQuiet, Execs
<1>17. CASE ClearFails
  <2>1. job' \in Jobs
    BY <1>17, JobChanges DEF ClearFails, JobsInv, WorkOK
  <2>2. exec # NoExec => exec.by # "runner"
    BY <1>17 DEF ClearFails, JobsInv, ExecutesUnderLock
  <2>3. QED
    BY <1>17, <2>1, <2>2 DEF ClearFails, JobsInv, RowsOK, WorkOK, AnswersOK, ExecutesUnderLock,
       LockHeldInStage, CancelledStaysQuiet
<1>18. CASE Finish
  <2>1. job \in Jobs /\ <<job.run, job.stage>> \in Key
    BY <1>18 DEF Finish, JobsInv, WorkOK, Jobs, Key
  <2>2. AnswersOK'
    BY <1>18, <2>1 DEF Finish, JobsInv, AnswersOK
  <2>3. exec # NoExec => exec.by # "runner"
    BY <1>18 DEF Finish, JobsInv, ExecutesUnderLock
  <2>4. QED
    BY <1>18, <2>2, <2>3 DEF Finish, JobsInv, RowsOK, WorkOK, ExecutesUnderLock,
       LockHeldInStage, CancelledStaysQuiet
<1>19. ASSUME NEW r \in RunId, CancelRun(r)
       PROVE  JobsInv'
  <2>1. CancelledRow(r) \in Row /\ CancelledRow(r).requested = None
        /\ CancelledRow(r).status = "cancelled" /\ "cancelled" \notin Stage
    BY DEF CancelledRow, Row, Status, Stable, Stage
  <2>2. run' = [run EXCEPT ![r] = CancelledRow(r)] /\ run' \in [RunId -> Row]
    BY <1>19, <2>1, RowChanges DEF CancelRun, JobsInv, RowsOK
  <2>3. \A q \in RunId : run'[q] = IF q = r THEN CancelledRow(r) ELSE run[q]
    BY <2>2 DEF JobsInv, RowsOK
  <2>4. Lists(order')
    BY <1>19, TouchKeepsList DEF CancelRun, JobsInv, RowsOK
  <2>5. run[r].status \notin Stage
    BY <1>19 DEF CancelRun, Stage
  <2>6. lock # r /\ lock' = lock
    BY <1>19, <2>5 DEF CancelRun, Release, JobsInv, LockHeldInStage
  <2>7. QED
    BY <1>19, <2>1, <2>2, <2>3, <2>4, <2>5, <2>6 DEF CancelRun, Free, JobsInv, RowsOK, WorkOK,
       AnswersOK, ExecutesUnderLock, LockHeldInStage, CancelledStaysQuiet
<1>20. CASE DiscardRun
  BY <1>20 DEF DiscardRun, JobsInv, RowsOK, WorkOK, AnswersOK, ExecutesUnderLock,
     LockHeldInStage, CancelledStaysQuiet
<1>21. CASE StopRunner
  BY <1>21 DEF StopRunner, JobsInv, RowsOK, WorkOK, AnswersOK, ExecutesUnderLock,
     LockHeldInStage, CancelledStaysQuiet
<1>22. CASE LoopEnds
  BY <1>22 DEF LoopEnds, Forget, JobsInv, RowsOK, WorkOK, AnswersOK, ExecutesUnderLock,
     LockHeldInStage, CancelledStaysQuiet
<1>23. CASE Crash
  BY <1>23 DEF Crash, Forget, JobsInv, RowsOK, WorkOK, AnswersOK, ExecutesUnderLock,
     LockHeldInStage, CancelledStaysQuiet
<1>24. CASE UNCHANGED vars
  BY <1>24 DEF vars, JobsInv, RowsOK, WorkOK, AnswersOK, ExecutesUnderLock,
     LockHeldInStage, CancelledStaysQuiet
<1>25. QED
  BY <1>1, <1>2, <1>3, <1>4, <1>5, <1>6, <1>7, <1>8, <1>9, <1>10, <1>11, <1>12, <1>13, <1>14,
     <1>15, <1>16, <1>17, <1>18, <1>19, <1>20, <1>21, <1>22, <1>23, <1>24
     DEF Next, Ask, Return, Loop, WorkerEnters, CallerEnters

LEMMA JobsInvHolds == Spec => []JobsInv
BY JobsInvInit, JobsInvStep, PTL DEF Spec

\* Whatever crashes, stops, failures and cancellations do, the columns keep
\* their types, a cancelled run is never requested, and the maintenance lock
\* belongs to exactly the runs inside a stage.
THEOREM RequestsStayConsistent == Spec => []RequestsConsistent
<1>1. JobsInv => RequestsConsistent
  <2> SUFFICES ASSUME JobsInv PROVE RequestsConsistent
    OBVIOUS
  <2>1. run \in [RunId -> [status : Status, resume : Stage \cup {None}, requested : Stage \cup {None}]]
    BY DEF JobsInv, RowsOK, Row
  <2>2. exec.run \in RunId \cup {NoRun}
    BY DEF JobsInv, WorkOK, Execs, NoExec
  <2>3. job.run \in RunId \cup {NoRun}
    BY DEF JobsInv, WorkOK, Jobs, NoJob
  <2>4. QED
    BY <2>1, <2>2, <2>3 DEF JobsInv, RowsOK, Lists, WorkOK, AnswersOK, RequestsConsistent, JobsTypeOK
<1>2. QED
  BY <1>1, JobsInvHolds, PTL

-----------------------------------------------------------------------------
(* What a step may do to one run *)

SameStatus(r) == run'[r].status = run[r].status /\ run'[r].resume = run[r].resume

\* Somebody who may do so enters a stage.
Entered(r) ==
    \E stage \in Stage :
        /\ CanExecute(r, stage)
        /\ run'[r].status = stage /\ run'[r].resume = None
        /\ stage = "deleting" => r \in asked' \/ (job.run = r /\ job.stage = "deleting")

Ended(r) ==
    /\ exec # NoExec /\ exec.run = r
    /\ \/ run'[r].status = Done(exec.stage)
       \/ run'[r].status = "failed" /\ run'[r].resume = exec.stage

StatusMoves(r) ==
    SameStatus(r) \/ Entered(r) \/ Ended(r) \/ (run'[r].status = "cancelled" /\ cancelled' = r)

\* A request may go once it is satisfied, claimed or cancelled.
Dropped(r) ==
    /\ run'[r].requested = None
    /\ \/ run[r].requested # None /\ Satisfied(r, run[r].requested)
       \/ job.run = r /\ job.stage = run[r].requested
       \/ cancelled' = r

\* A new request replaces none that is still to be served.
Renewed(r) ==
    /\ run[r].requested = None \/ Satisfied(r, run[r].requested)
    /\ run'[r].requested \in Stage
    /\ run'[r].requested = "deleting" => r \in asked' \/ run[r].status = "deleting"

RequestMoves(r) == run'[r].requested = run[r].requested \/ Dropped(r) \/ Renewed(r)

LEMMA RunnerHolds ==
  ASSUME JobsInv, job # NoJob
  PROVE  job \in Jobs /\ job.run \in RunId /\ job.stage \in Stage
  BY DEF JobsInv, WorkOK, Jobs

LEMMA ExecHolds ==
  ASSUME JobsInv, exec # NoExec
  PROVE  exec \in Execs /\ exec.run \in RunId /\ exec.stage \in Stage
  BY DEF JobsInv, WorkOK, Execs

LEMMA RequestMovesRow ==
  ASSUME JobsInv, NEW r \in RunId, NEW stage \in Stage, Request(r, stage), NEW q \in RunId
  PROVE  StatusMoves(q) /\ RequestMoves(q)
<1>1. run' = [run EXCEPT ![r].requested = stage]
  BY DEF Request
<1>2. /\ SameStatus(q) /\ run'[q].requested = IF q = r THEN stage ELSE run[q].requested
  BY <1>1 DEF JobsInv, RowsOK, Row, SameStatus
<1>3. \/ run[r].requested \in {None, stage}
      \/ Satisfied(r, run[r].requested)
  BY NotAStage DEF Request, New, Outstanding
<1>4. stage = "deleting" => r \in asked'
  BY DEF Request
<1>5. QED
  BY <1>2, <1>3, <1>4 DEF StatusMoves, RequestMoves, Renewed

LEMMA EnterMovesRow ==
  ASSUME JobsInv, NEW r \in RunId, NEW stage \in Stage, NEW by, Enter(r, stage, by),
         stage = "deleting" => r \in asked' \/ (job.run = r /\ job.stage = "deleting"),
         NEW q \in RunId
  PROVE  StatusMoves(q) /\ RequestMoves(q)
<1>1. run' = [run EXCEPT ![r].status = stage, ![r].resume = None]
  BY DEF Enter
<1>2. /\ run'[q].requested = run[q].requested
      /\ IF q = r THEN run'[q].status = stage /\ run'[q].resume = None ELSE SameStatus(q)
  BY <1>1 DEF JobsInv, RowsOK, Row, SameStatus
<1>3. CanExecute(r, stage)
  BY DEF Enter
<1>4. QED
  BY <1>2, <1>3 DEF StatusMoves, RequestMoves, Entered

LEMMA StepMovesRow ==
  ASSUME JobsInv, [Next]_vars, NEW q \in RunId
  PROVE  StatusMoves(q) /\ RequestMoves(q)
<1>1. ASSUME NEW r \in RunId, NEW stage \in Stage, SubmitSatisfied(r, stage)
      PROVE  StatusMoves(q) /\ RequestMoves(q)
  <2>1. run' = [run EXCEPT ![r].requested = None]
    BY <1>1 DEF SubmitSatisfied
  <2>2. /\ SameStatus(q) /\ run'[q].requested = IF q = r THEN None ELSE run[q].requested
    BY <2>1 DEF JobsInv, RowsOK, Row, SameStatus
  <2>3. run[r].requested # None /\ Satisfied(r, run[r].requested)
    BY <1>1 DEF SubmitSatisfied, Outstanding
  <2>4. QED
    BY <2>2, <2>3 DEF StatusMoves, RequestMoves, Dropped
<1>2. ASSUME NEW r \in RunId, NEW stage \in Stage, Request(r, stage)
      PROVE  StatusMoves(q) /\ RequestMoves(q)
  BY <1>2, RequestMovesRow
<1>3. CASE RunnerEnters
  <2>1. job.run \in RunId /\ job.stage \in Stage
    BY <1>3, RunnerHolds, NotAStage DEF RunnerEnters
  <2>2. Enter(job.run, job.stage, "runner")
    BY <1>3 DEF RunnerEnters
  <2>3. QED
    BY <2>1, <2>2, EnterMovesRow
<1>4. ASSUME NEW r \in RunId, NEW stage \in Stage, NEW by, EnterAlone(r, stage, by)
      PROVE  StatusMoves(q) /\ RequestMoves(q)
  <2>1. stage = "deleting" => r \in asked'
    BY <1>4 DEF EnterAlone
  <2>2. Enter(r, stage, by)
    BY <1>4 DEF EnterAlone
  <2>3. QED
    BY <2>1, <2>2, EnterMovesRow
<1>5. CASE Succeed
  <2>1. exec # NoExec /\ exec.run \in RunId
    BY <1>5, ExecHolds DEF Succeed
  <2>2. run' = [run EXCEPT ![exec.run].status = Done(exec.stage)]
    BY <1>5 DEF Succeed
  <2>3. /\ run'[q].requested = run[q].requested
        /\ IF q = exec.run THEN run'[q].status = Done(exec.stage) ELSE SameStatus(q)
    BY <2>1, <2>2 DEF JobsInv, RowsOK, Row, SameStatus
  <2>4. QED
    BY <2>1, <2>3 DEF StatusMoves, RequestMoves, Ended
<1>6. ASSUME NEW err \in {"coverage", "other"}, Fail(err)
      PROVE  StatusMoves(q) /\ RequestMoves(q)
  <2>1. exec # NoExec /\ exec.run \in RunId
    BY <1>6, ExecHolds DEF Fail
  <2>2. run' = [run EXCEPT ![exec.run].status = "failed", ![exec.run].resume = exec.stage]
    BY <1>6 DEF Fail
  <2>3. /\ run'[q].requested = run[q].requested
        /\ IF q = exec.run THEN run'[q].status = "failed" /\ run'[q].resume = exec.stage
           ELSE SameStatus(q)
    BY <2>1, <2>2 DEF JobsInv, RowsOK, Row, SameStatus
  <2>4. QED
    BY <2>1, <2>3 DEF StatusMoves, RequestMoves, Ended
<1>7. CASE Recover
  <2>1. run'[q] = IF Interrupted(q) THEN [run[q] EXCEPT !.requested = run[q].status] ELSE run[q]
    BY <1>7 DEF Recover
  <2>2. CASE Interrupted(q)
    <3>1. SameStatus(q) /\ run'[q].requested = run[q].status
      BY <2>1, <2>2 DEF JobsInv, RowsOK, Row, SameStatus
    <3>2. run[q].requested = None /\ run[q].status \in Stage
      BY <2>2 DEF Interrupted
    <3>3. QED
      BY <3>1, <3>2 DEF StatusMoves, RequestMoves, Renewed
  <2>3. CASE ~Interrupted(q)
    BY <2>1, <2>3 DEF StatusMoves, RequestMoves, SameStatus
  <2>4. QED
    BY <2>2, <2>3
<1>8. CASE Clear
  <2>1. job.run \in RunId
    BY <1>8, RunnerHolds, NotAStage DEF Clear
  <2>2. \/ run' = run
        \/ run' = [run EXCEPT ![job.run].requested = Cleared(job.run, job.stage)]
    BY <1>8 DEF Clear
  <2>3. /\ SameStatus(q)
        /\ \/ run'[q].requested = run[q].requested
           \/ q = job.run /\ run'[q].requested = Cleared(job.run, job.stage)
    BY <2>1, <2>2 DEF JobsInv, RowsOK, Row, SameStatus
  <2>4. QED
    BY <2>3 DEF StatusMoves, RequestMoves, Dropped, Cleared
<1>9. ASSUME NEW r \in RunId, CancelRun(r)
      PROVE  StatusMoves(q) /\ RequestMoves(q)
  <2>1. run' = [run EXCEPT ![r] = CancelledRow(r)] /\ cancelled' = r
    BY <1>9 DEF CancelRun
  <2>2. run'[q] = IF q = r THEN CancelledRow(r) ELSE run[q]
    BY <2>1 DEF JobsInv, RowsOK
  <2>3. QED
    BY <2>1, <2>2 DEF CancelledRow, StatusMoves, SameStatus, RequestMoves, Dropped
<1>10. CASE UNCHANGED run
  BY <1>10 DEF StatusMoves, SameStatus, RequestMoves
<1>11. QED
  BY <1>1, <1>2, <1>3, <1>4, <1>5, <1>6, <1>7, <1>8, <1>9, <1>10
     DEF Next, Ask, Return, Loop, SubmitInBackground, SubmitAndWait, GiveUp, WorkerEnters,
         CallerEnters, ReturnEarly, Progress, FailUnrecorded, Start, Claim, Judge, ClearFails,
         Finish, DiscardRun, StopRunner, LoopEnds, Crash, vars

-----------------------------------------------------------------------------
(* Deletions *)

\* A request, and what the runner has claimed, is the trace of somebody's
\* having asked; so the stage that is entered has been asked for.
AskedInv ==
    /\ NoUnaskedDeletion
    /\ \A r \in RunId : run[r].requested = "deleting" => r \in asked
    /\ \A r \in RunId : job.run = r /\ job.stage = "deleting" => r \in asked

\* A claim is forgotten only when it is finished, or in a crash.
LEMMA JobStays ==
  ASSUME JobsInv, [Next]_vars, ~Claim, ~Finish, ~Crash
  PROVE  job'.run = job.run /\ job'.stage = job.stage
<1> USE NotAStage
<1>1. CASE RunnerEnters
  <2>1. job \in Jobs
    BY <1>1, RunnerHolds DEF RunnerEnters
  <2>2. QED
    BY <1>1, <2>1 DEF RunnerEnters, Jobs
<1>2. CASE Judge
  <2>1. job \in Jobs
    BY <1>2, RunnerHolds DEF Judge
  <2>2. QED
    BY <1>2, <2>1 DEF Judge, Jobs
<1>3. CASE Clear \/ ClearFails
  <2>1. job \in Jobs
    BY <1>3, RunnerHolds DEF Clear, ClearFails
  <2>2. QED
    BY <1>3, <2>1 DEF Clear, ClearFails, Jobs
<1>4. ASSUME NEW err, ReturnEarly(err)
      PROVE  job'.run = job.run /\ job'.stage = job.stage
  <2>1. job \in Jobs
    BY <1>4, RunnerHolds DEF ReturnEarly
  <2>2. QED
    BY <1>4, <2>1 DEF ReturnEarly, Jobs
<1>5. ASSUME NEW err, Leave(err)
      PROVE  job'.run = job.run /\ job'.stage = job.stage
  <2>1. CASE job' = job
    BY <2>1
  <2>2. CASE job' = [job EXCEPT !.pc = "ran", !.err = err]
    <3>1. job \in Jobs \cup {NoJob}
      BY DEF JobsInv, WorkOK
    <3>2. QED
      BY <2>2, <3>1 DEF Jobs, NoJob
  <2>3. QED
    BY <1>5, <2>1, <2>2 DEF Leave
<1>6. CASE UNCHANGED job
  BY <1>6
<1>7. QED
  BY <1>1, <1>2, <1>3, <1>4, <1>5, <1>6
     DEF Next, Ask, Return, Loop, SubmitSatisfied, SubmitInBackground, SubmitAndWait, Request,
         GiveUp, WorkerEnters, CallerEnters, EnterAlone, Progress, Succeed, Fail,
         FailUnrecorded, Start, Recover, CancelRun, DiscardRun, StopRunner, LoopEnds, vars

LEMMA JobMoves ==
  ASSUME JobsInv, [Next]_vars
  PROVE  /\ asked \subseteq asked'
         /\ \/ job' = NoJob
            \/ job'.run = job.run /\ job'.stage = job.stage
            \/ job'.run \in RunId /\ job'.stage = run[job'.run].requested
<1>1. CASE Claim
  <2>1. PICK i \in DOMAIN order :
          job' = [NoJob EXCEPT !.pc = "claimed", !.run = order[i],
                               !.stage = run[order[i]].requested]
    BY <1>1 DEF Claim
  <2>2. order[i] \in RunId
    BY DEF JobsInv, RowsOK, Lists, Range
  <2>3. QED
    BY <1>1, <2>1, <2>2 DEF Claim, NoJob
<1>2. CASE Finish \/ Crash
  BY <1>2 DEF Finish, Crash
<1>3. asked \subseteq asked'
  BY DEF Next, Ask, Return, Loop, SubmitSatisfied, SubmitInBackground, SubmitAndWait, Request,
         GiveUp, RunnerEnters, WorkerEnters, CallerEnters, EnterAlone, Enter, ReturnEarly, Progress, Succeed, Fail,
         FailUnrecorded, Leave, Start, Recover, Claim, Judge, Clear, ClearFails, Finish,
         CancelRun, DiscardRun, StopRunner, LoopEnds, Crash, vars
<1>4. QED
  BY <1>1, <1>2, <1>3, JobStays

LEMMA AskedInvStep == JobsInv /\ AskedInv /\ [Next]_vars => AskedInv'
<1> SUFFICES ASSUME JobsInv, AskedInv, [Next]_vars PROVE AskedInv'
  OBVIOUS
<1>1. asked \subseteq asked'
  BY JobMoves
<1>2. ASSUME NEW r \in RunId
      PROVE  \/ run'[r].status \in {"deleting", "completed"}
             \/ run'[r].status = "failed" /\ run'[r].resume = "deleting"
             => r \in asked'
  <2>1. StatusMoves(r)
    BY <1>2, StepMovesRow
  <2>2. CASE SameStatus(r)
    BY <1>1, <2>2 DEF AskedInv, NoUnaskedDeletion, SameStatus
  <2>3. CASE Entered(r)
    <3>1. PICK stage \in Stage :
            /\ run'[r].status = stage /\ run'[r].resume = None
            /\ stage = "deleting" => r \in asked' \/ (job.run = r /\ job.stage = "deleting")
      BY <2>3 DEF Entered
    <3>2. QED
      BY <1>1, <3>1 DEF AskedInv, Stage
  <2>4. CASE Ended(r)
    <3>1. exec.stage \in Stage /\ run[r].status = exec.stage
      BY <2>4, ExecHolds DEF Ended, JobsInv, ExecutesUnderLock
    <3>2. \/ run'[r].status \in {"deleting", "completed"}
          \/ run'[r].status = "failed" /\ run'[r].resume = "deleting"
          => exec.stage = "deleting"
      BY <2>4, <3>1 DEF Ended, Done, Stage
    <3>3. QED
      BY <1>1, <3>1, <3>2 DEF AskedInv, NoUnaskedDeletion
  <2>5. QED
    BY <2>1, <2>2, <2>3, <2>4 DEF StatusMoves
<1>3. ASSUME NEW r \in RunId, run'[r].requested = "deleting"
      PROVE  r \in asked'
  <2>1. RequestMoves(r)
    BY <1>3, StepMovesRow
  <2>2. CASE run'[r].requested = run[r].requested
    BY <1>1, <1>3, <2>2 DEF AskedInv
  <2>3. CASE Dropped(r)
    BY <1>3, <2>3, NotAStage DEF Dropped, Stage
  <2>4. CASE Renewed(r)
    BY <1>1, <1>3, <2>4 DEF Renewed, AskedInv, NoUnaskedDeletion
  <2>5. QED
    BY <2>1, <2>2, <2>3, <2>4 DEF RequestMoves
<1>4. ASSUME NEW r \in RunId, job'.run = r, job'.stage = "deleting"
      PROVE  r \in asked'
  <2>1. job' # NoJob
    BY <1>4 DEF NoJob, None
  <2>2. QED
    BY <1>1, <1>4, <2>1, JobMoves DEF AskedInv
<1>5. QED
  BY <1>2, <1>3, <1>4 DEF AskedInv, NoUnaskedDeletion

\* Through crashes, recovered requests, retries and claimed jobs, no run is
\* deleted, and no deletion begins, unless somebody asked for it.
THEOREM DeletionIsAskedFor == Spec => []NoUnaskedDeletion
<1>1. Init => AskedInv
  <2> SUFFICES ASSUME Init PROVE AskedInv
    OBVIOUS
  <2>1. PICK fresh \in RunId :
          \E f \in [RunId \ {fresh} -> {"archived", "verified"}] :
            run = [r \in RunId |->
                    [status |-> IF r = fresh THEN "previewed" ELSE f[r], resume |-> None, requested |-> None]]
    BY DEF Init
  <2>2. PICK f \in [RunId \ {fresh} -> {"archived", "verified"}] :
          run = [r \in RunId |->
                  [status |-> IF r = fresh THEN "previewed" ELSE f[r], resume |-> None, requested |-> None]]
    BY <2>1
  <2>3. ASSUME NEW r \in RunId
        PROVE  run[r].status \in {"previewed", "archived", "verified"} /\ run[r].requested = None
    <3>1. r # fresh => f[r] \in {"archived", "verified"}
      BY <2>2
    <3>2. QED
      BY <2>2, <3>1
  <2>4. job.stage # "deleting"
    BY DEF Init, NoJob, None
  <2>5. QED
    BY <2>3, <2>4 DEF AskedInv, NoUnaskedDeletion, None
<1>2. AskedInv => NoUnaskedDeletion
  BY DEF AskedInv
<1>3. QED
  BY <1>1, <1>2, JobsInvHolds, AskedInvStep, PTL DEF Spec

-----------------------------------------------------------------------------
(* Waiting callers *)

\* A run that is past a stage stays past it, unless it is cancelled.
LEMMA PastStageStays ==
  ASSUME JobsInv, [Next]_vars, NEW r \in RunId, NEW stage \in Stage, PastStage(r, stage)
  PROVE  PastStage(r, stage)' \/ cancelled' = r
<1>1. StatusMoves(r)
  BY StepMovesRow
<1>2. CASE SameStatus(r)
  BY <1>2 DEF SameStatus, PastStage, Satisfied
<1>3. CASE Entered(r)
  <2>1. PICK next \in Stage :
          CanExecute(r, next) /\ run'[r].status = next /\ run'[r].resume = None
    BY <1>3 DEF Entered
  <2>2. QED
    BY <2>1 DEF CanExecute, StageBegun, PastStage, Satisfied, After, Stage
<1>4. CASE Ended(r)
  <2>1. exec.stage \in Stage /\ run[r].status = exec.stage
    BY <1>4, ExecHolds DEF Ended, JobsInv, ExecutesUnderLock
  <2>2. stage \in {"archiving", "verifying"}
    BY <2>1 DEF PastStage, Satisfied, After, Stage
  <2>3. CASE run'[r].status = Done(exec.stage)
    BY <2>1, <2>2, <2>3 DEF PastStage, Satisfied, After, Done, Stage
  <2>4. CASE run'[r].status = "failed" /\ run'[r].resume = exec.stage
    BY <2>1, <2>2, <2>4 DEF PastStage, Satisfied, After, Stage
  <2>5. QED
    BY <1>4, <2>3, <2>4 DEF Ended
<1>5. QED
  BY <1>1, <1>2, <1>3, <1>4 DEF StatusMoves

\* Who forgets a claim or a cancellation answers those who wait for it.
LEMMA AnswersFirst ==
  ASSUME JobsInv, [Next]_vars, NEW k \in Key, waiters'[k] # {}
  PROVE  /\ waiters[k] # {} \/ run'[k[1]].requested = k[2]
         /\ job.run = k[1] /\ job.stage = k[2] => job'.run = k[1] /\ job'.stage = k[2]
         /\ cancelled = k[1] => cancelled' = k[1]
<1> USE NotAStage
<1>1. k[1] \in RunId /\ k[2] \in Stage /\ k = <<k[1], k[2]>>
  BY DEF Key
<1>2. k[1] # NoRun /\ NoJob.run = NoRun
  BY <1>1, JobsAssumption DEF NoJob
<1>3. waiters \in [Key -> SUBSET Caller]
  BY DEF JobsInv, AnswersOK
<1>4. ASSUME NEW c \in Caller, NEW r \in RunId, NEW stage \in Stage, SubmitAndWait(c, r, stage)
      PROVE  /\ waiters[k] # {} \/ run'[k[1]].requested = k[2]
             /\ UNCHANGED <<job, cancelled>>
  <2>1. waiters' = [waiters EXCEPT ![<<r, stage>>] = @ \cup {c}] /\ UNCHANGED <<job, cancelled>>
        /\ run' = [run EXCEPT ![r].requested = stage]
    BY <1>4 DEF SubmitAndWait, Request
  <2>2. run'[r].requested = stage
    BY <2>1 DEF JobsInv, RowsOK, Row
  <2>3. k # <<r, stage>> => waiters'[k] = waiters[k]
    BY <1>3, <2>1
  <2>4. QED
    BY <2>1, <2>2, <2>3
<1>5. ASSUME NEW c \in Caller, NEW key \in Key, GiveUp(c, key)
      PROVE  waiters[k] # {} /\ UNCHANGED <<job, cancelled>>
  BY <1>3, <1>5 DEF GiveUp
<1>6. CASE Finish
  <2>1. k # <<job.run, job.stage>> /\ waiters'[k] = waiters[k]
    BY <1>3, <1>6 DEF Finish
  <2>2. QED
    BY <1>1, <1>6, <2>1 DEF Finish
<1>7. CASE DiscardRun
  BY <1>7 DEF DiscardRun
<1>8. CASE Crash \/ LoopEnds
  BY <1>8 DEF Crash, LoopEnds, Forget
<1>9. CASE Claim
  BY <1>2, <1>9 DEF Claim
<1>10. ASSUME NEW r \in RunId, CancelRun(r)
       PROVE  waiters[k] # {} /\ UNCHANGED job /\ cancelled # k[1]
  BY <1>2, <1>10 DEF CancelRun, Free
<1>11. QED
  <2>1. CASE UNCHANGED <<waiters, cancelled>>
    BY <1>6, <1>8, <1>9, <2>1, JobStays
  <2>2. CASE ~UNCHANGED <<waiters, cancelled>>
    BY <1>4, <1>5, <1>6, <1>7, <1>8, <1>10, <2>2
       DEF Next, Ask, Return, Loop, SubmitSatisfied, SubmitInBackground, Request, RunnerEnters,
           WorkerEnters, CallerEnters, EnterAlone, Enter, ReturnEarly, Progress, Succeed, Fail, FailUnrecorded, Leave,
           Start, Recover, Claim, Judge, Clear, ClearFails, StopRunner, vars
  <2>3. QED
    BY <2>1, <2>2

LEMMA WaitersStep == JobsInv /\ WaitersAreServed /\ [Next]_vars => WaitersAreServed'
<1> SUFFICES ASSUME JobsInv, WaitersAreServed, [Next]_vars, NEW k \in Key, waiters'[k] # {}
             PROVE  \/ run'[k[1]].requested = k[2]
                    \/ job'.run = k[1] /\ job'.stage = k[2]
                    \/ cancelled' = k[1]
                    \/ PastStage(k[1], k[2])'
  BY DEF WaitersAreServed
<1>1. k[1] \in RunId /\ k[2] \in Stage
  BY DEF Key
<1>2. CASE run'[k[1]].requested = k[2]
  BY <1>2
<1>3. CASE job.run = k[1] /\ job.stage = k[2]
  BY <1>3, AnswersFirst
<1>4. CASE cancelled = k[1]
  BY <1>4, AnswersFirst
<1>5. CASE PastStage(k[1], k[2])
  BY <1>1, <1>5, PastStageStays
<1>6. CASE run[k[1]].requested = k[2] /\ run'[k[1]].requested # k[2]
  <2>1. Dropped(k[1]) \/ Renewed(k[1])
    BY <1>1, <1>6, StepMovesRow DEF RequestMoves
  <2>2. Satisfied(k[1], k[2]) => PastStage(k[1], k[2])
    BY DEF PastStage
  <2>3. CASE Dropped(k[1])
    BY <1>3, <1>5, <1>6, <2>2, <2>3 DEF Dropped
  <2>4. CASE Renewed(k[1])
    BY <1>1, <1>5, <1>6, <2>2, <2>4, NotAStage DEF Renewed
  <2>5. QED
    BY <2>1, <2>3, <2>4
<1>7. QED
  BY <1>2, <1>3, <1>4, <1>5, <1>6, AnswersFirst DEF WaitersAreServed

\* No interleaving of requests, cancellations, retries, stops and crashes
\* leaves a caller waiting for a stage that is neither requested nor claimed,
\* not about to be answered by a cancellation, and not passed.
THEOREM NobodyWaitsForNothing == Spec => []WaitersAreServed
<1>1. Init => WaitersAreServed
  BY DEF Init, WaitersAreServed
<1>2. QED
  BY <1>1, JobsInvHolds, WaitersStep, PTL DEF Spec
=============================================================================
