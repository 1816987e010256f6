---------------------------- MODULE ArchiveJobs ----------------------------
(***************************************************************************)
(* The background runner of archive stages.  A caller asks for a stage of  *)
(* a run; the request is a column of the run's row, so it survives a       *)
(* restart.  One goroutine claims the oldest requested run, executes the   *)
(* stage inside archiveManager.mu, decides whether to try again, clears    *)
(* the request and answers the callers that wait.  These are separate      *)
(* steps: callers join, leave and ask again in between.  The retention     *)
(* worker executes stages of its runs without the runner, so do callers    *)
(* while there is none, and a run may be cancelled when no stage executes. *)
(*                                                                         *)
(* What a stage does is the subject of UsageArchive; here it is entered,   *)
(* touches its row while it progresses, and succeeds or fails.             *)
(***************************************************************************)
EXTENDS Integers, SequencesExt

CONSTANTS
    RunId,       \* archive runs
    Retention,   \* the runs of the retention worker
    Caller,      \* HTTP requests that may wait for a result
    MaxFaults    \* bound on crashes, restarts and unrecorded failures

NoRun == "none"

ASSUME JobsAssumption ==
    /\ IsFiniteSet(RunId) /\ NoRun \notin RunId
    /\ Retention \subseteq RunId
    /\ MaxFaults \in Nat

VARIABLES
    run,       \* status, resume status and requested stage of each run
    order,     \* the runs by updated_at_ms, the oldest first
    lock,      \* the run that holds the maintenance lock
    exec,      \* the stage that executes inside archiveManager.mu
    cancelled, \* the run whose cancellation has committed inside archiveManager.mu
    runner,    \* life of the runner, and whether it has recovered requests
    job,       \* what the runner has claimed and how far it is
    policy,    \* retryOnError
    waiters,   \* the callers that wait for each stage of each run
    asked,     \* history: the runs whose deletion somebody asked for
    faults     \* faults so far

vars == <<run, order, lock, exec, cancelled, runner, job, policy, waiters, asked, faults>>

Stage == {"archiving", "verifying", "deleting"}
Key == RunId \X Stage
None == "none"
NoExec == [by |-> "nobody", run |-> NoRun, stage |-> None]
NoJob == [pc |-> "idle", run |-> NoRun, stage |-> None, err |-> "nil", keep |-> FALSE]

Stable == {"previewed", "archived", "verified", "completed", "cancelled"}
Status == Stage \cup Stable \cup {"failed"}

\* A manual run that is archived or verified does not keep another one from
\* being created, so at most one run is earlier than that.
Init ==
    /\ \E fresh \in RunId :
         \E f \in [RunId \ {fresh} -> {"archived", "verified"}] :
           /\ \A r \in RunId \ {fresh} : r \notin Retention
           /\ run = [r \in RunId |->
                [status |-> IF r = fresh THEN "previewed" ELSE f[r], resume |-> None, requested |-> None]]
    /\ order \in SetToSeqs(RunId)
    /\ lock = NoRun
    /\ exec = NoExec
    /\ cancelled = NoRun
    /\ runner = [life |-> "down", recovered |-> FALSE]
    /\ job = NoJob
    /\ policy = [k \in Key |-> "unset"]
    /\ waiters = [k \in Key |-> {}]
    /\ asked = {}
    /\ faults = 0

\* updated_at_ms = now
Touch(r) ==
    \E i \in DOMAIN order : order[i] = r /\ order' = Append(RemoveAt(order, i), r)

-----------------------------------------------------------------------------
(* The state machine of a run, as the request side sees it *)

StageBegun(stage) ==
    CASE stage = "archiving" -> {"previewed", "archiving"}
      [] stage = "verifying" -> {"archived", "verifying"}
      [] stage = "deleting"  -> {"verified", "deleting"}

\* canRequestStage and archiveRunCanExecuteStage
CanExecute(r, stage) ==
    IF run[r].status = "failed" THEN run[r].resume = stage ELSE run[r].status \in StageBegun(stage)

After(stage) ==
    CASE stage = "archiving" -> {"archived", "verifying", "verified", "deleting", "completed"}
      [] stage = "verifying" -> {"verified", "deleting", "completed"}
      [] stage = "deleting"  -> {"completed"}

\* requestedStageSatisfied
Satisfied(r, stage) == run[r].status \in After(stage)

\* archiveRequestedStageSatisfied also looks at the stage of a failed run.
PastStage(r, stage) ==
    \/ Satisfied(r, stage)
    \/ /\ run[r].status = "failed"
       /\ \/ stage = "archiving" /\ run[r].resume \in {"verifying", "deleting"}
          \/ stage = "verifying" /\ run[r].resume = "deleting"

-----------------------------------------------------------------------------
(* Asking for a stage *)

\* RequestStage drops an earlier request that has been satisfied meanwhile.
Outstanding(r) ==
    IF run[r].requested # None /\ Satisfied(r, run[r].requested) THEN None ELSE run[r].requested

\* The stage is over already: the caller gets the run's status at once.
SubmitSatisfied(r, stage) ==
    /\ runner.life = "up"
    /\ Satisfied(r, stage)
    /\ Outstanding(r) # run[r].requested
    /\ run' = [run EXCEPT ![r].requested = None]
    /\ UNCHANGED <<order, lock, exec, cancelled, runner, job, policy, waiters, asked, faults>>

\* runner.mu covers the request, the retry policy and the waiter.
New(r) == Outstanding(r) = None

Request(r, stage) ==
    /\ runner.life = "up"
    /\ ~Satisfied(r, stage)
    /\ \/ New(r) /\ CanExecute(r, stage) /\ Touch(r)
       \/ Outstanding(r) = stage /\ UNCHANGED order
    /\ run' = [run EXCEPT ![r].requested = stage]
    /\ asked' = IF stage = "deleting" THEN asked \cup {r} ELSE asked
    /\ UNCHANGED <<lock, exec, cancelled, runner, job, faults>>

\* The caller is told that the stage is accepted.
SubmitInBackground(r, stage) ==
    /\ Request(r, stage)
    /\ policy' = [policy EXCEPT ![<<r, stage>>] = "retry"]
    /\ UNCHANGED waiters

\* The caller waits for the result.
SubmitAndWait(c, r, stage) ==
    /\ \A k \in Key : c \notin waiters[k]
    /\ Request(r, stage)
    /\ policy' = [policy EXCEPT ![<<r, stage>>] = IF New(r) THEN "once" ELSE @]
    /\ waiters' = [waiters EXCEPT ![<<r, stage>>] = @ \cup {c}]

\* The context of a waiting caller ends: removeWaiter.
GiveUp(c, key) ==
    /\ c \in waiters[key]
    /\ waiters' = [waiters EXCEPT ![key] = @ \ {c}]
    /\ UNCHANGED <<run, order, lock, exec, cancelled, runner, job, policy, asked, faults>>

-----------------------------------------------------------------------------
(* Executing a stage inside archiveManager.mu *)

Free == exec = NoExec /\ cancelled = NoRun

\* beginStage
Enter(r, stage, by) ==
    /\ Free
    /\ CanExecute(r, stage)
    /\ lock \in {NoRun, r}
    /\ run' = [run EXCEPT ![r].status = stage, ![r].resume = None]
    /\ lock' = r
    /\ Touch(r)
    /\ exec' = [by |-> by, run |-> r, stage |-> stage]
    /\ UNCHANGED <<cancelled, runner, policy, waiters, faults>>

RunnerEnters ==
    /\ job.pc = "claimed"
    /\ Enter(job.run, job.stage, "runner")
    /\ job' = [job EXCEPT !.pc = "executing"]
    /\ UNCHANGED asked

EnterAlone(r, stage, by) ==
    /\ Enter(r, stage, by)
    /\ asked' = IF stage = "deleting" THEN asked \cup {r} ELSE asked
    /\ UNCHANGED job

\* The retention worker resumes, verifies and deletes its run by itself.
WorkerEnters(r, stage) == r \in Retention /\ EnterAlone(r, stage, "worker")

\* Before the runner is started, and while it stops, a caller who wants to
\* wait executes the stage himself.
CallerEnters(r, stage) == runner.life # "up" /\ EnterAlone(r, stage, "caller")

\* The runner finds the stage done already, or it is refused before it is
\* entered: not ready, locked by another run, or in the wrong state.
ReturnEarly(err) ==
    /\ job.pc = "claimed"
    /\ Free
    /\ IF \/ Satisfied(job.run, job.stage)
          \/ job.stage = "archiving" /\ PastStage(job.run, "archiving")
       THEN err = "nil" ELSE err # "nil"
    /\ job' = [job EXCEPT !.pc = "ran", !.err = err]
    /\ UNCHANGED <<run, order, lock, exec, cancelled, runner, policy, waiters, asked, faults>>

\* A recorded segment or a deleted batch updates the row.
Progress ==
    /\ exec.stage \in {"archiving", "deleting"}
    /\ Touch(exec.run)
    /\ UNCHANGED <<run, lock, exec, cancelled, runner, job, policy, waiters, asked, faults>>

\* releaseLock
Release(r) == lock' = IF lock = r THEN NoRun ELSE lock

Done(stage) ==
    CASE stage = "archiving" -> "archived" [] stage = "verifying" -> "verified" [] stage = "deleting" -> "completed"

Leave(err) ==
    /\ exec' = NoExec
    /\ job' = IF exec.by = "runner" THEN [job EXCEPT !.pc = "ran", !.err = err] ELSE job
    /\ UNCHANGED <<cancelled, runner, policy, waiters, asked>>

Succeed ==
    /\ exec # NoExec
    /\ run' = [run EXCEPT ![exec.run].status = Done(exec.stage)]
    /\ Release(exec.run)
    /\ Touch(exec.run)
    /\ Leave("nil")
    /\ UNCHANGED faults

Fail(err) ==
    /\ exec # NoExec
    /\ run' = [run EXCEPT ![exec.run].status = "failed", ![exec.run].resume = exec.stage]
    /\ Release(exec.run)
    /\ Touch(exec.run)
    /\ Leave(err)
    /\ UNCHANGED faults

\* The failure itself cannot be written: the run stays inside its stage.
FailUnrecorded ==
    /\ exec # NoExec
    /\ faults < MaxFaults
    /\ faults' = faults + 1
    /\ Leave("other")
    /\ UNCHANGED <<run, lock, order>>

-----------------------------------------------------------------------------
(* The runner's loop *)

Start ==
    /\ runner.life = "down"
    /\ runner' = [life |-> "up", recovered |-> FALSE]
    /\ UNCHANGED <<run, order, lock, exec, cancelled, job, policy, waiters, asked, faults>>

Interrupted(r) == run[r].requested = None /\ run[r].status \in Stage

\* RecoverRequestedStages: a run found inside a stage is requested again.
Recover ==
    /\ runner.life = "up" /\ ~runner.recovered /\ job = NoJob
    /\ runner' = [runner EXCEPT !.recovered = TRUE]
    /\ run' = [r \in RunId |->
          IF Interrupted(r) THEN [run[r] EXCEPT !.requested = run[r].status] ELSE run[r]]
    /\ UNCHANGED <<order, lock, exec, cancelled, job, policy, waiters, asked, faults>>

\* NextRequestedRun: the oldest one.  inFlight holds the one claimed key.
Claim ==
    /\ runner.life = "up" /\ runner.recovered
    /\ job = NoJob
    /\ \E i \in DOMAIN order :
         LET r == order[i] IN
         /\ run[r].requested # None
         /\ \A j \in 1 .. i - 1 : run[order[j]].requested = None
         /\ job' = [NoJob EXCEPT !.pc = "claimed", !.run = r, !.stage = run[r].requested]
    /\ UNCHANGED <<run, order, lock, exec, cancelled, runner, policy, waiters, asked, faults>>

\* shouldRetry
ShouldRetry(r, stage, err) ==
    /\ policy[<<r, stage>>] # "once"
    /\ run[r].requested = stage
    /\ ~PastStage(r, stage)
    /\ CanExecute(r, stage)
    /\ run[r].status = "failed" => err = "coverage"

Judge ==
    /\ job.pc = "ran"
    /\ job' = [job EXCEPT !.pc = "judged",
                          !.keep = /\ job.err # "nil" /\ runner.life = "up"
                                   /\ ShouldRetry(job.run, job.stage, job.err)]
    /\ UNCHANGED <<run, order, lock, exec, cancelled, runner, policy, waiters, asked, faults>>

\* Mutant: only a failed request is cleared.
ClearsOnFailure == ~job.keep /\ job.err # "nil" /\ runner.life = "up"

\* The request is cleared, unless the stage is to be tried again or the
\* runner was stopped in the middle of it.
Clears == ~job.keep /\ (job.err = "nil" \/ runner.life = "up")

\* Mutant: a verified run goes on to its deletion.
ClearedAndAdvanced(r, stage) ==
    IF run[r].requested # stage THEN run[r].requested
    ELSE IF run[r].status = "verified" THEN "deleting" ELSE None

\* ClearRequestedStage leaves a request for another stage alone.
Cleared(r, stage) == IF run[r].requested = stage THEN None ELSE run[r].requested

Clear ==
    /\ job.pc = "judged"
    /\ run' = IF Clears THEN [run EXCEPT ![job.run].requested = Cleared(job.run, job.stage)] ELSE run
    /\ job' = [job EXCEPT !.pc = "cleared", !.err = "nil"]
    /\ UNCHANGED <<order, lock, exec, cancelled, runner, policy, waiters, asked, faults>>

ClearFails ==
    /\ job.pc = "judged"
    /\ Clears
    /\ faults < MaxFaults
    /\ faults' = faults + 1
    /\ job' = [job EXCEPT !.pc = "cleared", !.err = "nil", !.keep = TRUE]
    /\ UNCHANGED <<run, order, lock, exec, cancelled, runner, policy, waiters, asked>>

\* Everybody who waits for this stage now gets the result.
Finish ==
    LET key == <<job.run, job.stage>>
    IN  /\ job.pc = "cleared"
        /\ waiters' = [waiters EXCEPT ![key] = {}]
        /\ policy' = [policy EXCEPT ![key] = IF job.keep THEN @ ELSE "unset"]
        /\ job' = NoJob
        /\ UNCHANGED <<run, order, lock, exec, cancelled, runner, asked, faults>>

-----------------------------------------------------------------------------
(* Cancelling, stopping, crashing *)

\* Mutant: the request survives the cancellation.
CancelledRowRequested(r) == [run[r] EXCEPT !.status = "cancelled", !.resume = None]

CancelledRow(r) == [status |-> "cancelled", resume |-> None, requested |-> None]

\* CancelRun commits inside archiveManager.mu ...
CancelRun(r) ==
    /\ Free
    /\ \/ run[r].status = "previewed"
       \/ run[r].status = "failed" /\ run[r].resume \in {"archiving", "verifying"}
    /\ run' = [run EXCEPT ![r] = CancelledRow(r)]
    /\ Release(r)
    /\ Touch(r)
    /\ cancelled' = r
    /\ UNCHANGED <<exec, runner, job, policy, waiters, asked, faults>>

\* Mutant: the callers of a cancelled run are forgotten.
DiscardPolicies ==
    /\ cancelled # NoRun
    /\ policy' = [k \in Key |-> IF k[1] = cancelled THEN "unset" ELSE policy[k]]
    /\ cancelled' = NoRun
    /\ UNCHANGED <<run, order, lock, exec, runner, job, waiters, asked, faults>>

\* ... and then discardRun wakes the callers that wait for the run.
DiscardRun ==
    /\ cancelled # NoRun
    /\ waiters' = [k \in Key |-> IF k[1] = cancelled THEN {} ELSE waiters[k]]
    /\ policy' = [k \in Key |-> IF k[1] = cancelled THEN "unset" ELSE policy[k]]
    /\ cancelled' = NoRun
    /\ UNCHANGED <<run, order, lock, exec, runner, job, asked, faults>>

\* The instance's context ends; the claimed stage still runs to its end.
StopRunner ==
    /\ runner.life = "up"
    /\ faults < MaxFaults
    /\ faults' = faults + 1
    /\ runner' = [runner EXCEPT !.life = "stopping"]
    /\ UNCHANGED <<run, order, lock, exec, cancelled, job, policy, waiters, asked>>

Forget ==
    /\ runner' = [life |-> "down", recovered |-> FALSE]
    /\ policy' = [k \in Key |-> "unset"]
    /\ waiters' = [k \in Key |-> {}]

\* stop answers everybody.
LoopEnds ==
    /\ runner.life = "stopping" /\ job = NoJob
    /\ Forget
    /\ UNCHANGED <<run, order, lock, exec, cancelled, job, asked, faults>>

Crash ==
    /\ faults < MaxFaults
    /\ faults' = faults + 1
    /\ Forget
    /\ exec' = NoExec
    /\ cancelled' = NoRun
    /\ job' = NoJob
    /\ UNCHANGED <<run, order, lock, asked>>

-----------------------------------------------------------------------------
Ask ==
    \/ \E r \in RunId, stage \in Stage : SubmitSatisfied(r, stage)
    \/ \E r \in RunId, stage \in Stage : SubmitInBackground(r, stage)
    \/ \E c \in Caller, r \in RunId, stage \in Stage : SubmitAndWait(c, r, stage)
    \/ \E c \in Caller, key \in Key : GiveUp(c, key)

Return ==
    \/ \E err \in {"nil", "coverage", "other"} : ReturnEarly(err)
    \/ \E err \in {"coverage", "other"} : Fail(err)
    \/ FailUnrecorded

Loop == Start \/ Recover \/ Claim \/ Judge \/ Clear \/ Finish \/ LoopEnds

Next ==
    \/ Ask \/ RunnerEnters \/ Progress \/ Succeed \/ Return
    \/ \E r \in RunId, stage \in Stage : WorkerEnters(r, stage) \/ CallerEnters(r, stage)
    \/ Loop \/ ClearFails
    \/ \E r \in RunId : CancelRun(r)
    \/ DiscardRun \/ StopRunner \/ Crash

Spec == Init /\ [][Next]_vars

\* The loop wakes at least every archiveJobScanInterval and a stage returns.
\* What makes a stage fail, before it begins or later, does not last for
\* ever: among infinitely many tries one succeeds.
Fairness ==
    /\ WF_vars(Loop) /\ WF_vars(DiscardRun) /\ WF_vars(RunnerEnters \/ Return)
    /\ SF_vars(RunnerEnters) /\ SF_vars(Succeed)

FairSpec == Spec /\ Fairness

-----------------------------------------------------------------------------
(* Properties *)

\* The columns of usage_archive_runs and the fields of archiveJobRunner.
JobsTypeOK ==
    /\ run \in [RunId -> [status : Status, resume : Stage \cup {None}, requested : Stage \cup {None}]]
    /\ IsInjective(order) /\ Range(order) = RunId
    /\ lock \in RunId \cup {NoRun} /\ cancelled \in RunId \cup {NoRun}
    /\ exec.run \in RunId \cup {NoRun} /\ job.run \in RunId \cup {NoRun}
    /\ policy \in [Key -> {"unset", "once", "retry"}]
    /\ waiters \in [Key -> SUBSET Caller]

\* Nothing advances on its own: a run is in a stage, or past it, only if a
\* caller or the retention worker asked for that stage, also after restarts
\* and recovered requests ("verified archive advanced without delete
\* authorization", archive_job_test.go).  Runs start at most verified.
NoUnaskedDeletion ==
    \A r \in RunId :
        \/ run[r].status \in {"deleting", "completed"}
        \/ run[r].status = "failed" /\ run[r].resume = "deleting"
        => r \in asked

\* Nobody waits for nothing: while a caller waits for a stage, the stage is
\* requested or claimed, the cancellation that will wake the caller is under
\* way, or the stage has been passed by another executor.
WaitersAreServed ==
    \A k \in Key : waiters[k] # {} =>
        \/ run[k[1]].requested = k[2]
        \/ job.run = k[1] /\ job.stage = k[2]
        \/ cancelled = k[1]
        \/ PastStage(k[1], k[2])

\* A cancelled run is not requested again, by nobody and by no recovery.
CancelledStaysQuiet ==
    \A r \in RunId : run[r].status = "cancelled" => run[r].requested = None

\* The lock of a run is never left behind by a stage that ended: whoever
\* holds it is inside a stage, which a request or a restart can resume.
LockHeldInStage == \A r \in RunId : lock = r <=> run[r].status \in Stage

\* What a crash or a stop leaves behind in the tables, with the types.
RequestsConsistent == JobsTypeOK /\ CancelledStaysQuiet /\ LockHeldInStage

\* Archive work recovers after restarts (release notes of v1.14.0): every
\* request is eventually satisfied, refused for good or cancelled.
RequestsAreServed == \A r \in RunId : run[r].requested # None ~> run[r].requested = None

\* The oldest requested run waits for the maintenance lock, whose holder was
\* interrupted inside its stage and is behind it in the queue.
Jammed ==
    /\ exec = NoExec /\ lock # NoRun
    /\ \E i \in DOMAIN order :
         /\ order[i] # lock /\ run[order[i]].requested # None
         /\ \A j \in 1 .. i - 1 : run[order[j]].requested = None

\* Crashes, restarts, lost requests and retries included, nothing but a jam
\* that lasts keeps a request from being served.
ServedUnlessJammed == <>[]Jammed \/ RequestsAreServed

Waits(c) == \E k \in Key : c \in waiters[k]

\* The stage a caller waits for was completed by another executor, and a
\* request for a later stage has dropped (Outstanding) the one he had joined.
Overtaken(c) ==
    \E k \in Key :
        /\ c \in waiters[k]
        /\ PastStage(k[1], k[2]) /\ run[k[1]].requested # k[2]
        /\ <<job.run, job.stage>> # k

\* Likewise every waiting caller gets an answer or gives up, unless he is
\* overtaken: cancellation, retry, stop and crash forget nobody, in whatever
\* order they come.
AnsweredUnlessJammed ==
    <>[]Jammed \/ \A c \in Caller : Waits(c) ~> (~Waits(c) \/ Overtaken(c))
=============================================================================
