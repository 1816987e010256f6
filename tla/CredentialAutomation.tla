------------------------ MODULE CredentialAutomation ------------------------
(***************************************************************************)
(* Everybody who switches credentials off and on: the quota cooldown       *)
(* worker, the account action worker, an administrator who decides about   *)
(* candidates, and users of the management API.  They meet at the auth     *)
(* files and their mutation locks, and nowhere else.                       *)
(***************************************************************************)
EXTENDS QuotaCooldown, AccountActions

vars == <<authVars, cooldownVars, actionVars>>

Init == AuthInit /\ CooldownInit /\ ActionsInit

Cooldowns == CooldownNext /\ UNCHANGED actionVars
Actions == ActionsNext /\ UNCHANGED cooldownVars
Users == (\E f \in File : UserRequest(f)) /\ UNCHANGED <<cooldownVars, actionVars>>
Crash == StopHolders /\ StopCooldowns /\ StopActions

Next == Cooldowns \/ Actions \/ Users \/ Crash

Spec == Init /\ [][Next]_vars

\* Time passes, the process stays up in the end, whatever has begun is carried
\* on, a caller that is woken again and again gets its lock in the end, and a
\* request or a write that is tried again does not fail for ever.
Fairness ==
    /\ <>[][~Crash]_vars
    /\ WF_vars(Tick /\ UNCHANGED actionVars)
    /\ WF_vars((FindFails \/ Look \/ Disabling \/ Recovering) /\ UNCHANGED actionVars)
    /\ WF_vars(Work /\ UNCHANGED cooldownVars)
    /\ WF_vars(Answer /\ UNCHANGED cooldownVars)
    /\ SF_vars(StartDue /\ UNCHANGED actionVars)
    /\ SF_vars(NextDue /\ UNCHANGED actionVars)
    /\ SF_vars(Look /\ UNCHANGED actionVars)
    /\ SF_vars(Enable /\ Goto("verify") /\ UNCHANGED actionVars)
    /\ SF_vars(Verify /\ UNCHANGED actionVars)
    /\ SF_vars(MarkRecovered /\ UNCHANGED actionVars)

FairSpec == Spec /\ Fairness

-----------------------------------------------------------------------------
(* Properties *)

\* The columns of both tables, CPA's flags, the locks and each actor's step keep
\* their types; in particular a reset time is never later than one reported.
TypeOK == AuthTypeOK /\ CooldownTypeOK /\ ActionsTypeOK

CoolingDown(f) == \E k \in Cred : Holds(f, k) /\ Active(f, k)

\* Whoever has disabled a credential, a user, the administrator or the
\* account action worker: no candidate, however stale, disables it anew or
\* starts a cooldown for it, and only a cooldown that has been active all the
\* time may enable it.  What a user has disabled, the account action worker
\* leaves alone as well.
NoCooldownForOthers ==
    [][\A f \in File : cpa[f].disabled /\ by[f] # "cooldown" =>
         /\ by'[f] = "cooldown" => CoolingDown(f) /\ op.kind # "candidate" /\ ~cpa'[f].disabled
         /\ by[f] = "user" => by'[f] # "candidate"
         /\ cpa'[f].cred = cpa[f].cred /\ ~CoolingDown(f) => ~CoolingDown(f)']_vars

\* "Auto-restore only affects credentials disabled by that cooldown record;
\* it does not override manual, inspection-owned, or authentication-failure
\* disables" (accounts.md).
OthersRespected ==
    [][\A f \in File : cpa[f].disabled /\ by[f] # "cooldown" => by'[f] # "cooldown"]_vars

\* The pass over due cooldowns enables a credential only when every reset
\* time reported since its disable has passed, however candidates, early
\* recoveries and restarts interleave with the passes.
NeverEarly ==
    [][/\ op.kind = "due" /\ op.pc = "enable"
       /\ cpa[op.file].disabled /\ cpa'[op.file] = [cpa[op.file] EXCEPT !.disabled = FALSE]
       => until[op.file][op.cred] <= now]_vars

\* No credential stays disabled by the cooldown worker without a cooldown
\* that will enable it, unless the record was lost: a crash, a request that
\* took effect although it failed, or a rollback that failed as well.
DisabledIsOwned ==
    \A f \in File : cpa[f].disabled /\ by[f] = "cooldown" /\ f \notin lost =>
        CoolingDown(f) \/ (op.file = f /\ op.pc \in {"persist", "undo"})

\* As long as nobody has decided about it, a credential that the account
\* action worker has disabled is shown as auto-disabled in the queue, so that
\* the administrator can find and enable it.
AutoDisableIsListed ==
    \A f \in File : cpa[f].disabled /\ by[f] = "candidate" /\ f \notin lost \cup decided =>
        \/ work.file = f /\ work.pc \in {"mark", "undo"}
        \/ \E k \in Cred : Holds(f, k) /\ Pending(f, k) /\ cand[f][k].auto

\* The types, and the queue the administrator works from.
ListedConsistently == TypeOK /\ AutoDisableIsListed

\* Every cooldown ends: the credential is enabled, found enabled, or gone.
CooldownEnds ==
    \A f \in File, k \in Cred : Active(f, k) ~> ~Active(f, k)
=============================================================================
