------------------------ MODULE MutationCoordinator ------------------------
(***************************************************************************)
(* MutationCoordinator: a lock by file name over the CPA auth files.       *)
(* Callers acquire a set of files, or all files at once; AcquireAll is     *)
(* exclusive and keeps new file callers out while it waits.  Everything    *)
(* under c.mu is one step.  A caller that cannot be served captures the    *)
(* current wait channel under c.mu and then sleeps on it; closing that     *)
(* channel wakes everybody who captured it.                                *)
(***************************************************************************)
EXTENDS Integers, FiniteSets

CONSTANTS
    Caller,   \* goroutines that call Acquire or AcquireAll
    File      \* normalized file names

ASSUME CallersFinite == IsFiniteSet(Caller)

VARIABLES
    active,      \* files that are held
    activeAll,   \* all files are held
    waitingAll,  \* count of registered AcquireAll callers
    pc,          \* where each caller is
    want,        \* the files a caller asks for, {} stands for all of them
    registered,  \* the callers whose registeredAll is true
    open         \* the callers that captured the current wait channel

vars == <<active, activeAll, waitingAll, pc, want, registered, open>>

Place == {"idle", "try", "asleep", "held", "leaving"}

All(p) == want[p] = {}

Init ==
    /\ active = {}
    /\ activeAll = FALSE
    /\ waitingAll = 0
    /\ pc = [p \in Caller |-> "idle"]
    /\ want = [p \in Caller |-> {}]
    /\ registered = {}
    /\ open = {}

-----------------------------------------------------------------------------
\* Acquire with at least one file name, or AcquireAll.
Request(p, files) ==
    /\ pc[p] = "idle"
    /\ pc' = [pc EXCEPT ![p] = "try"]
    /\ want' = [want EXCEPT ![p] = files]
    /\ UNCHANGED <<active, activeAll, waitingAll, registered, open>>

\* Mutant: AcquireAll does not wait for the files that are held.
CanAcquireBesideFiles(p, waiting) ==
    ~activeAll /\ (All(p) \/ (waiting = 0 /\ active \cap want[p] = {}))

\* Mutant: file callers pass an AcquireAll caller that waits.
CanAcquireUnfairly(p, waiting) ==
    ~activeAll /\ (IF All(p) THEN active = {} ELSE active \cap want[p] = {})

\* canAcquireLocked, with waiting the count it sees.
CanAcquire(p, waiting) ==
    /\ ~activeAll
    /\ IF All(p) THEN active = {} ELSE waiting = 0 /\ active \cap want[p] = {}

\* Mutant: a caller registers itself again on every try.
WaitingRecounted(p) == IF All(p) THEN waitingAll + 1 ELSE waitingAll

\* The count after an AcquireAll caller has registered itself.
Waiting(p) == IF All(p) /\ p \notin registered THEN waitingAll + 1 ELSE waitingAll

\* The test succeeds: the caller holds its files.
Grant(p) ==
    /\ pc[p] = "try"
    /\ CanAcquire(p, Waiting(p))
    /\ pc' = [pc EXCEPT ![p] = "held"]
    /\ active' = active \cup want[p]
    /\ activeAll' = All(p)
    /\ waitingAll' = IF All(p) THEN Waiting(p) - 1 ELSE waitingAll
    /\ registered' = registered \ {p}
    /\ UNCHANGED <<want, open>>

\* The test fails: the caller captures the channel before it unlocks c.mu.
Sleep(p) ==
    /\ pc[p] = "try"
    /\ ~CanAcquire(p, Waiting(p))
    /\ pc' = [pc EXCEPT ![p] = "asleep"]
    /\ waitingAll' = Waiting(p)
    /\ registered' = IF All(p) THEN registered \cup {p} ELSE registered
    /\ open' = open \cup {p}
    /\ UNCHANGED <<active, activeAll, want>>

Wake(p) ==
    /\ pc[p] = "asleep"
    /\ p \notin open
    /\ pc' = [pc EXCEPT ![p] = "try"]
    /\ UNCHANGED <<active, activeAll, waitingAll, want, registered, open>>

\* notifyLocked closes the channel and replaces it.
Notify == open' = {}

\* The context of a caller ends; a registered one still has to deregister.
GiveUp(p) ==
    /\ pc[p] \in {"try", "asleep"}
    /\ pc' = [pc EXCEPT ![p] = IF p \in registered THEN "leaving" ELSE "idle"]
    /\ open' = open \ {p}
    /\ UNCHANGED <<active, activeAll, waitingAll, want, registered>>

\* Mutant: a cancelled AcquireAll caller leaves without waking anybody.
CancelSilently(p) ==
    /\ pc[p] = "leaving"
    /\ waitingAll' = IF waitingAll > 0 THEN waitingAll - 1 ELSE waitingAll
    /\ registered' = registered \ {p}
    /\ pc' = [pc EXCEPT ![p] = "idle"]
    /\ UNCHANGED <<active, activeAll, want, open>>

\* cancelAllWaiter
CancelAllWaiter(p) ==
    /\ pc[p] = "leaving"
    /\ waitingAll' = IF waitingAll > 0 THEN waitingAll - 1 ELSE waitingAll
    /\ registered' = registered \ {p}
    /\ pc' = [pc EXCEPT ![p] = "idle"]
    /\ Notify
    /\ UNCHANGED <<active, activeAll, want>>

\* The function that Acquire returned.
Release(p) ==
    /\ pc[p] = "held"
    /\ pc' = [pc EXCEPT ![p] = "idle"]
    /\ IF All(p)
       THEN activeAll' = FALSE /\ UNCHANGED active
       ELSE active' = active \ want[p] /\ UNCHANGED activeAll
    /\ Notify
    /\ UNCHANGED <<waitingAll, want, registered>>

-----------------------------------------------------------------------------
Step(p) == Grant(p) \/ Sleep(p) \/ Wake(p) \/ CancelAllWaiter(p) \/ Release(p)

Next ==
    \E p \in Caller :
        \/ \E files \in SUBSET File : Request(p, files)
        \/ Step(p)
        \/ GiveUp(p)

Spec == Init /\ [][Next]_vars

\* A caller that can run does run, and holders release: every caller defers
\* its release around a bounded CPA request.  Nobody has to ask or to give up.
Fairness == \A p \in Caller : WF_vars(Step(p))

FairSpec == Spec /\ Fairness

-----------------------------------------------------------------------------
(* Properties *)

\* The coordinator's fields and the callers' local state.
TypeOK ==
    /\ active \in SUBSET File
    /\ activeAll \in BOOLEAN
    /\ waitingAll \in Nat
    /\ pc \in [Caller -> Place]
    /\ want \in [Caller -> SUBSET File]
    /\ registered \subseteq Caller
    /\ open \subseteq Caller

\* Two mutations of one auth file never run at once, and AcquireAll excludes
\* every other mutation (the comment on MutationCoordinator).
Exclusive ==
    \A p, q \in Caller :
        p # q /\ pc[p] = "held" /\ pc[q] = "held" =>
            ~All(p) /\ ~All(q) /\ want[p] \cap want[q] = {}

\* No lost wakeup: a caller sleeping on a channel nobody has closed could not
\* be served now.
NoLostWakeup ==
    \A p \in Caller : p \in open => ~CanAcquire(p, waitingAll)

\* waitingAll counts the AcquireAll callers that are registered, so that a
\* cancelled one never leaves the file callers locked out.
WaitingCountExact == waitingAll = Cardinality(registered)

\* While an AcquireAll caller waits, no other caller is given a file.
AllHasPreference ==
    [][registered # {} => active' \subseteq active]_vars

\* File callers cannot keep AcquireAll out: once one waits, some AcquireAll
\* is served or all of them give up.
AllIsServed == waitingAll > 0 ~> (activeAll \/ waitingAll = 0)
=============================================================================
