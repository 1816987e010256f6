--------------------------- MODULE AccountActions ---------------------------
(***************************************************************************)
(* The account action queue.  A worker turns authentication failures into  *)
(* candidates, rows that wait for a decision, and, where that is switched  *)
(* on, disables the credential at once.  An administrator ignores or       *)
(* resolves a candidate, enables its credential, or deletes its auth file. *)
(* The worker and the administrator's request each do one thing at a time; *)
(* each request to CPA and each write of a row is a step of its own.       *)
(***************************************************************************)
EXTENDS AuthFiles

CONSTANT MaxId    \* bound on the candidates of one credential

ASSUME MaxIdAssumption == MaxId \in Nat \ {0}

VARIABLES
    cand,     \* account_action_candidates: the latest of each file and credential
    work,     \* what the worker does
    admin,    \* what the administrator's request does
    decided   \* history: files whose candidate was decided after the auto-disable

actionVars == <<cand, work, admin, decided>>

CandStatus == {"none", "pending", "closed"}    \* closed: ignored, resolved or deleted
NoCand == [status |-> "none", id |-> 0, auto |-> FALSE]
NoWork == [pc |-> "idle", file |-> "none", cred |-> NoCred, id |-> 0]
NoRequest == [pc |-> "idle", kind |-> "none", file |-> "none", cred |-> NoCred, was |-> FALSE]

ActionsInit ==
    /\ cand = [f \in File |-> [k \in Cred |-> NoCand]]
    /\ work = NoWork
    /\ admin = NoRequest
    /\ decided = {}

Pending(f, k) == cand[f][k].status = "pending"

-----------------------------------------------------------------------------
(* The worker *)

\* Upsert: a pending candidate is hit again, otherwise a new row is inserted.
Upserted(f, k) ==
    IF Pending(f, k) THEN cand[f][k]
    ELSE [status |-> "pending", id |-> cand[f][k].id + 1, auto |-> FALSE]

\* handleCandidate for an authentication failure, and the test of the switch.
Observe(f, k) ==
    /\ work = NoWork
    /\ Upserted(f, k).id <= MaxId
    /\ cand' = [cand EXCEPT ![f][k] = Upserted(f, k)]
    /\ \E autoDisable \in BOOLEAN :
         work' = IF autoDisable
                 THEN [pc |-> "find", file |-> f, cred |-> k, id |-> Upserted(f, k).id]
                 ELSE NoWork
    /\ UNCHANGED <<authVars, admin, decided>>

EndWork ==
    /\ work' = NoWork
    /\ IF work.pc = "find" THEN UNCHANGED holder ELSE Drop(work.file)

WorkFinds ==
    /\ work.pc = "find" /\ holder[work.file] = Nobody
    /\ Holds(work.file, work.cred)
    /\ ~cpa[work.file].disabled
    /\ Take(work.file, "candidate")
    /\ work' = [work EXCEPT !.pc = "disable"]
    /\ UNCHANGED <<cpa, by, lost, cand, admin, decided>>

\* The file is gone, another one, or disabled already; or CPA does not answer.
WorkFindsNothing ==
    /\ work.pc = "find" /\ holder[work.file] = Nobody
    /\ EndWork
    /\ UNCHANGED <<cpa, by, lost, cand, admin, decided>>

AutoDisable ==
    /\ work.pc = "disable"
    /\ \/ Switch(work.file, TRUE, "candidate")
          /\ work' = [work EXCEPT !.pc = "mark"] /\ UNCHANGED holder
       \/ SwitchUnnoticed(work.file, TRUE, "candidate") /\ EndWork
       \/ UNCHANGED <<cpa, by, lost>> /\ EndWork
    /\ UNCHANGED <<cand, admin, decided>>

\* Mutant: the row is marked whatever was decided about it meanwhile.
MarkableWhatever(c) == c.id = work.id

\* where id = ? and status = 'pending'
Markable(c) == c.id = work.id /\ c.status = "pending"

MarkAutoDisabled ==
    /\ work.pc = "mark"
    /\ Markable(cand[work.file][work.cred])
    /\ cand' = [cand EXCEPT ![work.file][work.cred].auto = TRUE]
    /\ decided' = decided \ {work.file}
    /\ EndWork
    /\ UNCHANGED <<cpa, by, lost, admin>>

\* The write fails or finds no pending row.
MarkAutoDisabledFails ==
    /\ work.pc = "mark"
    /\ work' = [work EXCEPT !.pc = "undo"]
    /\ UNCHANGED <<authVars, cand, admin, decided>>

UndoAutoDisable ==
    /\ work.pc = "undo"
    /\ \/ Switch(work.file, FALSE, "candidate")
       \/ lost' = lost \cup {work.file} /\ UNCHANGED <<cpa, by>>
    /\ EndWork
    /\ UNCHANGED <<cand, admin, decided>>

-----------------------------------------------------------------------------
(* The administrator *)

Decision(f, k) ==
    /\ cand' = [cand EXCEPT ![f][k].status = "closed"]
    /\ decided' = decided \cup {f}

\* Ignore and Resolve only change the row.
Decide(f, k) ==
    /\ admin = NoRequest
    /\ Pending(f, k)
    /\ Decision(f, k)
    /\ UNCHANGED <<authVars, work, admin>>

\* Enable and DeleteAuthFile read the pending row first.
StartRequest(f, k, kind) ==
    /\ admin = NoRequest
    /\ Pending(f, k)
    /\ admin' = [pc |-> "find", kind |-> kind, file |-> f, cred |-> k, was |-> FALSE]
    /\ UNCHANGED <<authVars, cand, work, decided>>

EndRequest ==
    /\ admin' = NoRequest
    /\ IF admin.pc = "find" THEN UNCHANGED holder ELSE Drop(admin.file)

RequestFinds ==
    /\ admin.pc = "find" /\ holder[admin.file] = Nobody
    /\ Holds(admin.file, admin.cred)
    /\ Take(admin.file, "admin")
    /\ admin' = [admin EXCEPT !.pc = admin.kind, !.was = cpa[admin.file].disabled]
    /\ UNCHANGED <<cpa, by, lost, cand, work, decided>>

\* The same, or the request is given up while it waits for the lock.
RequestFindsNothing ==
    /\ admin.pc = "find"
    /\ EndRequest
    /\ UNCHANGED <<cpa, by, lost, cand, work, decided>>

AdminEnable ==
    /\ admin.pc = "enable"
    /\ \/ Switch(admin.file, FALSE, "admin")
          /\ admin' = [admin EXCEPT !.pc = "persist"] /\ UNCHANGED holder
       \/ SwitchUnnoticed(admin.file, FALSE, "admin") /\ EndRequest
       \/ UNCHANGED <<cpa, by, lost>> /\ EndRequest
    /\ UNCHANGED <<cand, work, decided>>

AdminDelete ==
    /\ admin.pc = "delete"
    /\ \/ Write(admin.file, Absent, "admin") /\ lost' = lost \ {admin.file}
          /\ admin' = [admin EXCEPT !.pc = "persist"] /\ UNCHANGED holder
       \/ Write(admin.file, Absent, "admin") /\ lost' = lost \ {admin.file} /\ EndRequest
       \/ UNCHANGED <<cpa, by, lost>> /\ EndRequest
    /\ UNCHANGED <<cand, work, decided>>

\* persistExternalActionStatus
PersistDecision ==
    /\ admin.pc = "persist"
    /\ Decision(admin.file, admin.cred)
    /\ EndRequest
    /\ UNCHANGED <<cpa, by, lost, work>>

\* A credential that was disabled before is disabled again.
PersistDecisionFails ==
    /\ admin.pc = "persist"
    /\ IF admin.kind = "enable" /\ admin.was
       THEN admin' = [admin EXCEPT !.pc = "restore"] /\ UNCHANGED holder
       ELSE EndRequest
    /\ UNCHANGED <<cpa, by, lost, cand, work, decided>>

RestoreDisabled ==
    /\ admin.pc = "restore"
    /\ Switch(admin.file, TRUE, "admin") \/ UNCHANGED <<cpa, by, lost>>
    /\ EndRequest
    /\ UNCHANGED <<cand, work, decided>>

\* The process stops.
StopActions ==
    /\ work' = NoWork
    /\ admin' = NoRequest
    /\ UNCHANGED <<cand, decided>>

-----------------------------------------------------------------------------
Work ==
    \/ WorkFinds \/ WorkFindsNothing \/ AutoDisable
    \/ MarkAutoDisabled \/ MarkAutoDisabledFails \/ UndoAutoDisable

Answer ==
    \/ RequestFinds \/ RequestFindsNothing \/ AdminEnable \/ AdminDelete
    \/ PersistDecision \/ PersistDecisionFails \/ RestoreDisabled

ActionsNext ==
    \/ \E f \in File, k \in Cred : Observe(f, k)
    \/ Work
    \/ \E f \in File, k \in Cred : Decide(f, k)
    \/ \E f \in File, k \in Cred, kind \in {"enable", "delete"} : StartRequest(f, k, kind)
    \/ Answer

\* The table, the worker's step and the request's step.
ActionsTypeOK ==
    /\ cand \in [File -> [Cred -> [status : CandStatus, id : 0 .. MaxId, auto : BOOLEAN]]]
    /\ work = NoWork \/ work \in [pc : {"find", "disable", "mark", "undo"},
                                  file : File, cred : Cred, id : 1 .. MaxId]
    /\ admin = NoRequest \/ admin \in [pc : {"find", "enable", "delete", "persist", "restore"},
                                       kind : {"enable", "delete"}, file : File, cred : Cred,
                                       was : BOOLEAN]
    /\ decided \subseteq File
=============================================================================
