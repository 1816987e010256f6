--------------------------- MODULE QuotaCooldown ---------------------------
(***************************************************************************)
(* The worker that disables a credential whose quota is used up and        *)
(* enables it again when the quota is reset.  Usage events become          *)
(* candidates in a bounded queue; the cooldowns are rows of a table.  One  *)
(* operation runs at a time (operationMu): handling a candidate, a pass    *)
(* over the cooldowns that are due, or an early recovery.  Each request to *)
(* CPA and each write of a row is a step of its own, and may fail.         *)
(***************************************************************************)
EXTENDS AuthFiles, Sequences

CONSTANTS
    MaxTime,     \* bound on the clock
    QueueSize    \* quotaAutoDisableQueueSize

ASSUME CooldownAssumption ==
    /\ MaxTime \in Nat
    /\ QueueSize \in Nat \ {0}

VARIABLES
    now,     \* the clock
    queue,   \* w.jobs
    row,     \* quota_cooldowns: the latest row of each file and credential
    due,     \* the cooldowns the pass under way has still to recover
    op,      \* the operation inside operationMu
    until    \* history: the latest reset time reported since the disable

workerVars == <<queue, due, op>>
cooldownVars == <<now, row, until, workerVars>>

RowStatus == {"none", "active", "recovered", "skipped"}
NoRow == [status |-> "none", recover |-> 0]
NoOp == [pc |-> "idle", kind |-> "none", file |-> "none", cred |-> NoCred, reset |-> 0]
Kind == {"candidate", "due", "early"}
Pc == {"idle", "find", "disable", "persist", "undo", "enable", "verify", "mark", "redo"}

Key == File \X Cred
Active(f, k) == row[f][k].status = "active"

CooldownInit ==
    /\ now = 0
    /\ queue = <<>>
    /\ row = [f \in File |-> [k \in Cred |-> NoRow]]
    /\ due = {}
    /\ op = NoOp
    /\ until = [f \in File |-> [k \in Cred |-> 0]]

Later(s, t) == IF s < t THEN t ELSE s

Tick ==
    /\ now < MaxTime
    /\ now' = now + 1
    /\ UNCHANGED <<authVars, row, until, workerVars>>

\* HandleUsageEvents: a candidate that does not fit is dropped.
ReportExhausted(f, k, reset) ==
    /\ now < reset
    /\ Len(queue) < QueueSize
    /\ queue' = Append(queue, [file |-> f, cred |-> k, reset |-> reset])
    /\ UNCHANGED <<authVars, now, row, until, due, op>>

-----------------------------------------------------------------------------
(* Operations, one at a time *)

Free == op = NoOp /\ due = {}

\* Every operation ends by releasing the file it has locked, if any.
End ==
    /\ op' = NoOp
    /\ IF op.pc = "find" THEN UNCHANGED holder ELSE Drop(op.file)

Goto(pc) == op' = [op EXCEPT !.pc = pc] /\ UNCHANGED holder

TakeCandidate ==
    /\ Free
    /\ queue # <<>>
    /\ LET c == Head(queue) IN
         op' = IF c.reset > now
               THEN [pc |-> "find", kind |-> "candidate", file |-> c.file, cred |-> c.cred, reset |-> c.reset]
               ELSE NoOp
    /\ queue' = Tail(queue)
    /\ UNCHANGED <<authVars, now, row, until, due>>

Recovery(kind, f, k) == [pc |-> "find", kind |-> kind, file |-> f, cred |-> k, reset |-> 0]

\* Mutant: a cooldown is due after its reset time.
DueAfter(f, k) == Active(f, k) /\ row[f][k].recover < now

\* status = 'active' and recover_at_ms <= ?
Due(f, k) == Active(f, k) /\ row[f][k].recover <= now

\* enableDue lists the cooldowns that are due ...
StartDue ==
    /\ Free
    /\ due' = {key \in Key : Due(key[1], key[2])}
    /\ due' # {}
    /\ UNCHANGED <<authVars, now, row, until, queue, op>>

\* ... and recovers one after the other, the oldest first.
NextDue ==
    /\ op = NoOp
    /\ \E key \in due :
         /\ \A other \in due : row[key[1]][key[2]].recover <= row[other[1]][other[2]].recover
         /\ op' = Recovery("due", key[1], key[2])
         /\ due' = due \ {key}
    /\ UNCHANGED <<authVars, now, row, until, queue>>

\* RecoverOwnedCooldown: somebody has seen that the quota is back.
StartEarly(f, k) ==
    /\ Free
    /\ Active(f, k)
    /\ op' = Recovery("early", f, k)
    /\ UNCHANGED <<authVars, now, row, until, queue, due>>

-----------------------------------------------------------------------------
(* Locking and looking up the file *)

Found == op.pc = "find" /\ holder[op.file] = Nobody
Target == row[op.file][op.cred]
SetRow(r) == row' = [row EXCEPT ![op.file][op.cred] = r]
SetUntil(t) == until' = [until EXCEPT ![op.file][op.cred] = t]

\* The reset time of a cooldown that has ended is never looked at again.
EndCooldown(status) == SetRow([status |-> status, recover |-> 0]) /\ SetUntil(0)

\* CPA does not answer or the row cannot be written: nothing happens, and a
\* cooldown stays active for a later pass.  Only a request is given up while it
\* waits for the lock; the worker waits until it stops.
FindFails ==
    /\ op.pc = "find"
    /\ holder[op.file] = Nobody \/ op.kind = "early"
    /\ End
    /\ UNCHANGED <<cpa, by, lost, now, row, until, queue, due>>

\* The file is gone or holds another credential: a cooldown ends with it.
FindNothing ==
    /\ Found
    /\ ~Holds(op.file, op.cred)
    /\ IF op.kind = "candidate"
       THEN UNCHANGED <<row, until>>
       ELSE EndCooldown("skipped")
    /\ End
    /\ UNCHANGED <<cpa, by, lost, now, queue, due>>

\* Mutant: nobody looks whether a candidate's credential is disabled already.
FindWorkWhatever ==
    /\ Found
    /\ Holds(op.file, op.cred)
    /\ op.kind = "candidate" \/ cpa[op.file].disabled
    /\ Take(op.file, "cooldown")
    /\ op' = [op EXCEPT !.pc = IF op.kind = "candidate" THEN "disable" ELSE "enable"]
    /\ UNCHANGED <<cpa, by, lost, now, row, until, queue, due>>

\* Lock the file and go on with it.
FindWork ==
    /\ Found
    /\ Holds(op.file, op.cred)
    /\ cpa[op.file].disabled = (op.kind # "candidate")
    /\ Take(op.file, "cooldown")
    /\ op' = [op EXCEPT !.pc = IF op.kind = "candidate" THEN "disable" ELSE "enable"]
    /\ UNCHANGED <<cpa, by, lost, now, row, until, queue, due>>

\* Mutant: the new reset time replaces the old one.
ExtendedLatest == op.reset

\* recover_at_ms = max(recover_at_ms, ?)
Extended == Later(Target.recover, op.reset)

\* A candidate for a credential that is disabled already can only extend its
\* own cooldown (extendExistingCooldown).
ExtendCooldown ==
    /\ Found
    /\ op.kind = "candidate"
    /\ Holds(op.file, op.cred) /\ cpa[op.file].disabled
    /\ \/ Active(op.file, op.cred) /\ SetRow([Target EXCEPT !.recover = Extended])
                                   /\ SetUntil(Later(until[op.file][op.cred], op.reset))
       \/ UNCHANGED <<row, until>>
    /\ End
    /\ UNCHANGED <<cpa, by, lost, now, queue, due>>

\* Somebody else has enabled the credential: the cooldown is over.
FindEnabled ==
    /\ Found
    /\ op.kind # "candidate"
    /\ Holds(op.file, op.cred) /\ ~cpa[op.file].disabled
    /\ EndCooldown("recovered")
    /\ End
    /\ UNCHANGED <<cpa, by, lost, now, queue, due>>

-----------------------------------------------------------------------------
(* Disabling *)

Disable ==
    /\ op.pc = "disable"
    /\ \/ Switch(op.file, TRUE, "cooldown") /\ Goto("persist")
       \/ SwitchUnnoticed(op.file, TRUE, "cooldown") /\ End
       \/ UNCHANGED <<cpa, by, lost>> /\ End
    /\ UNCHANGED <<now, row, until, queue, due>>

\* UpsertActive: the credential was seen enabled, so an active row of it is
\* closed as recovered and a new one is inserted.
Persist ==
    /\ op.pc = "persist"
    /\ SetRow([status |-> "active", recover |-> op.reset])
    /\ SetUntil(op.reset)
    /\ End
    /\ UNCHANGED <<cpa, by, lost, now, queue, due>>

\* Mutant: the failed write is only logged.
PersistFailsSilently ==
    /\ op.pc = "persist"
    /\ End
    /\ UNCHANGED <<cpa, by, lost, now, row, until, queue, due>>

PersistFails ==
    /\ op.pc = "persist"
    /\ Goto("undo")
    /\ UNCHANGED <<cpa, by, lost, now, row, until, queue, due>>

\* The credential is enabled again, within the compensation timeout.
Undo ==
    /\ op.pc = "undo"
    /\ \/ Switch(op.file, FALSE, "cooldown")
       \/ lost' = lost \cup {op.file} /\ UNCHANGED <<cpa, by>>
    /\ End
    /\ UNCHANGED <<now, row, until, queue, due>>

-----------------------------------------------------------------------------
(* Recovering *)

Enable ==
    /\ op.pc = "enable"
    /\ \/ Switch(op.file, FALSE, "cooldown") /\ Goto("verify")
       \/ SwitchUnnoticed(op.file, FALSE, "cooldown") /\ End
       \/ UNCHANGED <<cpa, by, lost>> /\ End
    /\ UNCHANGED <<now, row, until, queue, due>>

Verify ==
    /\ op.pc = "verify"
    /\ Holds(op.file, op.cred) /\ ~cpa[op.file].disabled
    /\ Goto("mark")
    /\ UNCHANGED <<cpa, by, lost, now, row, until, queue, due>>

\* The second look fails: the cooldown stays active.
VerifyFails ==
    /\ op.pc = "verify"
    /\ End
    /\ UNCHANGED <<cpa, by, lost, now, row, until, queue, due>>

MarkRecovered ==
    /\ op.pc = "mark"
    /\ EndCooldown("recovered")
    /\ End
    /\ UNCHANGED <<cpa, by, lost, now, queue, due>>

MarkFails ==
    /\ op.pc = "mark"
    /\ Goto("redo")
    /\ UNCHANGED <<cpa, by, lost, now, row, until, queue, due>>

\* The credential is disabled again, so that a later pass can recover it.
Redo ==
    /\ op.pc = "redo"
    /\ \/ Switch(op.file, TRUE, "cooldown")
       \/ UNCHANGED <<cpa, by, lost>>
    /\ End
    /\ UNCHANGED <<now, row, until, queue, due>>

\* The process stops: the queue and the operation are gone.
StopCooldowns ==
    /\ queue' = <<>>
    /\ due' = {}
    /\ op' = NoOp
    /\ UNCHANGED <<now, row, until>>

-----------------------------------------------------------------------------
Look == FindNothing \/ FindWork \/ ExtendCooldown \/ FindEnabled
Disabling == Disable \/ Persist \/ PersistFails \/ Undo
Recovering == Enable \/ Verify \/ VerifyFails \/ MarkRecovered \/ MarkFails \/ Redo

CooldownNext ==
    \/ Tick
    \/ \E f \in File, k \in Cred, reset \in 1 .. MaxTime : ReportExhausted(f, k, reset)
    \/ TakeCandidate \/ StartDue \/ NextDue
    \/ \E f \in File, k \in Cred : StartEarly(f, k)
    \/ FindFails \/ Look \/ Disabling \/ Recovering

\* The queue, the table and the operation under way.
CooldownTypeOK ==
    /\ now \in 0 .. MaxTime
    /\ queue \in Seq([file : File, cred : Cred, reset : 1 .. MaxTime])
    /\ row \in [File -> [Cred -> [status : RowStatus, recover : 0 .. MaxTime]]]
    /\ until \in [File -> [Cred -> 0 .. MaxTime]]
    /\ due \subseteq Key
    /\ op = NoOp \/ op \in [pc : Pc \ {"idle"}, kind : Kind, file : File, cred : Cred, reset : 0 .. MaxTime]
=============================================================================
