---------------------- MODULE CredentialAutomationProofs ----------------------
(***************************************************************************)
(* Proofs about CredentialAutomation, for any files and credentials, any   *)
(* clock and any interleaving of the two workers, the administrator, users *)
(* and crashes.                                                            *)
(***************************************************************************)
EXTENDS CredentialAutomation, TLAPS

Operation == [pc : Pc \ {"idle"}, kind : Kind, file : File, cred : Cred, reset : 0 .. MaxTime]
OpLocked == {"disable", "persist", "undo", "enable", "verify", "mark", "redo"}
WorkLocked == {"disable", "mark", "undo"}
AdminLocked == {"enable", "delete", "persist", "restore"}

\* A file is locked for an actor exactly while that actor is past its lookup:
\* nobody writes without the lock, and no lock is left behind.
OpLockOK == \A f \in File : holder[f] = "cooldown" <=> op.file = f /\ op.pc \in OpLocked
WorkLockOK == \A f \in File : holder[f] = "candidate" <=> work.file = f /\ work.pc \in WorkLocked
AdminLockOK == \A f \in File : holder[f] = "admin" <=> admin.file = f /\ admin.pc \in AdminLocked

\* What the cooldown worker's operation knows, and may rely on while the file
\* is locked: which credential is there, whether it is disabled and by whom,
\* and that the cooldown it recovers is still active.
OpOK ==
    /\ op.pc \in {"disable", "verify", "mark", "redo"} =>
         Holds(op.file, op.cred) /\ ~cpa[op.file].disabled
    /\ op.pc \in {"persist", "undo"} =>
         Holds(op.file, op.cred) /\ cpa[op.file].disabled /\ by[op.file] = "cooldown"
    /\ op.pc = "enable" => Holds(op.file, op.cred) /\ cpa[op.file].disabled
    /\ op.pc \in {"enable", "verify", "mark", "redo"} => op.kind \in {"due", "early"}
    /\ op.kind \in {"due", "early"} => Active(op.file, op.cred)
    /\ op.kind = "due" => Target.recover <= now

\* What a pass has still to recover is due, and only the pass recovers it.
DueOK ==
    \A f \in File, k \in Cred : <<f, k>> \in due =>
      /\ Due(f, k)
      /\ op # NoOp => op.kind = "due" /\ ~(f = op.file /\ k = op.cred)

\* A cooldown lasts at least until every reset time reported since its disable.
UntilOK == \A f \in File, k \in Cred : Active(f, k) => until[f][k] <= row[f][k].recover

CooldownInv ==
    CooldownTypeOK /\ OpLockOK /\ OpOK /\ DueOK /\ UntilOK /\ DisabledIsOwned

\* What the account action worker knows while it holds the file.
WorkOK ==
    /\ work.pc = "disable" => Holds(work.file, work.cred) /\ ~cpa[work.file].disabled
    /\ work.pc \in {"mark", "undo"} =>
         Holds(work.file, work.cred) /\ cpa[work.file].disabled /\ by[work.file] = "candidate"

\* What the administrator's request knows while it holds the file.
AdminOK ==
    /\ admin.pc \in {"enable", "restore"} => admin.kind = "enable"
    /\ admin.pc = "delete" => admin.kind = "delete"
    /\ admin.kind = "enable" /\ admin.pc \in AdminLocked => Holds(admin.file, admin.cred)

\* A candidate that waits for a decision has an id.
IdsOK == \A f \in File, k \in Cred : Pending(f, k) => cand[f][k].id > 0

ActionsInv ==
    /\ ActionsTypeOK /\ WorkLockOK /\ AdminLockOK
    /\ WorkOK /\ AdminOK /\ IdsOK /\ AutoDisableIsListed

AutomationInv == AuthTypeOK /\ CooldownInv /\ ActionsInv

-----------------------------------------------------------------------------
(* What one actor's step means to the others *)

\* A step of one actor takes or releases locks for that actor only, and what
\* it writes, it writes to a file that nobody else has locked, in its name.
AuthEffect(who) ==
    \A f \in File :
      /\ holder'[f] = holder[f] \/ {holder[f], holder'[f]} \subseteq {Nobody, who}
      /\ \/ cpa'[f] = cpa[f] /\ by'[f] = by[f] /\ (f \in lost => f \in lost')
         \/ holder[f] \in {Nobody, who} /\ by'[f] = who

LEMMA CooldownsUndisturbed ==
  ASSUME CooldownInv, UNCHANGED cooldownVars, NEW who \in {"user", "candidate", "admin"}, AuthEffect(who)
  PROVE  CooldownInv'
<1>0. UNCHANGED <<now, queue, row, due, op, until>>
  BY DEF cooldownVars, workerVars
<1>1. \A f \in File : /\ holder'[f] = "cooldown" <=> holder[f] = "cooldown"
                      /\ holder[f] = "cooldown" => cpa'[f] = cpa[f] /\ by'[f] = by[f]
  BY DEF AuthEffect, Nobody
<1>2. CooldownTypeOK'
  BY <1>0 DEF CooldownInv, CooldownTypeOK
<1>3. OpLockOK'
  BY <1>0, <1>1 DEF CooldownInv, OpLockOK
<1>4. DueOK' /\ UntilOK'
  BY <1>0 DEF CooldownInv, DueOK, UntilOK, Due, Active
<1>5. OpOK'
  <2>1. op.pc \in OpLocked => cpa'[op.file] = cpa[op.file] /\ by'[op.file] = by[op.file]
    <3>1. op.pc \in OpLocked => op.file \in File
      BY DEF CooldownInv, CooldownTypeOK, OpLocked, NoOp
    <3>2. QED
      BY <1>1, <3>1 DEF CooldownInv, OpLockOK
  <2>2. QED
    BY <1>0, <2>1 DEF CooldownInv, OpOK, OpLocked, Holds, Active, Target
<1>6. DisabledIsOwned'
  <2>1. \A f \in File : by'[f] = "cooldown" =>
          cpa'[f] = cpa[f] /\ by[f] = "cooldown" /\ (f \in lost => f \in lost')
    BY DEF AuthEffect
  <2>2. QED
    BY <1>0, <2>1 DEF CooldownInv, DisabledIsOwned, CoolingDown, Holds, Active
<1>7. QED
  BY <1>2, <1>3, <1>4, <1>5, <1>6 DEF CooldownInv

LEMMA ActionsUndisturbed ==
  ASSUME ActionsInv, UNCHANGED actionVars, NEW who \in {"user", "cooldown"}, AuthEffect(who)
  PROVE  ActionsInv'
<1>0. UNCHANGED <<cand, work, admin, decided>>
  BY DEF actionVars
<1>1. \A f \in File : /\ holder'[f] = "candidate" <=> holder[f] = "candidate"
                      /\ holder'[f] = "admin" <=> holder[f] = "admin"
                      /\ holder[f] \in {"candidate", "admin"} => cpa'[f] = cpa[f] /\ by'[f] = by[f]
  BY DEF AuthEffect, Nobody
<1>2. ActionsTypeOK' /\ WorkLockOK' /\ AdminLockOK' /\ IdsOK'
  BY <1>0, <1>1 DEF ActionsInv, ActionsTypeOK, WorkLockOK, AdminLockOK, IdsOK, Pending
<1>3. WorkOK'
  <2>1. work.pc \in WorkLocked => cpa'[work.file] = cpa[work.file] /\ by'[work.file] = by[work.file]
    <3>1. work.pc \in WorkLocked => work.file \in File
      BY DEF ActionsInv, ActionsTypeOK, WorkLocked, NoWork
    <3>2. QED
      BY <1>1, <3>1 DEF ActionsInv, WorkLockOK
  <2>2. QED
    BY <1>0, <2>1 DEF ActionsInv, WorkOK, WorkLocked, Holds
<1>4. AutoDisableIsListed'
  <2>1. \A f \in File : by'[f] = "candidate" =>
          cpa'[f] = cpa[f] /\ by[f] = "candidate" /\ (f \in lost => f \in lost')
    BY DEF AuthEffect
  <2>2. QED
    BY <1>0, <2>1 DEF ActionsInv, AutoDisableIsListed, Holds, Pending
<1>5. AdminOK'
  <2>1. admin.pc \in AdminLocked => cpa'[admin.file] = cpa[admin.file]
    <3>1. admin.pc \in AdminLocked => admin.file \in File
      BY DEF ActionsInv, ActionsTypeOK, AdminLocked, NoRequest
    <3>2. QED
      BY <1>1, <3>1 DEF ActionsInv, AdminLockOK
  <2>2. QED
    BY <1>0, <2>1 DEF ActionsInv, AdminOK, AdminLocked, Holds
<1>6. QED
  BY <1>2, <1>3, <1>4, <1>5 DEF ActionsInv

\* A user's request goes to a file that nobody has locked.
LEMMA UserEffect ==
  ASSUME AuthTypeOK, NEW f \in File, UserRequest(f)
  PROVE  AuthTypeOK' /\ AuthEffect("user")
<1>1. PICK c \in {Absent} \cup Content : Write(f, c, "user")
  <2>1. cpa[f] \in {Absent} \cup Content
    BY DEF AuthTypeOK
  <2>2. cpa[f] # Absent => [cpa[f] EXCEPT !.disabled = ~@] \in Content
    <3> SUFFICES ASSUME cpa[f] \in Content PROVE [cpa[f] EXCEPT !.disabled = ~@] \in Content
      BY <2>1
    <3>1. (~cpa[f].disabled) \in BOOLEAN
      OBVIOUS
    <3>2. QED
      BY <3>1, Zenon DEF Content
  <2>3. QED
    BY <2>2, Zenon DEF UserRequest
<1>2. holder[f] = Nobody /\ UNCHANGED holder /\ lost' = lost \ {f}
  BY DEF UserRequest
<1>3. cpa' = [cpa EXCEPT ![f] = c] /\ by' = [by EXCEPT ![f] = "user"]
  BY <1>1 DEF Write
<1>4. AuthTypeOK'
  <2>1. cpa' \in [File -> {Absent} \cup Content] /\ by' \in [File -> Who]
    BY <1>3, Zenon DEF AuthTypeOK, Who
  <2>2. QED
    BY <1>2, <2>1 DEF AuthTypeOK
<1>5. AuthEffect("user")
  <2>1. \A g \in File : g # f => cpa'[g] = cpa[g] /\ by'[g] = by[g] /\ (g \in lost => g \in lost')
    BY <1>2, <1>3 DEF AuthTypeOK
  <2>2. by'[f] = "user"
    BY <1>3 DEF AuthTypeOK
  <2>3. QED
    BY <1>2, <2>1, <2>2 DEF AuthEffect
<1>6. QED
  BY <1>4, <1>5
-----------------------------------------------------------------------------
(* Writing files *)

\* A write of one actor: to the file it has locked, in its name.
FileStep(g, who) ==
    /\ cpa' \in [File -> {Absent} \cup Content] /\ by' \in [File -> Who] /\ lost' \subseteq File
    /\ \A f \in File : f # g => cpa'[f] = cpa[f] /\ by'[f] = by[f] /\ (f \in lost' <=> f \in lost)
    /\ \/ cpa'[g] = cpa[g] /\ by'[g] = by[g] /\ (g \in lost => g \in lost')
       \/ holder[g] = who /\ by'[g] = who

LEMMA FilesStay ==
  ASSUME AuthTypeOK, NEW g \in File, NEW who \in Who, UNCHANGED <<cpa, by>>,
         lost' = lost \/ lost' = lost \cup {g}
  PROVE  FileStep(g, who)
BY DEF AuthTypeOK, FileStep

\* Writing a file changes nothing about the others.
LEMMA FileWritten ==
  ASSUME AuthTypeOK, NEW g \in File, NEW who \in Who, holder[g] = who,
         NEW c \in {Absent} \cup Content, Write(g, c, who),
         lost' = lost \/ lost' = lost \cup {g} \/ lost' = lost \ {g}
  PROVE  FileStep(g, who) /\ cpa'[g] = c /\ by'[g] = who
<1>1. cpa' = [cpa EXCEPT ![g] = c] /\ by' = [by EXCEPT ![g] = who]
  BY Zenon DEF Write
<1>2. cpa' \in [File -> {Absent} \cup Content] /\ by' \in [File -> Who] /\ lost' \subseteq File
  BY <1>1 DEF AuthTypeOK
<1>3. \A f \in File : f # g => cpa'[f] = cpa[f] /\ by'[f] = by[f] /\ (f \in lost' <=> f \in lost)
  BY <1>1 DEF AuthTypeOK
<1>4. cpa'[g] = c /\ by'[g] = who
  BY <1>1 DEF AuthTypeOK
<1>5. QED
  BY <1>2, <1>3, <1>4 DEF FileStep

\* Switching a credential changes its flag and who set it.
LEMMA FileSwitched ==
  ASSUME AuthTypeOK, NEW g \in File, NEW k \in Cred, NEW who \in Who, holder[g] = who,
         NEW disabled \in BOOLEAN, Holds(g, k),
         Switch(g, disabled, who) \/ SwitchUnnoticed(g, disabled, who)
  PROVE  /\ FileStep(g, who)
         /\ cpa'[g].cred = k /\ cpa'[g].disabled = disabled /\ by'[g] = who
<1>1. cpa[g] \in Content
  <2>1. cpa[g] \in {Absent} \cup Content
    BY DEF AuthTypeOK
  <2>2. cpa[g] = Absent => NoCred \in Cred
    BY DEF Holds, Absent
  <2>3. NoCred \in Cred => Absent \in Content
    BY DEF Absent, Content
  <2>4. QED
    BY <2>1, <2>2, <2>3
<1> DEFINE c == [cpa[g] EXCEPT !.disabled = disabled]
<1>2. c \in Content
  BY <1>1, Zenon DEF Content
<1>3. c.cred = k /\ c.disabled = disabled
  BY <1>1 DEF Content, Holds
<1>4. Write(g, c, who)
  BY Zenon DEF Switch, SwitchUnnoticed
<1> HIDE DEF c
<1>5. lost' = lost \/ lost' = lost \cup {g} \/ lost' = lost \ {g}
  BY DEF Switch, SwitchUnnoticed
<1>6. FileStep(g, who) /\ cpa'[g] = c /\ by'[g] = who
  BY <1>2, <1>4, <1>5, FileWritten
<1>7. QED
  BY <1>3, <1>6

-----------------------------------------------------------------------------
(* The cooldown worker *)

LEMMA OpFacts ==
  ASSUME CooldownInv
  PROVE  /\ op.pc # "idle" => /\ op \in Operation /\ op # NoOp /\ op.pc \in {"find"} \cup OpLocked
                              /\ op.file \in File /\ op.cred \in Cred /\ op.kind \in Kind
                              /\ op.reset \in 0 .. MaxTime
         /\ op.pc = "idle" => op = NoOp
         /\ op = NoOp => op.pc = "idle" /\ op.kind = "none"
<1>1. op = NoOp \/ op \in Operation
  BY DEF CooldownInv, CooldownTypeOK, Operation
<1>2. op \in Operation => /\ op.pc \in Pc \ {"idle"} /\ op.file \in File /\ op.cred \in Cred
                          /\ op.kind \in Kind /\ op.reset \in 0 .. MaxTime
  BY DEF Operation
<1>3. NoOp.pc = "idle" /\ NoOp.kind = "none"
  BY DEF NoOp
<1>4. QED
  BY <1>1, <1>2, <1>3 DEF Pc, OpLocked

LEMMA OpHolds ==
  ASSUME CooldownInv, op.pc \in OpLocked
  PROVE  holder[op.file] = "cooldown" /\ op.file \in File /\ op.cred \in Cred /\ "cooldown" \in Who
BY OpFacts DEF CooldownInv, OpLockOK, OpLocked, Who

\* The clock, the queue and the start of an operation: nobody's file and no
\* row changes.
LEMMA StartKeeps ==
  ASSUME AuthTypeOK, CooldownInv, UNCHANGED <<authVars, row, until>>, op = NoOp,
         op' = NoOp \/ (op' \in Operation /\ op'.pc = "find"),
         CooldownTypeOK', DueOK',
         op'.kind \in {"due", "early"} => Active(op'.file, op'.cred),
         op'.kind = "due" => row[op'.file][op'.cred].recover <= now'
  PROVE  AuthTypeOK' /\ CooldownInv' /\ AuthEffect("cooldown")
<1>0. UNCHANGED <<cpa, holder, by, lost, row, until>>
  BY DEF authVars
<1>1. op.pc = "idle" /\ op'.pc \in {"idle", "find"}
  BY DEF NoOp
<1>2. AuthTypeOK' /\ AuthEffect("cooldown")
  BY <1>0 DEF AuthTypeOK, AuthEffect
<1>3. OpLockOK' /\ UntilOK'
  BY <1>0, <1>1 DEF CooldownInv, OpLockOK, OpLocked, UntilOK, Active
<1>4. OpOK'
  BY <1>0, <1>1 DEF OpOK, Target, Active
<1>5. DisabledIsOwned'
  BY <1>0, <1>1 DEF CooldownInv, DisabledIsOwned, CoolingDown, Holds, Active
<1>6. QED
  BY <1>2, <1>3, <1>4, <1>5 DEF CooldownInv

LEMMA TickKeeps ==
  ASSUME AuthTypeOK, CooldownInv, Tick
  PROVE  AuthTypeOK' /\ CooldownInv' /\ AuthEffect("cooldown")
<1>0. /\ UNCHANGED <<cpa, holder, by, lost, row, until, queue, due, op>>
      /\ now' = now + 1 /\ now' \in 0 .. MaxTime /\ now \in Nat
  BY CooldownAssumption DEF Tick, authVars, workerVars, CooldownInv, CooldownTypeOK
<1>1. AuthTypeOK' /\ AuthEffect("cooldown")
  BY <1>0 DEF AuthTypeOK, AuthEffect
<1>2. CooldownTypeOK' /\ OpLockOK' /\ UntilOK' /\ DisabledIsOwned'
  BY <1>0 DEF CooldownInv, CooldownTypeOK, OpLockOK, UntilOK, DisabledIsOwned, CoolingDown, Holds, Active
<1>3. \A f \in File, k \in Cred : row[f][k].recover \in Nat
  BY DEF CooldownInv, CooldownTypeOK
<1>4. DueOK'
  BY <1>0, <1>3 DEF CooldownInv, DueOK, Due, Active
<1>5. OpOK'
  <2>1. op.kind = "due" => Target.recover \in Nat
    BY <1>3, OpFacts DEF Target
  <2>2. op.kind = "due" => Target.recover <= now + 1
    BY <1>0, <2>1 DEF CooldownInv, OpOK
  <2>3. QED
    BY <1>0, <2>2 DEF CooldownInv, OpOK, Target, Holds, Active
<1>6. QED
  BY <1>1, <1>2, <1>4, <1>5 DEF CooldownInv

LEMMA ReportKeeps ==
  ASSUME AuthTypeOK, CooldownInv, NEW f \in File, NEW k \in Cred, NEW reset \in 1 .. MaxTime,
         ReportExhausted(f, k, reset)
  PROVE  AuthTypeOK' /\ CooldownInv' /\ AuthEffect("cooldown")
<1>0. /\ UNCHANGED <<cpa, holder, by, lost, now, row, until, due, op>>
      /\ queue' = Append(queue, [file |-> f, cred |-> k, reset |-> reset])
  BY DEF ReportExhausted, authVars
<1>1. AuthTypeOK' /\ AuthEffect("cooldown")
  BY <1>0 DEF AuthTypeOK, AuthEffect
<1>2. OpLockOK' /\ UntilOK' /\ DisabledIsOwned' /\ DueOK' /\ OpOK'
  BY <1>0 DEF CooldownInv, OpLockOK, UntilOK, DisabledIsOwned, CoolingDown, Holds, Active, DueOK, Due, OpOK, Target
<1>3. CooldownTypeOK'
  <2>1. [file |-> f, cred |-> k, reset |-> reset] \in [file : File, cred : Cred, reset : 1 .. MaxTime]
    OBVIOUS
  <2>2. queue' \in Seq([file : File, cred : Cred, reset : 1 .. MaxTime])
    BY <1>0, <2>1 DEF CooldownInv, CooldownTypeOK
  <2>3. QED
    BY <1>0, <2>2 DEF CooldownInv, CooldownTypeOK
<1>4. QED
  BY <1>1, <1>2, <1>3 DEF CooldownInv
LEMMA HeadAndTail ==
  ASSUME NEW S, NEW q \in Seq(S), q # <<>>
  PROVE  Head(q) \in S /\ Tail(q) \in Seq(S)
OBVIOUS

LEMMA TakeCandidateKeeps ==
  ASSUME AuthTypeOK, CooldownInv, TakeCandidate
  PROVE  AuthTypeOK' /\ CooldownInv' /\ AuthEffect("cooldown")
<1> DEFINE c == Head(queue)
<1>0. /\ op = NoOp /\ due = {} /\ queue # <<>> /\ queue' = Tail(queue)
      /\ UNCHANGED <<authVars, now, row, until, due>>
      /\ op' = IF c.reset > now
               THEN [pc |-> "find", kind |-> "candidate", file |-> c.file, cred |-> c.cred, reset |-> c.reset]
               ELSE NoOp
  BY DEF TakeCandidate, Free
<1>1. c \in [file : File, cred : Cred, reset : 1 .. MaxTime]
  BY <1>0, HeadAndTail DEF CooldownInv, CooldownTypeOK
<1>2. queue' \in Seq([file : File, cred : Cred, reset : 1 .. MaxTime])
  BY <1>0, HeadAndTail DEF CooldownInv, CooldownTypeOK
<1>3. c.file \in File /\ c.cred \in Cred /\ c.reset \in 0 .. MaxTime
  BY <1>1, CooldownAssumption
<1> HIDE DEF c
<1>4. op' = NoOp \/ (op' \in Operation /\ op'.pc = "find" /\ op'.kind = "candidate")
  BY <1>0, <1>3 DEF Operation, Pc, Kind
<1>5. CooldownTypeOK'
  BY <1>0, <1>2, <1>4 DEF CooldownInv, CooldownTypeOK, Operation
<1>6. DueOK'
  BY <1>0 DEF DueOK
<1>7. op'.kind \in {"candidate", "none"}
  BY <1>4 DEF NoOp
<1>8. QED
  BY <1>0, <1>4, <1>5, <1>6, <1>7, StartKeeps

LEMMA StartDueKeeps ==
  ASSUME AuthTypeOK, CooldownInv, StartDue
  PROVE  AuthTypeOK' /\ CooldownInv' /\ AuthEffect("cooldown")
<1>0. /\ op = NoOp /\ op' = NoOp /\ due' = {key \in Key : Due(key[1], key[2])}
      /\ UNCHANGED <<authVars, now, row, until, queue>>
  BY DEF StartDue, Free
<1>1. CooldownTypeOK'
  BY <1>0 DEF CooldownInv, CooldownTypeOK
<1>2. DueOK'
  BY <1>0 DEF DueOK, Due, Active
<1>3. op'.kind = "none"
  BY <1>0 DEF NoOp
<1>4. QED
  BY <1>0, <1>1, <1>2, <1>3, StartKeeps

LEMMA NextDueKeeps ==
  ASSUME AuthTypeOK, CooldownInv, NextDue
  PROVE  AuthTypeOK' /\ CooldownInv' /\ AuthEffect("cooldown")
<1>0. op = NoOp /\ UNCHANGED <<authVars, now, row, until, queue>>
  BY DEF NextDue
<1>1. PICK key \in due : op' = Recovery("due", key[1], key[2]) /\ due' = due \ {key}
  BY DEF NextDue
<1>2. key \in File \X Cred
  BY DEF CooldownInv, CooldownTypeOK, Key
<1>3. PICK f \in File, k \in Cred : key = <<f, k>>
  BY <1>2
<1>4. op' = [pc |-> "find", kind |-> "due", file |-> f, cred |-> k, reset |-> 0] /\ due' = due \ {<<f, k>>}
  BY <1>1, <1>3 DEF Recovery
<1>5. op' \in Operation /\ op'.pc = "find" /\ op'.kind = "due" /\ op'.file = f /\ op'.cred = k
  BY <1>4, CooldownAssumption DEF Operation, Pc, Kind
<1>6. CooldownTypeOK'
  <2>1. due' \subseteq Key
    BY <1>4 DEF CooldownInv, CooldownTypeOK
  <2>2. QED
    BY <1>0, <1>5, <2>1 DEF CooldownInv, CooldownTypeOK, Operation
<1>7. Due(f, k)
  BY <1>3 DEF CooldownInv, DueOK
<1>8. DueOK'
  <2>1. \A g \in File, j \in Cred : <<g, j>> \in due' => <<g, j>> \in due /\ ~(g = f /\ j = k)
    BY <1>4
  <2>2. \A g \in File, j \in Cred : <<g, j>> \in due => Due(g, j)
    BY DEF CooldownInv, DueOK
  <2>3. QED
    BY <1>0, <1>5, <2>1, <2>2 DEF DueOK, Due, Active
<1>9. QED
  BY <1>0, <1>5, <1>6, <1>7, <1>8, StartKeeps DEF Due

LEMMA StartEarlyKeeps ==
  ASSUME AuthTypeOK, CooldownInv, NEW f \in File, NEW k \in Cred, StartEarly(f, k)
  PROVE  AuthTypeOK' /\ CooldownInv' /\ AuthEffect("cooldown")
<1>0. op = NoOp /\ due = {} /\ Active(f, k) /\ UNCHANGED <<authVars, now, row, until, queue, due>>
  BY DEF StartEarly, Free
<1>1. op' = [pc |-> "find", kind |-> "early", file |-> f, cred |-> k, reset |-> 0]
  BY DEF StartEarly, Recovery
<1>2. op' \in Operation /\ op'.pc = "find" /\ op'.kind = "early" /\ op'.file = f /\ op'.cred = k
  BY <1>1, CooldownAssumption DEF Operation, Pc, Kind
<1>3. CooldownTypeOK'
  BY <1>0, <1>2 DEF CooldownInv, CooldownTypeOK, Operation
<1>4. DueOK'
  BY <1>0 DEF DueOK
<1>5. QED
  BY <1>0, <1>2, <1>3, <1>4, StartKeeps

\* What an operation writes about a credential it writes to that row only.
RowStep ==
    /\ row' \in [File -> [Cred -> [status : RowStatus, recover : 0 .. MaxTime]]]
    /\ until' \in [File -> [Cred -> 0 .. MaxTime]]
    /\ \A f \in File, k \in Cred : ~(f = op.file /\ k = op.cred) =>
         row'[f][k] = row[f][k] /\ until'[f][k] = until[f][k]

LEMMA RowWritten ==
  ASSUME CooldownInv, op.pc # "idle", NEW r \in [status : RowStatus, recover : 0 .. MaxTime], SetRow(r),
         NEW t \in 0 .. MaxTime, SetUntil(t)
  PROVE  RowStep /\ row'[op.file][op.cred] = r /\ until'[op.file][op.cred] = t
<1>0. op.file \in File /\ op.cred \in Cred
  BY OpFacts
<1>1. /\ row \in [File -> [Cred -> [status : RowStatus, recover : 0 .. MaxTime]]]
      /\ until \in [File -> [Cred -> 0 .. MaxTime]]
  BY DEF CooldownInv, CooldownTypeOK
<1>2. /\ row' = [row EXCEPT ![op.file] = [row[op.file] EXCEPT ![op.cred] = r]]
      /\ until' = [until EXCEPT ![op.file] = [until[op.file] EXCEPT ![op.cred] = t]]
  BY DEF SetRow, SetUntil
<1>3. /\ [row[op.file] EXCEPT ![op.cred] = r] \in [Cred -> [status : RowStatus, recover : 0 .. MaxTime]]
      /\ [until[op.file] EXCEPT ![op.cred] = t] \in [Cred -> 0 .. MaxTime]
  BY <1>0, <1>1
<1>4. /\ row' \in [File -> [Cred -> [status : RowStatus, recover : 0 .. MaxTime]]]
      /\ until' \in [File -> [Cred -> 0 .. MaxTime]]
  BY <1>1, <1>2, <1>3
<1>5. /\ \A f \in File, k \in Cred : ~(f = op.file /\ k = op.cred) =>
           row'[f][k] = row[f][k] /\ until'[f][k] = until[f][k]
      /\ row'[op.file][op.cred] = r /\ until'[op.file][op.cred] = t
  BY <1>0, <1>1, <1>2
<1>6. QED
  BY <1>4, <1>5 DEF RowStep

LEMMA RowsStay ==
  ASSUME CooldownInv, UNCHANGED <<row, until>>
  PROVE  RowStep
BY DEF CooldownInv, CooldownTypeOK, RowStep

\* What every end of an operation keeps: the lock is released, and nothing is
\* left to rely on but the rows.
LEMMA EndKeeps ==
  ASSUME AuthTypeOK, CooldownInv, op.pc # "idle", End, RowStep,
         FileStep(op.file, "cooldown"), UNCHANGED <<now, queue, due>>,
         row'[op.file][op.cred].status = "active" =>
           until'[op.file][op.cred] <= row'[op.file][op.cred].recover,
         cpa'[op.file].disabled /\ by'[op.file] = "cooldown" /\ op.file \notin lost' =>
           \E k \in Cred : cpa'[op.file].cred = k /\ row'[op.file][k].status = "active"
  PROVE  AuthTypeOK' /\ CooldownInv' /\ AuthEffect("cooldown")
<1>0. op.file \in File /\ op.cred \in Cred /\ op # NoOp /\ op.pc \in {"find"} \cup OpLocked
  BY OpFacts
<1>1. op' = NoOp /\ op'.pc = "idle" /\ op'.kind = "none"
  BY DEF End, NoOp
<1>2. holder \in [File -> Who \cup {Nobody}]
  BY DEF AuthTypeOK
<1>3. \/ op.pc = "find" /\ holder' = holder
      \/ op.pc \in OpLocked /\ holder' = [holder EXCEPT ![op.file] = Nobody]
  BY <1>0 DEF End, Drop, OpLocked
<1>4. AuthTypeOK'
  <2>1. holder' \in [File -> Who \cup {Nobody}]
    BY <1>2, <1>3
  <2>2. QED
    BY <2>1 DEF AuthTypeOK, FileStep
<1>5. op.pc \in OpLocked => holder[op.file] = "cooldown"
  BY <1>0 DEF CooldownInv, OpLockOK
<1>6. OpLockOK'
  <2>1. \A f \in File : holder'[f] # "cooldown"
    <3> SUFFICES ASSUME NEW f \in File PROVE holder'[f] # "cooldown"
      OBVIOUS
    <3>1. holder[f] = "cooldown" <=> op.file = f /\ op.pc \in OpLocked
      BY DEF CooldownInv, OpLockOK
    <3>2. CASE op.pc = "find" /\ holder' = holder
      BY <3>1, <3>2 DEF OpLocked
    <3>3. CASE op.pc \in OpLocked /\ holder' = [holder EXCEPT ![op.file] = Nobody]
      BY <1>0, <1>2, <3>1, <3>3 DEF Nobody
    <3>4. QED
      BY <1>3, <3>2, <3>3
  <2>2. QED
    BY <1>1, <2>1 DEF OpLockOK, OpLocked
<1>7. OpOK'
  BY <1>1 DEF OpOK
<1>8. DueOK'
  <2> SUFFICES ASSUME NEW f \in File, NEW k \in Cred, <<f, k>> \in due
               PROVE  Due(f, k)'
    BY <1>1 DEF DueOK
  <2>1. Due(f, k) /\ ~(f = op.file /\ k = op.cred)
    BY <1>0 DEF CooldownInv, DueOK
  <2>2. QED
    BY <2>1 DEF RowStep, Due, Active
<1>9. UntilOK'
  <2> SUFFICES ASSUME NEW f \in File, NEW k \in Cred, Active(f, k)'
               PROVE  until'[f][k] <= row'[f][k].recover
    BY DEF UntilOK
  <2>1. CASE f = op.file /\ k = op.cred
    BY <2>1 DEF Active
  <2>2. CASE ~(f = op.file /\ k = op.cred)
    BY <2>2 DEF CooldownInv, UntilOK, RowStep, Active
  <2>3. QED
    BY <2>1, <2>2
<1>10. CooldownTypeOK'
  BY <1>1 DEF CooldownInv, CooldownTypeOK, RowStep
<1>11. DisabledIsOwned'
  <2> SUFFICES ASSUME NEW f \in File, cpa'[f].disabled, by'[f] = "cooldown", f \notin lost'
               PROVE  \E k \in Cred : cpa'[f].cred = k /\ row'[f][k].status = "active"
    BY DEF DisabledIsOwned, CoolingDown, Holds, Active
  <2>1. CASE f = op.file
    BY <2>1
  <2>2. CASE f # op.file
    <3>1. cpa'[f] = cpa[f] /\ by'[f] = by[f] /\ f \notin lost
      BY <2>2 DEF FileStep
    <3>2. CoolingDown(f)
      BY <2>2, <3>1 DEF CooldownInv, DisabledIsOwned
    <3>3. \A k \in Cred : row'[f][k] = row[f][k]
      BY <2>2 DEF RowStep
    <3>4. QED
      BY <3>1, <3>2, <3>3 DEF CoolingDown, Holds, Active
  <2>3. QED
    BY <2>1, <2>2
<1>12. AuthEffect("cooldown")
  <2> SUFFICES ASSUME NEW f \in File
               PROVE  /\ holder'[f] = holder[f] \/ {holder[f], holder'[f]} \subseteq {Nobody, "cooldown"}
                      /\ \/ cpa'[f] = cpa[f] /\ by'[f] = by[f] /\ (f \in lost => f \in lost')
                         \/ holder[f] \in {Nobody, "cooldown"} /\ by'[f] = "cooldown"
    BY DEF AuthEffect
  <2>1. holder'[f] = holder[f] \/ {holder[f], holder'[f]} \subseteq {Nobody, "cooldown"}
    BY <1>0, <1>2, <1>3, <1>5
  <2>2. QED
    BY <1>5, <2>1 DEF FileStep
<1>13. QED
  BY <1>4, <1>6, <1>7, <1>8, <1>9, <1>10, <1>11, <1>12 DEF CooldownInv

\* What every further step of an operation keeps: the lock stays or is taken.
LEMMA GotoKeeps ==
  ASSUME AuthTypeOK, CooldownInv, op.pc # "idle", NEW pc \in OpLocked, op' = [op EXCEPT !.pc = pc],
         \/ op.pc \in OpLocked /\ UNCHANGED holder
         \/ holder[op.file] = Nobody /\ Take(op.file, "cooldown"),
         FileStep(op.file, "cooldown"), UNCHANGED <<now, queue, due, row, until>>, OpOK',
         cpa'[op.file].disabled /\ by'[op.file] = "cooldown" /\ op.file \notin lost' =>
           (CoolingDown(op.file) /\ cpa'[op.file].cred = cpa[op.file].cred) \/ pc \in {"persist", "undo"}
  PROVE  AuthTypeOK' /\ CooldownInv' /\ AuthEffect("cooldown")
<1>0. /\ op.file \in File /\ op.cred \in Cred /\ op # NoOp /\ op \in Operation
      /\ op.pc \in {"find"} \cup OpLocked
  BY OpFacts
<1>1. /\ op' \in Operation /\ op'.pc = pc /\ op'.file = op.file /\ op'.cred = op.cred /\ op'.kind = op.kind
  <2>1. pc \in Pc \ {"idle"}
    BY DEF OpLocked, Pc
  <2>2. QED
    BY <1>0, <2>1, Zenon DEF Operation
<1>2. holder \in [File -> Who \cup {Nobody}]
  BY DEF AuthTypeOK
<1>3. \/ op.pc \in OpLocked /\ holder' = holder
      \/ holder[op.file] = Nobody /\ holder' = [holder EXCEPT ![op.file] = "cooldown"]
  BY DEF Take
<1>4. AuthTypeOK'
  <2>1. holder' \in [File -> Who \cup {Nobody}]
    BY <1>2, <1>3 DEF Who
  <2>2. QED
    BY <2>1 DEF AuthTypeOK, FileStep
<1>5. op.pc \in OpLocked => holder[op.file] = "cooldown"
  BY <1>0 DEF CooldownInv, OpLockOK
<1>6. OpLockOK'
  <2> SUFFICES ASSUME NEW f \in File
               PROVE  holder'[f] = "cooldown" <=> op.file = f
    BY <1>1 DEF OpLockOK
  <2>1. holder[f] = "cooldown" <=> op.file = f /\ op.pc \in OpLocked
    BY DEF CooldownInv, OpLockOK
  <2>2. QED
    BY <1>0, <1>2, <1>3, <2>1 DEF Nobody
<1>7. DueOK'
  <2>1. op' # NoOp
    BY <1>1 DEF OpLocked, NoOp
  <2>2. QED
    BY <1>0, <1>1 DEF CooldownInv, DueOK, Due, Active
<1>8. UntilOK' /\ CooldownTypeOK'
  BY <1>1 DEF CooldownInv, UntilOK, CooldownTypeOK, Active, Operation
<1>9. DisabledIsOwned'
  <2> SUFFICES ASSUME NEW f \in File, cpa'[f].disabled, by'[f] = "cooldown", f \notin lost'
               PROVE  \/ \E k \in Cred : cpa'[f].cred = k /\ row[f][k].status = "active"
                      \/ op.file = f /\ pc \in {"persist", "undo"}
    BY <1>1 DEF DisabledIsOwned, CoolingDown, Holds, Active
  <2>1. CASE f = op.file
    BY <2>1 DEF CoolingDown, Holds, Active
  <2>2. CASE f # op.file
    <3>1. cpa'[f] = cpa[f] /\ by'[f] = by[f] /\ f \notin lost
      BY <2>2 DEF FileStep
    <3>2. CoolingDown(f)
      BY <2>2, <3>1 DEF CooldownInv, DisabledIsOwned
    <3>3. QED
      BY <3>1, <3>2 DEF CoolingDown, Holds, Active
  <2>3. QED
    BY <2>1, <2>2
<1>10. AuthEffect("cooldown")
  <2> SUFFICES ASSUME NEW f \in File
               PROVE  /\ holder'[f] = holder[f] \/ {holder[f], holder'[f]} \subseteq {Nobody, "cooldown"}
                      /\ \/ cpa'[f] = cpa[f] /\ by'[f] = by[f] /\ (f \in lost => f \in lost')
                         \/ holder[f] \in {Nobody, "cooldown"} /\ by'[f] = "cooldown"
    BY DEF AuthEffect
  <2>1. holder'[f] = holder[f] \/ {holder[f], holder'[f]} \subseteq {Nobody, "cooldown"}
    BY <1>0, <1>2, <1>3, <1>5
  <2>2. QED
    BY <1>5, <2>1 DEF FileStep
<1>11. QED
  BY <1>4, <1>6, <1>7, <1>8, <1>9, <1>10 DEF CooldownInv

\* An operation that ends without having changed anything.
LEMMA GiveUpKeeps ==
  ASSUME AuthTypeOK, CooldownInv, op.pc # "idle", End, UNCHANGED <<cpa, by, now, row, until, queue, due>>,
         \/ lost' = lost /\ op.pc \notin {"persist", "undo"}
         \/ lost' = lost \cup {op.file}
  PROVE  AuthTypeOK' /\ CooldownInv' /\ AuthEffect("cooldown")
<1>0. op.file \in File /\ op.cred \in Cred
  BY OpFacts
<1>1. RowStep /\ FileStep(op.file, "cooldown")
  BY <1>0, RowsStay, FilesStay DEF Who
<1>2. row'[op.file][op.cred].status = "active" => until'[op.file][op.cred] <= row'[op.file][op.cred].recover
  BY <1>0 DEF CooldownInv, UntilOK, Active
<1>3. cpa'[op.file].disabled /\ by'[op.file] = "cooldown" /\ op.file \notin lost' =>
        \E k \in Cred : cpa'[op.file].cred = k /\ row'[op.file][k].status = "active"
  BY <1>0 DEF CooldownInv, DisabledIsOwned, CoolingDown, Holds, Active
<1>4. QED
  BY <1>1, <1>2, <1>3, EndKeeps

\* A cooldown that ends has no reset time.
LEMMA Ended ==
  ASSUME CooldownInv, op.pc # "idle", NEW status \in {"recovered", "skipped"}, EndCooldown(status)
  PROVE  /\ RowStep
         /\ row'[op.file][op.cred].status = status
         /\ row'[op.file][op.cred].recover = 0 /\ until'[op.file][op.cred] = 0
<1>1. [status |-> status, recover |-> 0] \in [status : RowStatus, recover : 0 .. MaxTime] /\ 0 \in 0 .. MaxTime
  BY CooldownAssumption DEF RowStatus
<1>2. SetRow([status |-> status, recover |-> 0]) /\ SetUntil(0)
  BY DEF EndCooldown
<1>3. RowStep /\ row'[op.file][op.cred] = [status |-> status, recover |-> 0] /\ until'[op.file][op.cred] = 0
  BY <1>1, <1>2, RowWritten
<1>4. QED
  BY <1>3

LEMMA FindNothingKeeps ==
  ASSUME AuthTypeOK, CooldownInv, FindNothing
  PROVE  AuthTypeOK' /\ CooldownInv' /\ AuthEffect("cooldown")
<1>0. /\ op.pc = "find" /\ ~Holds(op.file, op.cred) /\ End
      /\ UNCHANGED <<cpa, by, lost, now, queue, due>>
  BY DEF FindNothing, Found
<1>1. CASE op.kind = "candidate"
  BY <1>0, <1>1, GiveUpKeeps DEF FindNothing
<1>2. CASE op.kind # "candidate"
  <2>0. op.file \in File /\ op.cred \in Cred
    BY <1>0, OpFacts
  <2>1. EndCooldown("skipped")
    BY <1>2 DEF FindNothing
  <2>2. RowStep /\ row'[op.file][op.cred].status = "skipped"
    BY <1>0, <2>1, Ended
  <2>3. FileStep(op.file, "cooldown")
    BY <1>0, <2>0, FilesStay DEF Who
  <2>4. cpa'[op.file].disabled /\ by'[op.file] = "cooldown" /\ op.file \notin lost' =>
          \E k \in Cred : cpa'[op.file].cred = k /\ row'[op.file][k].status = "active"
    <3> SUFFICES ASSUME cpa[op.file].disabled, by[op.file] = "cooldown", op.file \notin lost
                 PROVE  \E k \in Cred : cpa[op.file].cred = k /\ row'[op.file][k].status = "active"
      BY <1>0
    <3>1. PICK k \in Cred : Holds(op.file, k) /\ Active(op.file, k)
      BY <1>0, <2>0 DEF CooldownInv, DisabledIsOwned, CoolingDown
    <3>2. k # op.cred
      BY <1>0, <3>1
    <3>3. row'[op.file][k] = row[op.file][k]
      BY <2>0, <2>2, <3>2 DEF RowStep
    <3>4. QED
      BY <3>1, <3>3 DEF Holds, Active
  <2>5. QED
    BY <1>0, <2>2, <2>3, <2>4, EndKeeps
<1>3. QED
  BY <1>1, <1>2

LEMMA FindWorkKeeps ==
  ASSUME AuthTypeOK, CooldownInv, FindWork
  PROVE  AuthTypeOK' /\ CooldownInv' /\ AuthEffect("cooldown")
<1> DEFINE pc == IF op.kind = "candidate" THEN "disable" ELSE "enable"
<1>0. /\ op.pc = "find" /\ holder[op.file] = Nobody /\ Holds(op.file, op.cred)
      /\ cpa[op.file].disabled = (op.kind # "candidate") /\ Take(op.file, "cooldown")
      /\ op' = [op EXCEPT !.pc = pc] /\ UNCHANGED <<cpa, by, lost, now, row, until, queue, due>>
  BY DEF FindWork, Found
<1>1. /\ op.file \in File /\ op.cred \in Cred /\ op \in Operation /\ op.kind \in Kind
  BY <1>0, OpFacts
<1>2. /\ op'.pc = pc /\ op'.file = op.file /\ op'.cred = op.cred /\ op'.kind = op.kind
  BY <1>0, <1>1 DEF Operation
<1>3. OpOK'
  <2>1. /\ op.kind \in {"due", "early"} => Active(op.file, op.cred)
        /\ op.kind = "due" => Target.recover <= now
    BY DEF CooldownInv, OpOK
  <2>2. CASE op.kind = "candidate"
    <3>1. ~cpa[op.file].disabled
      BY <1>0, <2>2, Zenon
    <3>2. op'.pc = "disable" /\ Holds(op.file, op.cred)' /\ ~cpa'[op'.file].disabled
      BY <1>0, <1>2, <2>2, <3>1 DEF Holds
    <3>3. cpa'[op'.file].cred = op'.cred
      BY <1>0, <1>2 DEF Holds
    <3>4. QED
      BY <1>2, <2>2, <3>2, <3>3 DEF OpOK, Holds
  <2>3. CASE op.kind # "candidate"
    <3>1. cpa[op.file].disabled
      BY <1>0, <2>3, Zenon
    <3>2. op'.pc = "enable" /\ cpa'[op'.file].cred = op'.cred /\ cpa'[op'.file].disabled
      BY <1>0, <1>2, <2>3, <3>1 DEF Holds
    <3>3. op.kind \in {"due", "early"}
      BY <1>1, <2>3 DEF Kind
    <3>4. QED
      BY <1>0, <1>2, <2>1, <3>2, <3>3 DEF OpOK, Holds, Active, Target
  <2>4. QED
    BY <2>2, <2>3
<1>4. pc \in OpLocked
  BY DEF OpLocked
<1>5. FileStep(op.file, "cooldown")
  BY <1>0, <1>1, FilesStay DEF Who
<1>6. cpa'[op.file].disabled /\ by'[op.file] = "cooldown" /\ op.file \notin lost' =>
        CoolingDown(op.file) /\ cpa'[op.file].cred = cpa[op.file].cred
  BY <1>0, <1>1 DEF CooldownInv, DisabledIsOwned
<1> HIDE DEF pc
<1>7. QED
  BY <1>0, <1>3, <1>4, <1>5, <1>6, GotoKeeps

LEMMA ExtendKeeps ==
  ASSUME AuthTypeOK, CooldownInv, ExtendCooldown
  PROVE  AuthTypeOK' /\ CooldownInv' /\ AuthEffect("cooldown")
<1>0. /\ op.pc = "find" /\ Holds(op.file, op.cred) /\ End
      /\ UNCHANGED <<cpa, by, lost, now, queue, due>>
  BY DEF ExtendCooldown, Found
<1>1. CASE UNCHANGED <<row, until>>
  BY <1>0, <1>1, GiveUpKeeps
<1>2. CASE /\ Active(op.file, op.cred) /\ SetRow([Target EXCEPT !.recover = Extended])
           /\ SetUntil(Later(until[op.file][op.cred], op.reset))
  <2>0. op.file \in File /\ op.cred \in Cred /\ op.reset \in 0 .. MaxTime
    BY <1>0, OpFacts
  <2>1. /\ Target \in [status : RowStatus, recover : 0 .. MaxTime]
        /\ until[op.file][op.cred] \in 0 .. MaxTime
    BY <2>0 DEF CooldownInv, CooldownTypeOK, Target
  <2> DEFINE r == [Target EXCEPT !.recover = Extended]
             t == Later(until[op.file][op.cred], op.reset)
  <2>2. Extended \in 0 .. MaxTime /\ t \in 0 .. MaxTime
    BY <2>0, <2>1 DEF Extended, Later
  <2>3. r \in [status : RowStatus, recover : 0 .. MaxTime] /\ r.status = Target.status /\ r.recover = Extended
    BY <2>1, <2>2, Zenon
  <2>4. until[op.file][op.cred] <= Target.recover
    BY <1>2, <2>0 DEF CooldownInv, UntilOK, Target
  <2>5. t <= Extended
    BY <2>0, <2>1, <2>4, CooldownAssumption DEF Extended, Later
  <2>6. SetRow(r) /\ SetUntil(t)
    BY <1>2
  <2> HIDE DEF r, t
  <2>7. RowStep /\ row'[op.file][op.cred] = r /\ until'[op.file][op.cred] = t
    BY <1>0, <2>2, <2>3, <2>6, RowWritten
  <2>8. row'[op.file][op.cred].status = "active" /\ row'[op.file][op.cred].recover = Extended
    BY <1>2, <2>3, <2>7 DEF Active, Target
  <2>9. FileStep(op.file, "cooldown")
    BY <1>0, <2>0, FilesStay DEF Who
  <2>10. \E k \in Cred : cpa'[op.file].cred = k /\ row'[op.file][k].status = "active"
    BY <1>0, <2>0, <2>8 DEF Holds
  <2>11. QED
    BY <1>0, <2>5, <2>7, <2>8, <2>9, <2>10, EndKeeps
<1>3. QED
  BY <1>1, <1>2 DEF ExtendCooldown

LEMMA FindEnabledKeeps ==
  ASSUME AuthTypeOK, CooldownInv, FindEnabled
  PROVE  AuthTypeOK' /\ CooldownInv' /\ AuthEffect("cooldown")
<1>0. /\ op.pc = "find" /\ End /\ ~cpa[op.file].disabled /\ EndCooldown("recovered")
      /\ UNCHANGED <<cpa, by, lost, now, queue, due>> /\ op.file \in File
  BY OpFacts DEF FindEnabled, Found
<1>1. RowStep /\ row'[op.file][op.cred].status = "recovered"
  BY <1>0, Ended
<1>2. FileStep(op.file, "cooldown")
  BY <1>0, FilesStay DEF Who
<1>3. QED
  BY <1>0, <1>1, <1>2, EndKeeps

\* What a switch that is not owned in the rows leaves to the invariant.
LEMMA SwitchedEnd ==
  ASSUME AuthTypeOK, CooldownInv, op.pc \in OpLocked, Holds(op.file, op.cred), NEW disabled \in BOOLEAN,
         \/ Switch(op.file, disabled, "cooldown")
         \/ SwitchUnnoticed(op.file, disabled, "cooldown"),
         disabled => op.file \in lost' \/ Active(op.file, op.cred),
         End, UNCHANGED <<now, row, until, queue, due>>
  PROVE  AuthTypeOK' /\ CooldownInv' /\ AuthEffect("cooldown")
<1>0. op.pc # "idle" /\ op.file \in File /\ op.cred \in Cred
  BY OpFacts DEF OpLocked
<1>1. FileStep(op.file, "cooldown") /\ cpa'[op.file].cred = op.cred /\ cpa'[op.file].disabled = disabled
  BY FileSwitched, OpHolds
<1>2. RowStep
  BY RowsStay
<1>3. row'[op.file][op.cred].status = "active" => until'[op.file][op.cred] <= row'[op.file][op.cred].recover
  BY <1>0 DEF CooldownInv, UntilOK, Active
<1>4. disabled /\ op.file \notin lost' =>
        \E k \in Cred : cpa'[op.file].cred = k /\ row'[op.file][k].status = "active"
  BY <1>0, <1>1 DEF Active
<1>5. QED
  BY <1>0, <1>1, <1>2, <1>3, <1>4, EndKeeps

LEMMA DisableKeeps ==
  ASSUME AuthTypeOK, CooldownInv, Disable
  PROVE  AuthTypeOK' /\ CooldownInv' /\ AuthEffect("cooldown")
<1>0. /\ op.pc = "disable" /\ op.pc \in OpLocked /\ UNCHANGED <<now, row, until, queue, due>>
      /\ Holds(op.file, op.cred) /\ op.file \in File /\ op \in Operation
  BY OpFacts DEF Disable, OpLocked, CooldownInv, OpOK
<1>1. CASE Switch(op.file, TRUE, "cooldown") /\ Goto("persist")
  <2>1. FileStep(op.file, "cooldown") /\ cpa'[op.file].cred = op.cred /\ cpa'[op.file].disabled = TRUE /\ by'[op.file] = "cooldown"
    BY <1>0, <1>1, FileSwitched, OpHolds
  <2>2. op' = [op EXCEPT !.pc = "persist"] /\ UNCHANGED holder /\ "persist" \in OpLocked
    BY <1>1 DEF Goto, OpLocked
  <2>3. op'.pc = "persist" /\ op'.file = op.file /\ op'.cred = op.cred /\ op'.kind = op.kind
    BY <1>0, <2>2 DEF Operation
  <2>4. OpOK'
    BY <1>0, <2>1, <2>3 DEF CooldownInv, OpOK, Holds, Active, Target
  <2>5. QED
    BY <1>0, <2>1, <2>2, <2>4, GotoKeeps
<1>2. CASE SwitchUnnoticed(op.file, TRUE, "cooldown") /\ End
  <2>1. op.file \in lost'
    BY <1>2 DEF SwitchUnnoticed
  <2>2. QED
    BY <1>0, <1>2, <2>1, SwitchedEnd
<1>3. CASE UNCHANGED <<cpa, by, lost>> /\ End
  BY <1>0, <1>3, GiveUpKeeps
<1>4. QED
  BY <1>1, <1>2, <1>3 DEF Disable

LEMMA PersistKeeps ==
  ASSUME AuthTypeOK, CooldownInv, Persist
  PROVE  AuthTypeOK' /\ CooldownInv' /\ AuthEffect("cooldown")
<1>0. /\ op.pc = "persist" /\ SetRow([status |-> "active", recover |-> op.reset]) /\ SetUntil(op.reset)
      /\ End /\ UNCHANGED <<cpa, by, lost, now, queue, due>>
  BY DEF Persist
<1>1. op.file \in File /\ op.cred \in Cred /\ op.reset \in 0 .. MaxTime /\ Holds(op.file, op.cred)
  BY <1>0, OpFacts DEF CooldownInv, OpOK
<1>2. [status |-> "active", recover |-> op.reset] \in [status : RowStatus, recover : 0 .. MaxTime]
  BY <1>1 DEF RowStatus
<1>3. /\ RowStep /\ row'[op.file][op.cred] = [status |-> "active", recover |-> op.reset]
      /\ until'[op.file][op.cred] = op.reset
  BY <1>0, <1>1, <1>2, RowWritten
<1>4. row'[op.file][op.cred].status = "active" /\ row'[op.file][op.cred].recover = op.reset
  BY <1>3
<1>5. until'[op.file][op.cred] <= row'[op.file][op.cred].recover
  BY <1>1, <1>3, <1>4, CooldownAssumption
<1>6. \E k \in Cred : cpa'[op.file].cred = k /\ row'[op.file][k].status = "active"
  BY <1>0, <1>1, <1>4 DEF Holds
<1>7. FileStep(op.file, "cooldown")
  BY <1>0, <1>1, FilesStay DEF Who
<1>8. QED
  BY <1>0, <1>3, <1>5, <1>6, <1>7, EndKeeps

\* A step from one locked state to the next that writes nothing.
LEMMA WaitKeeps ==
  ASSUME AuthTypeOK, CooldownInv, op.pc \in OpLocked, NEW pc \in OpLocked, Goto(pc),
         UNCHANGED <<cpa, by, lost, now, row, until, queue, due>>,
         \/ op.pc = "persist" /\ pc = "undo"
         \/ op.pc \in {"verify", "mark"} /\ pc \in {"mark", "redo"}
  PROVE  AuthTypeOK' /\ CooldownInv' /\ AuthEffect("cooldown")
<1>0. op.pc # "idle" /\ op \in Operation /\ op.file \in File
  BY OpFacts DEF OpLocked
<1>1. op' = [op EXCEPT !.pc = pc] /\ UNCHANGED holder
  BY DEF Goto
<1>2. op'.pc = pc /\ op'.file = op.file /\ op'.cred = op.cred /\ op'.kind = op.kind
  BY <1>0, <1>1 DEF Operation
<1>3. OpOK'
  BY <1>2 DEF CooldownInv, OpOK, Holds, Active, Target
<1>4. FileStep(op.file, "cooldown")
  BY <1>0, FilesStay DEF Who
<1>5. cpa'[op.file].disabled => pc \in {"persist", "undo"}
  BY DEF CooldownInv, OpOK
<1>6. QED
  BY <1>0, <1>1, <1>3, <1>4, <1>5, GotoKeeps

LEMMA UndoKeeps ==
  ASSUME AuthTypeOK, CooldownInv, Undo
  PROVE  AuthTypeOK' /\ CooldownInv' /\ AuthEffect("cooldown")
<1>0. /\ op.pc = "undo" /\ op.pc \in OpLocked /\ End /\ UNCHANGED <<now, row, until, queue, due>>
      /\ Holds(op.file, op.cred)
  BY DEF Undo, OpLocked, CooldownInv, OpOK
<1>1. CASE Switch(op.file, FALSE, "cooldown")
  BY <1>0, <1>1, SwitchedEnd
<1>2. CASE lost' = lost \cup {op.file} /\ UNCHANGED <<cpa, by>>
  BY <1>0, <1>2, GiveUpKeeps
<1>3. QED
  BY <1>1, <1>2 DEF Undo

LEMMA EnableKeeps ==
  ASSUME AuthTypeOK, CooldownInv, Enable
  PROVE  AuthTypeOK' /\ CooldownInv' /\ AuthEffect("cooldown")
<1>0. /\ op.pc = "enable" /\ op.pc \in OpLocked /\ UNCHANGED <<now, row, until, queue, due>>
      /\ Holds(op.file, op.cred) /\ op.file \in File /\ op \in Operation
  BY OpFacts DEF Enable, OpLocked, CooldownInv, OpOK
<1>1. CASE Switch(op.file, FALSE, "cooldown") /\ Goto("verify")
  <2>1. FileStep(op.file, "cooldown") /\ cpa'[op.file].cred = op.cred /\ cpa'[op.file].disabled = FALSE
    BY <1>0, <1>1, FileSwitched, OpHolds
  <2>2. op' = [op EXCEPT !.pc = "verify"] /\ UNCHANGED holder /\ "verify" \in OpLocked
    BY <1>1 DEF Goto, OpLocked
  <2>3. op'.pc = "verify" /\ op'.file = op.file /\ op'.cred = op.cred /\ op'.kind = op.kind
    BY <1>0, <2>2 DEF Operation
  <2>4. OpOK'
    BY <1>0, <2>1, <2>3 DEF CooldownInv, OpOK, Holds, Active, Target
  <2>5. QED
    BY <1>0, <2>1, <2>2, <2>4, GotoKeeps
<1>2. CASE SwitchUnnoticed(op.file, FALSE, "cooldown") /\ End
  BY <1>0, <1>2, SwitchedEnd
<1>3. CASE UNCHANGED <<cpa, by, lost>> /\ End
  BY <1>0, <1>3, GiveUpKeeps
<1>4. QED
  BY <1>1, <1>2, <1>3 DEF Enable

LEMMA MarkRecoveredKeeps ==
  ASSUME AuthTypeOK, CooldownInv, MarkRecovered
  PROVE  AuthTypeOK' /\ CooldownInv' /\ AuthEffect("cooldown")
<1>0. /\ op.pc = "mark" /\ End /\ ~cpa[op.file].disabled /\ EndCooldown("recovered")
      /\ UNCHANGED <<cpa, by, lost, now, queue, due>> /\ op.file \in File
  BY OpFacts DEF MarkRecovered, CooldownInv, OpOK
<1>1. RowStep /\ row'[op.file][op.cred].status = "recovered"
  BY <1>0, Ended
<1>2. FileStep(op.file, "cooldown")
  BY <1>0, FilesStay DEF Who
<1>3. QED
  BY <1>0, <1>1, <1>2, EndKeeps

LEMMA RedoKeeps ==
  ASSUME AuthTypeOK, CooldownInv, Redo
  PROVE  AuthTypeOK' /\ CooldownInv' /\ AuthEffect("cooldown")
<1>0. /\ op.pc = "redo" /\ op.pc \in OpLocked /\ End /\ UNCHANGED <<now, row, until, queue, due>>
      /\ Holds(op.file, op.cred) /\ Active(op.file, op.cred)
  BY DEF Redo, OpLocked, CooldownInv, OpOK
<1>1. CASE Switch(op.file, TRUE, "cooldown")
  BY <1>0, <1>1, SwitchedEnd
<1>2. CASE UNCHANGED <<cpa, by, lost>>
  BY <1>0, <1>2, GiveUpKeeps
<1>3. QED
  BY <1>1, <1>2 DEF Redo

LEMMA CooldownStep ==
  ASSUME AuthTypeOK, CooldownInv, CooldownNext
  PROVE  AuthTypeOK' /\ CooldownInv' /\ AuthEffect("cooldown")
<1>1. CASE Tick
  BY <1>1, TickKeeps
<1>2. CASE \E f \in File, k \in Cred, reset \in 1 .. MaxTime : ReportExhausted(f, k, reset)
  BY <1>2, ReportKeeps
<1>3. CASE TakeCandidate \/ StartDue \/ NextDue
  BY <1>3, TakeCandidateKeeps, StartDueKeeps, NextDueKeeps
<1>4. CASE \E f \in File, k \in Cred : StartEarly(f, k)
  BY <1>4, StartEarlyKeeps
<1>5. CASE FindFails
  <2>1. op.pc = "find" /\ End /\ UNCHANGED <<cpa, by, lost, now, row, until, queue, due>>
    BY <1>5 DEF FindFails
  <2>2. QED
    BY <2>1, GiveUpKeeps
<1>6. CASE Look
  BY <1>6, FindNothingKeeps, FindWorkKeeps, ExtendKeeps, FindEnabledKeeps DEF Look
<1>7. CASE Disabling
  <2>1. CASE PersistFails
    <3>1. op.pc = "persist" /\ Goto("undo") /\ UNCHANGED <<cpa, by, lost, now, row, until, queue, due>>
      BY <2>1 DEF PersistFails
    <3>2. "persist" \in OpLocked /\ "undo" \in OpLocked
      BY DEF OpLocked
    <3>3. QED
      BY <3>1, <3>2, WaitKeeps
  <2>2. QED
    BY <1>7, <2>1, DisableKeeps, PersistKeeps, UndoKeeps DEF Disabling
<1>8. CASE Recovering
  <2>1. CASE Verify
    <3>1. op.pc = "verify" /\ Goto("mark") /\ UNCHANGED <<cpa, by, lost, now, row, until, queue, due>>
      BY <2>1 DEF Verify
    <3>2. "verify" \in OpLocked /\ "mark" \in OpLocked
      BY DEF OpLocked
    <3>3. QED
      BY <3>1, <3>2, WaitKeeps
  <2>2. CASE MarkFails
    <3>1. op.pc = "mark" /\ Goto("redo") /\ UNCHANGED <<cpa, by, lost, now, row, until, queue, due>>
      BY <2>2 DEF MarkFails
    <3>2. "redo" \in OpLocked /\ "mark" \in OpLocked
      BY DEF OpLocked
    <3>3. QED
      BY <3>1, <3>2, WaitKeeps
  <2>3. CASE VerifyFails
    <3>1. op.pc = "verify" /\ End /\ UNCHANGED <<cpa, by, lost, now, row, until, queue, due>>
      BY <2>3 DEF VerifyFails
    <3>2. QED
      BY <3>1, GiveUpKeeps
  <2>4. QED
    BY <1>8, <2>1, <2>2, <2>3, EnableKeeps, MarkRecoveredKeeps, RedoKeeps DEF Recovering
<1>9. QED
  BY <1>1, <1>2, <1>3, <1>4, <1>5, <1>6, <1>7, <1>8 DEF CooldownNext

-----------------------------------------------------------------------------
(* The account action worker and the administrator *)

Task == [pc : {"find", "disable", "mark", "undo"}, file : File, cred : Cred, id : 1 .. MaxId]
Request == [pc : {"find", "enable", "delete", "persist", "restore"},
            kind : {"enable", "delete"}, file : File, cred : Cred, was : BOOLEAN]
Candidates == [File -> [Cred -> [status : CandStatus, id : 0 .. MaxId, auto : BOOLEAN]]]

LEMMA WorkFacts ==
  ASSUME ActionsInv
  PROVE  /\ work.pc # "idle" => /\ work \in Task /\ work # NoWork /\ work.pc \in {"find"} \cup WorkLocked
                                /\ work.file \in File /\ work.cred \in Cred
         /\ work = NoWork => work.pc = "idle"
         /\ admin.pc # "idle" => /\ admin \in Request /\ admin # NoRequest
                                 /\ admin.pc \in {"find"} \cup AdminLocked
                                 /\ admin.file \in File /\ admin.cred \in Cred
         /\ admin = NoRequest => admin.pc = "idle"
         /\ cand \in Candidates
<1>1. /\ work = NoWork \/ work \in Task
      /\ admin = NoRequest \/ admin \in Request
      /\ cand \in Candidates
  BY DEF ActionsInv, ActionsTypeOK, Task, Request, Candidates
<1>2. NoWork.pc = "idle" /\ NoRequest.pc = "idle"
  BY DEF NoWork, NoRequest
<1>3. work \in Task => work.pc \in {"find", "disable", "mark", "undo"} /\ work.file \in File /\ work.cred \in Cred
  BY DEF Task
<1>4. admin \in Request => /\ admin.pc \in {"find", "enable", "delete", "persist", "restore"}
                           /\ admin.file \in File /\ admin.cred \in Cred
  BY DEF Request
<1>5. QED
  BY <1>1, <1>2, <1>3, <1>4 DEF WorkLocked, AdminLocked

\* Locks are taken and released in the name of the actor.
HolderStep(who) ==
    /\ holder' \in [File -> Who \cup {Nobody}]
    /\ \A f \in File : holder'[f] = holder[f] \/ {holder[f], holder'[f]} \subseteq {Nobody, who}

LEMMA StepEffect ==
  ASSUME AuthTypeOK, NEW g \in File, NEW who \in Who, FileStep(g, who), HolderStep(who)
  PROVE  AuthTypeOK' /\ AuthEffect(who)
BY DEF FileStep, HolderStep, AuthTypeOK, AuthEffect

\* What a step in the administrator's name leaves to the worker, and the
\* other way round.
LEMMA WorkUndisturbed ==
  ASSUME ActionsInv, UNCHANGED work, AuthEffect("admin")
  PROVE  WorkLockOK' /\ WorkOK'
<1>1. \A f \in File : /\ holder'[f] = "candidate" <=> holder[f] = "candidate"
                      /\ holder[f] = "candidate" => cpa'[f] = cpa[f] /\ by'[f] = by[f]
  BY DEF AuthEffect, Nobody
<1>2. WorkLockOK'
  BY <1>1 DEF ActionsInv, WorkLockOK
<1>3. work.pc \in WorkLocked => cpa'[work.file] = cpa[work.file] /\ by'[work.file] = by[work.file]
  BY <1>1, WorkFacts DEF ActionsInv, WorkLockOK, WorkLocked
<1>4. QED
  BY <1>2, <1>3 DEF ActionsInv, WorkOK, WorkLocked, Holds

LEMMA AdminUndisturbed ==
  ASSUME ActionsInv, UNCHANGED admin, AuthEffect("candidate")
  PROVE  AdminLockOK' /\ AdminOK'
<1>1. \A f \in File : /\ holder'[f] = "admin" <=> holder[f] = "admin"
                      /\ holder[f] = "admin" => cpa'[f] = cpa[f] /\ by'[f] = by[f]
  BY DEF AuthEffect, Nobody
<1>2. AdminLockOK'
  BY <1>1 DEF ActionsInv, AdminLockOK
<1>3. admin.pc \in AdminLocked => cpa'[admin.file] = cpa[admin.file]
  BY <1>1, WorkFacts DEF ActionsInv, AdminLockOK, AdminLocked
<1>4. QED
  BY <1>2, <1>3 DEF ActionsInv, AdminOK, AdminLocked, Holds

LEMMA WorkEnds ==
  ASSUME AuthTypeOK, ActionsInv, work.pc # "idle", EndWork
  PROVE  /\ work' = NoWork /\ work'.pc = "idle" /\ HolderStep("candidate") /\ WorkLockOK' /\ WorkOK'
         /\ work.pc \in WorkLocked => holder[work.file] = "candidate"
<1>0. work.file \in File /\ work.pc \in {"find"} \cup WorkLocked
  BY WorkFacts
<1>1. work' = NoWork /\ work'.pc = "idle"
  BY DEF EndWork, NoWork
<1>2. holder \in [File -> Who \cup {Nobody}]
  BY DEF AuthTypeOK
<1>3. \/ work.pc = "find" /\ holder' = holder
      \/ work.pc \in WorkLocked /\ holder' = [holder EXCEPT ![work.file] = Nobody]
  BY <1>0 DEF EndWork, Drop, WorkLocked
<1>4. \A f \in File : holder[f] = "candidate" <=> work.file = f /\ work.pc \in WorkLocked
  BY DEF ActionsInv, WorkLockOK
<1>5. HolderStep("candidate")
  BY <1>0, <1>2, <1>3, <1>4 DEF HolderStep
<1>6. \A f \in File : holder'[f] # "candidate"
  <2>1. CASE work.pc = "find" /\ holder' = holder
    BY <1>4, <2>1 DEF WorkLocked
  <2>2. CASE work.pc \in WorkLocked /\ holder' = [holder EXCEPT ![work.file] = Nobody]
    BY <1>0, <1>2, <1>4, <2>2 DEF Nobody
  <2>3. QED
    BY <1>3, <2>1, <2>2
<1>7. WorkLockOK' /\ WorkOK'
  BY <1>1, <1>6 DEF WorkLockOK, WorkOK, WorkLocked
<1>8. QED
  BY <1>0, <1>1, <1>4, <1>5, <1>7

LEMMA WorkGoes ==
  ASSUME AuthTypeOK, ActionsInv, work.pc # "idle", NEW pc \in WorkLocked, work' = [work EXCEPT !.pc = pc],
         \/ work.pc \in WorkLocked /\ UNCHANGED holder
         \/ holder[work.file] = Nobody /\ Take(work.file, "candidate")
  PROVE  /\ HolderStep("candidate") /\ WorkLockOK' /\ work' \in Task
         /\ work'.pc = pc /\ work'.file = work.file /\ work'.cred = work.cred /\ work'.id = work.id
         /\ work.pc \in WorkLocked => holder[work.file] = "candidate"
<1>0. work.file \in File /\ work.pc \in {"find"} \cup WorkLocked /\ work \in Task
  BY WorkFacts
<1>1. /\ work' \in Task /\ work'.pc = pc /\ work'.file = work.file /\ work'.cred = work.cred
      /\ work'.id = work.id
  <2>1. pc \in {"find", "disable", "mark", "undo"}
    BY DEF WorkLocked
  <2>2. QED
    BY <1>0, <2>1, Zenon DEF Task
<1>2. holder \in [File -> Who \cup {Nobody}]
  BY DEF AuthTypeOK
<1>3. \/ work.pc \in WorkLocked /\ holder' = holder
      \/ holder[work.file] = Nobody /\ holder' = [holder EXCEPT ![work.file] = "candidate"]
  BY DEF Take
<1>4. \A f \in File : holder[f] = "candidate" <=> work.file = f /\ work.pc \in WorkLocked
  BY DEF ActionsInv, WorkLockOK
<1>5. HolderStep("candidate")
  BY <1>0, <1>2, <1>3 DEF HolderStep, Who
<1>6. \A f \in File : holder'[f] = "candidate" <=> work.file = f
  BY <1>0, <1>2, <1>3, <1>4 DEF Nobody
<1>7. WorkLockOK'
  BY <1>1, <1>6 DEF WorkLockOK
<1>8. QED
  BY <1>0, <1>1, <1>4, <1>5, <1>7

LEMMA RequestEnds ==
  ASSUME AuthTypeOK, ActionsInv, admin.pc # "idle", EndRequest
  PROVE  /\ admin' = NoRequest /\ HolderStep("admin") /\ AdminLockOK' /\ AdminOK'
         /\ admin.pc \in AdminLocked => holder[admin.file] = "admin"
<1>0. admin.file \in File /\ admin.pc \in {"find"} \cup AdminLocked
  BY WorkFacts
<1>1. admin' = NoRequest /\ admin'.pc = "idle"
  BY DEF EndRequest, NoRequest
<1>2. holder \in [File -> Who \cup {Nobody}]
  BY DEF AuthTypeOK
<1>3. \/ admin.pc = "find" /\ holder' = holder
      \/ admin.pc \in AdminLocked /\ holder' = [holder EXCEPT ![admin.file] = Nobody]
  BY <1>0 DEF EndRequest, Drop, AdminLocked
<1>4. \A f \in File : holder[f] = "admin" <=> admin.file = f /\ admin.pc \in AdminLocked
  BY DEF ActionsInv, AdminLockOK
<1>5. HolderStep("admin")
  BY <1>0, <1>2, <1>3, <1>4 DEF HolderStep
<1>6. \A f \in File : holder'[f] # "admin"
  <2>1. CASE admin.pc = "find" /\ holder' = holder
    BY <1>4, <2>1 DEF AdminLocked
  <2>2. CASE admin.pc \in AdminLocked /\ holder' = [holder EXCEPT ![admin.file] = Nobody]
    BY <1>0, <1>2, <1>4, <2>2 DEF Nobody
  <2>3. QED
    BY <1>3, <2>1, <2>2
<1>7. AdminLockOK' /\ AdminOK'
  BY <1>1, <1>6 DEF AdminLockOK, AdminOK, AdminLocked
<1>8. QED
  BY <1>0, <1>1, <1>4, <1>5, <1>7

LEMMA RequestGoes ==
  ASSUME AuthTypeOK, ActionsInv, admin.pc # "idle", admin' \in Request, admin'.pc \in AdminLocked,
         admin'.file = admin.file,
         \/ admin.pc \in AdminLocked /\ UNCHANGED holder
         \/ holder[admin.file] = Nobody /\ Take(admin.file, "admin")
  PROVE  /\ HolderStep("admin") /\ AdminLockOK'
         /\ admin.pc \in AdminLocked => holder[admin.file] = "admin"
<1>0. admin.file \in File /\ admin.pc \in {"find"} \cup AdminLocked
  BY WorkFacts
<1>2. holder \in [File -> Who \cup {Nobody}]
  BY DEF AuthTypeOK
<1>3. \/ admin.pc \in AdminLocked /\ holder' = holder
      \/ holder[admin.file] = Nobody /\ holder' = [holder EXCEPT ![admin.file] = "admin"]
  BY DEF Take
<1>4. \A f \in File : holder[f] = "admin" <=> admin.file = f /\ admin.pc \in AdminLocked
  BY DEF ActionsInv, AdminLockOK
<1>5. HolderStep("admin")
  BY <1>0, <1>2, <1>3 DEF HolderStep, Who
<1>6. \A f \in File : holder'[f] = "admin" <=> admin.file = f
  BY <1>0, <1>2, <1>3, <1>4 DEF Nobody
<1>7. AdminLockOK'
  BY <1>6 DEF AdminLockOK
<1>8. QED
  BY <1>0, <1>4, <1>5, <1>7

CandidateRow == [status : CandStatus, id : 0 .. MaxId, auto : BOOLEAN]

LEMMA CandWritten ==
  ASSUME ActionsInv, NEW f \in File, NEW k \in Cred, NEW r \in CandidateRow,
         cand' = [cand EXCEPT ![f][k] = r]
  PROVE  /\ cand' \in Candidates
         /\ \A g \in File, j \in Cred : cand'[g][j] = IF g = f /\ j = k THEN r ELSE cand[g][j]
<1>1. cand \in [File -> [Cred -> CandidateRow]]
  BY WorkFacts DEF Candidates, CandidateRow
<1>2. cand' = [cand EXCEPT ![f] = [cand[f] EXCEPT ![k] = r]]
  OBVIOUS
<1>3. [cand[f] EXCEPT ![k] = r] \in [Cred -> CandidateRow]
  BY <1>1
<1>4. cand' \in [File -> [Cred -> CandidateRow]]
  BY <1>1, <1>2, <1>3
<1>5. \A g \in File, j \in Cred : cand'[g][j] = IF g = f /\ j = k THEN r ELSE cand[g][j]
  BY <1>1, <1>2
<1>6. QED
  BY <1>4, <1>5 DEF Candidates, CandidateRow

\* The queue shows what it showed, and the file that is written is accounted
\* for.
LEMMA ListStays ==
  ASSUME ActionsInv, NEW g \in File, NEW who \in Who, FileStep(g, who), UNCHANGED <<cand, decided>>,
         work' = work \/ work.file = g,
         cpa'[g].disabled /\ by'[g] = "candidate" /\ g \notin lost' \cup decided =>
           \/ work'.file = g /\ work'.pc \in {"mark", "undo"}
           \/ \E k \in Cred : cpa'[g].cred = k /\ Pending(g, k) /\ cand[g][k].auto
  PROVE  AutoDisableIsListed' /\ IdsOK'
<1>1. AutoDisableIsListed'
  <2> SUFFICES ASSUME NEW f \in File, cpa'[f].disabled, by'[f] = "candidate", f \notin lost' \cup decided
               PROVE  \/ work'.file = f /\ work'.pc \in {"mark", "undo"}
                      \/ \E k \in Cred : cpa'[f].cred = k /\ Pending(f, k) /\ cand[f][k].auto
    BY DEF AutoDisableIsListed, Holds, Pending
  <2>1. CASE f = g
    BY <2>1
  <2>2. CASE f # g
    <3>1. cpa'[f] = cpa[f] /\ by'[f] = by[f] /\ f \notin lost
      BY <2>2 DEF FileStep
    <3>2. \/ work.file = f /\ work.pc \in {"mark", "undo"}
          \/ \E k \in Cred : Holds(f, k) /\ Pending(f, k) /\ cand[f][k].auto
      BY <3>1 DEF ActionsInv, AutoDisableIsListed
    <3>3. QED
      BY <2>2, <3>1, <3>2 DEF Holds
  <2>3. QED
    BY <2>1, <2>2
<1>2. IdsOK'
  BY DEF ActionsInv, IdsOK, Pending
<1>3. QED
  BY <1>1, <1>2

\* A step of the worker or of the request that leaves the queue alone.
LEMMA WorkStepKeeps ==
  ASSUME AuthTypeOK, ActionsInv, work.pc # "idle", UNCHANGED <<cand, admin, decided>>,
         FileStep(work.file, "candidate"), HolderStep("candidate"), WorkLockOK', WorkOK',
         work' = NoWork \/ work' \in Task,
         cpa'[work.file].disabled /\ by'[work.file] = "candidate" /\ work.file \notin lost' \cup decided =>
           \/ work'.file = work.file /\ work'.pc \in {"mark", "undo"}
           \/ \E k \in Cred : cpa'[work.file].cred = k /\ Pending(work.file, k) /\ cand[work.file][k].auto
  PROVE  AuthTypeOK' /\ ActionsInv' /\ \E who \in {"candidate", "admin"} : AuthEffect(who)
<1>0. work.file \in File
  BY WorkFacts
<1>1. AuthTypeOK' /\ AuthEffect("candidate")
  BY <1>0, StepEffect DEF Who
<1>2. AdminLockOK' /\ AdminOK'
  BY <1>1, AdminUndisturbed
<1>3. AutoDisableIsListed' /\ IdsOK'
  BY <1>0, ListStays DEF Who
<1>4. ActionsTypeOK'
  BY DEF ActionsInv, ActionsTypeOK, Task
<1>5. QED
  BY <1>1, <1>2, <1>3, <1>4 DEF ActionsInv

LEMMA RequestStepKeeps ==
  ASSUME AuthTypeOK, ActionsInv, admin.pc # "idle", UNCHANGED <<cand, work, decided>>,
         FileStep(admin.file, "admin"), HolderStep("admin"), AdminLockOK', AdminOK',
         admin' = NoRequest \/ admin' \in Request
  PROVE  AuthTypeOK' /\ ActionsInv' /\ \E who \in {"candidate", "admin"} : AuthEffect(who)
<1>0. admin.file \in File
  BY WorkFacts
<1>1. AuthTypeOK' /\ AuthEffect("admin")
  BY <1>0, StepEffect DEF Who
<1>2. WorkLockOK' /\ WorkOK'
  BY <1>1, WorkUndisturbed
<1>3. AutoDisableIsListed' /\ IdsOK'
  <2>1. cpa'[admin.file].disabled /\ by'[admin.file] = "candidate" /\ admin.file \notin lost' \cup decided =>
          \/ work'.file = admin.file /\ work'.pc \in {"mark", "undo"}
          \/ \E k \in Cred : cpa'[admin.file].cred = k /\ Pending(admin.file, k) /\ cand[admin.file][k].auto
    BY <1>0 DEF FileStep, ActionsInv, AutoDisableIsListed, Holds
  <2>2. QED
    BY <1>0, <2>1, ListStays DEF Who
<1>4. ActionsTypeOK'
  BY DEF ActionsInv, ActionsTypeOK, Request
<1>5. QED
  BY <1>1, <1>2, <1>3, <1>4 DEF ActionsInv

LEMMA ObserveKeeps ==
  ASSUME AuthTypeOK, ActionsInv, NEW f \in File, NEW k \in Cred, Observe(f, k)
  PROVE  AuthTypeOK' /\ ActionsInv' /\ \E who \in {"candidate", "admin"} : AuthEffect(who)
<1> DEFINE r == Upserted(f, k)
<1>0. /\ work = NoWork /\ work.pc = "idle" /\ r.id <= MaxId /\ cand' = [cand EXCEPT ![f][k] = r]
      /\ UNCHANGED <<cpa, holder, by, lost, admin, decided>>
  BY WorkFacts DEF Observe, authVars
<1>1. cand[f][k] \in CandidateRow
  BY WorkFacts DEF Candidates, CandidateRow
<1>2. r \in CandidateRow /\ r.id > 0 /\ (Pending(f, k) => r = cand[f][k])
  <2>1. CASE Pending(f, k)
    BY <1>1, <2>1 DEF Upserted, ActionsInv, IdsOK
  <2>2. CASE ~Pending(f, k)
    <3>1. r = [status |-> "pending", id |-> cand[f][k].id + 1, auto |-> FALSE]
      BY <2>2 DEF Upserted
    <3>2. cand[f][k].id \in Nat /\ r.id = cand[f][k].id + 1
      BY <1>1, <3>1 DEF CandidateRow
    <3>3. cand[f][k].id + 1 \in 0 .. MaxId /\ cand[f][k].id + 1 > 0
      BY <1>0, <3>2, MaxIdAssumption
    <3>4. QED
      BY <2>2, <3>1, <3>3 DEF CandidateRow, CandStatus
  <2>3. QED
    BY <2>1, <2>2
<1> HIDE DEF r
<1>3. /\ cand' \in Candidates
      /\ \A g \in File, j \in Cred : cand'[g][j] = IF g = f /\ j = k THEN r ELSE cand[g][j]
  BY <1>0, <1>2, CandWritten
<1>4. work' = NoWork \/ (work' \in Task /\ work'.pc = "find")
  <2>1. work' = [pc |-> "find", file |-> f, cred |-> k, id |-> r.id] \/ work' = NoWork
    BY Zenon DEF Observe, r
  <2>2. r.id \in 1 .. MaxId
    BY <1>2 DEF CandidateRow
  <2>3. QED
    BY <2>1, <2>2 DEF Task
<1>5. work'.pc \notin WorkLocked
  BY <1>4 DEF NoWork, WorkLocked
<1>6. AuthTypeOK' /\ AuthEffect("candidate")
  BY <1>0 DEF AuthTypeOK, AuthEffect
<1>7. AdminLockOK' /\ AdminOK'
  BY <1>0, <1>6, AdminUndisturbed
<1>8. WorkLockOK' /\ WorkOK'
  BY <1>0, <1>5 DEF ActionsInv, WorkLockOK, WorkOK, WorkLocked
<1>9. IdsOK'
  BY <1>2, <1>3 DEF ActionsInv, IdsOK, Pending
<1>10. AutoDisableIsListed'
  <2> SUFFICES ASSUME NEW g \in File, cpa[g].disabled, by[g] = "candidate", g \notin lost \cup decided
               PROVE  \E j \in Cred : Holds(g, j) /\ cand'[g][j].status = "pending" /\ cand'[g][j].auto
    BY <1>0 DEF AutoDisableIsListed, Holds, Pending
  <2>1. PICK j \in Cred : Holds(g, j) /\ Pending(g, j) /\ cand[g][j].auto
    BY <1>0 DEF ActionsInv, AutoDisableIsListed
  <2>2. cand'[g][j] = cand[g][j]
    BY <1>2, <1>3, <2>1
  <2>3. QED
    BY <2>1, <2>2 DEF Pending
<1>11. ActionsTypeOK'
  BY <1>0, <1>3, <1>4 DEF ActionsInv, ActionsTypeOK, Task, Candidates
<1>12. QED
  BY <1>6, <1>7, <1>8, <1>9, <1>10, <1>11 DEF ActionsInv

\* The worker ends without having changed the queue.
LEMMA WorkEndKeeps ==
  ASSUME AuthTypeOK, ActionsInv, work.pc # "idle", EndWork, UNCHANGED <<cand, admin, decided>>,
         FileStep(work.file, "candidate"),
         cpa'[work.file].disabled /\ by'[work.file] = "candidate" /\ work.file \notin lost' \cup decided =>
           \E k \in Cred : cpa'[work.file].cred = k /\ Pending(work.file, k) /\ cand[work.file][k].auto
  PROVE  AuthTypeOK' /\ ActionsInv' /\ \E who \in {"candidate", "admin"} : AuthEffect(who)
<1>1. work' = NoWork /\ HolderStep("candidate") /\ WorkLockOK' /\ WorkOK'
  BY WorkEnds
<1>2. QED
  BY <1>1, WorkStepKeeps

LEMMA WorkFindKeeps ==
  ASSUME AuthTypeOK, ActionsInv, WorkFinds \/ WorkFindsNothing
  PROVE  AuthTypeOK' /\ ActionsInv' /\ \E who \in {"candidate", "admin"} : AuthEffect(who)
<1>0. /\ work.pc = "find" /\ holder[work.file] = Nobody /\ work.file \in File /\ work \in Task
      /\ UNCHANGED <<cpa, by, lost, cand, admin, decided>>
  BY WorkFacts DEF WorkFinds, WorkFindsNothing
<1>1. FileStep(work.file, "candidate")
  BY <1>0, FilesStay DEF Who
<1>2. cpa'[work.file].disabled /\ by'[work.file] = "candidate" /\ work.file \notin lost' \cup decided =>
        \E k \in Cred : cpa'[work.file].cred = k /\ Pending(work.file, k) /\ cand[work.file][k].auto
  BY <1>0 DEF ActionsInv, AutoDisableIsListed, Holds
<1>3. CASE WorkFinds
  <2>1. /\ Holds(work.file, work.cred) /\ ~cpa[work.file].disabled
        /\ Take(work.file, "candidate") /\ work' = [work EXCEPT !.pc = "disable"] /\ "disable" \in WorkLocked
    BY <1>3 DEF WorkFinds, WorkLocked
  <2>2. /\ HolderStep("candidate") /\ WorkLockOK' /\ work' \in Task
        /\ work'.pc = "disable" /\ work'.file = work.file /\ work'.cred = work.cred
    BY <1>0, <2>1, WorkGoes
  <2>3. WorkOK'
    BY <1>0, <2>1, <2>2 DEF WorkOK, Holds
  <2>4. QED
    BY <1>0, <1>1, <1>2, <2>2, <2>3, WorkStepKeeps
<1>4. CASE WorkFindsNothing
  BY <1>0, <1>1, <1>2, <1>4, WorkEndKeeps DEF WorkFindsNothing
<1>5. QED
  BY <1>3, <1>4

LEMMA AutoDisableKeeps ==
  ASSUME AuthTypeOK, ActionsInv, AutoDisable
  PROVE  AuthTypeOK' /\ ActionsInv' /\ \E who \in {"candidate", "admin"} : AuthEffect(who)
<1>0. /\ work.pc = "disable" /\ work.file \in File /\ work.cred \in Cred /\ work \in Task
      /\ Holds(work.file, work.cred) /\ ~cpa[work.file].disabled /\ "disable" \in WorkLocked
      /\ UNCHANGED <<cand, admin, decided>>
  BY WorkFacts DEF AutoDisable, WorkLocked, ActionsInv, WorkOK
<1>1. holder[work.file] = "candidate"
  BY <1>0 DEF ActionsInv, WorkLockOK
<1>2. CASE Switch(work.file, TRUE, "candidate") /\ work' = [work EXCEPT !.pc = "mark"] /\ UNCHANGED holder
  <2>1. /\ FileStep(work.file, "candidate") /\ cpa'[work.file].cred = work.cred
        /\ cpa'[work.file].disabled = TRUE /\ by'[work.file] = "candidate"
    BY <1>0, <1>1, <1>2, FileSwitched DEF Who
  <2>2. /\ HolderStep("candidate") /\ WorkLockOK' /\ work' \in Task
        /\ work'.pc = "mark" /\ work'.file = work.file /\ work'.cred = work.cred
    <3>1. "mark" \in WorkLocked
      BY DEF WorkLocked
    <3>2. QED
      BY <1>0, <1>2, <3>1, WorkGoes
  <2>3. WorkOK'
    BY <2>1, <2>2 DEF WorkOK, Holds
  <2>4. QED
    BY <1>0, <2>1, <2>2, <2>3, WorkStepKeeps
<1>3. CASE SwitchUnnoticed(work.file, TRUE, "candidate") /\ EndWork
  <2>1. FileStep(work.file, "candidate")
    BY <1>0, <1>1, <1>3, FileSwitched DEF Who
  <2>2. work.file \in lost'
    BY <1>3 DEF SwitchUnnoticed
  <2>3. QED
    BY <1>0, <1>3, <2>1, <2>2, WorkEndKeeps
<1>4. CASE UNCHANGED <<cpa, by, lost>> /\ EndWork
  <2>1. FileStep(work.file, "candidate")
    BY <1>0, <1>4, FilesStay DEF Who
  <2>2. QED
    BY <1>0, <1>4, <2>1, WorkEndKeeps
<1>5. QED
  BY <1>2, <1>3, <1>4 DEF AutoDisable

LEMMA MarkAutoDisabledFailsKeeps ==
  ASSUME AuthTypeOK, ActionsInv, MarkAutoDisabledFails
  PROVE  AuthTypeOK' /\ ActionsInv' /\ \E who \in {"candidate", "admin"} : AuthEffect(who)
<1>0. /\ work.pc = "mark" /\ work.file \in File /\ work' = [work EXCEPT !.pc = "undo"]
      /\ "mark" \in WorkLocked /\ "undo" \in WorkLocked
      /\ UNCHANGED <<cpa, holder, by, lost, cand, admin, decided>>
  BY WorkFacts DEF MarkAutoDisabledFails, WorkLocked, authVars
<1>1. FileStep(work.file, "candidate")
  BY <1>0, FilesStay DEF Who
<1>2. /\ HolderStep("candidate") /\ WorkLockOK' /\ work' \in Task
      /\ work'.pc = "undo" /\ work'.file = work.file /\ work'.cred = work.cred
  BY <1>0, WorkGoes
<1>3. WorkOK'
  BY <1>0, <1>2 DEF ActionsInv, WorkOK, Holds
<1>4. QED
  BY <1>0, <1>1, <1>2, <1>3, WorkStepKeeps

LEMMA UndoAutoDisableKeeps ==
  ASSUME AuthTypeOK, ActionsInv, UndoAutoDisable
  PROVE  AuthTypeOK' /\ ActionsInv' /\ \E who \in {"candidate", "admin"} : AuthEffect(who)
<1>0. /\ work.pc = "undo" /\ work.file \in File /\ work.cred \in Cred /\ EndWork
      /\ Holds(work.file, work.cred) /\ UNCHANGED <<cand, admin, decided>>
  BY WorkFacts DEF UndoAutoDisable, ActionsInv, WorkOK
<1>1. holder[work.file] = "candidate"
  BY <1>0 DEF ActionsInv, WorkLockOK, WorkLocked
<1>2. CASE Switch(work.file, FALSE, "candidate")
  <2>1. FileStep(work.file, "candidate") /\ cpa'[work.file].disabled = FALSE
    BY <1>0, <1>1, <1>2, FileSwitched DEF Who
  <2>2. QED
    BY <1>0, <2>1, WorkEndKeeps
<1>3. CASE lost' = lost \cup {work.file} /\ UNCHANGED <<cpa, by>>
  <2>1. FileStep(work.file, "candidate")
    BY <1>0, <1>3, FilesStay DEF Who
  <2>2. QED
    BY <1>0, <1>3, <2>1, WorkEndKeeps
<1>4. QED
  BY <1>2, <1>3 DEF UndoAutoDisable

LEMMA MarkAutoDisabledKeeps ==
  ASSUME AuthTypeOK, ActionsInv, MarkAutoDisabled
  PROVE  AuthTypeOK' /\ ActionsInv' /\ \E who \in {"candidate", "admin"} : AuthEffect(who)
<1> DEFINE r == [cand[work.file][work.cred] EXCEPT !.auto = TRUE]
<1>0. /\ work.pc = "mark" /\ work.file \in File /\ work.cred \in Cred /\ EndWork
      /\ Holds(work.file, work.cred) /\ UNCHANGED <<cpa, by, lost, admin>>
      /\ Markable(cand[work.file][work.cred]) /\ decided' = decided \ {work.file}
      /\ cand' = [cand EXCEPT ![work.file][work.cred] = r]
  BY WorkFacts DEF MarkAutoDisabled, ActionsInv, WorkOK
<1>1. cand[work.file][work.cred] \in CandidateRow
  BY <1>0, WorkFacts DEF Candidates, CandidateRow
<1>2. /\ r \in CandidateRow /\ r.auto = TRUE /\ r.status = cand[work.file][work.cred].status
      /\ r.id = cand[work.file][work.cred].id
  BY <1>1, Zenon DEF CandidateRow
<1>3. r.status = "pending"
  BY <1>0, <1>2 DEF Markable
<1> HIDE DEF r
<1>4. /\ cand' \in Candidates
      /\ \A g \in File, j \in Cred : cand'[g][j] = IF g = work.file /\ j = work.cred THEN r ELSE cand[g][j]
  BY <1>0, <1>2, CandWritten
<1>5. /\ work' = NoWork /\ work'.pc = "idle" /\ HolderStep("candidate") /\ WorkLockOK' /\ WorkOK'
  BY <1>0, WorkEnds
<1>6. FileStep(work.file, "candidate")
  BY <1>0, FilesStay DEF Who
<1>7. AuthTypeOK' /\ AuthEffect("candidate")
  BY <1>0, <1>5, <1>6, StepEffect DEF Who
<1>8. AdminLockOK' /\ AdminOK'
  BY <1>0, <1>7, AdminUndisturbed
<1>9. IdsOK'
  <2>1. \A g \in File, j \in Cred : cand'[g][j].id = cand[g][j].id
    BY <1>2, <1>4
  <2>2. \A g \in File, j \in Cred : Pending(g, j)' => Pending(g, j)
    BY <1>0, <1>4 DEF Pending, Markable
  <2>3. QED
    BY <2>1, <2>2 DEF ActionsInv, IdsOK
<1>10. AutoDisableIsListed'
  <2> SUFFICES ASSUME NEW g \in File, cpa[g].disabled, by[g] = "candidate", g \notin lost \cup decided'
               PROVE  \E j \in Cred : Holds(g, j) /\ cand'[g][j].status = "pending" /\ cand'[g][j].auto
    BY <1>0 DEF AutoDisableIsListed, Holds, Pending
  <2>1. CASE g = work.file
    <3>1. cand'[g][work.cred].status = "pending" /\ cand'[g][work.cred].auto
      BY <1>0, <1>2, <1>3, <1>4, <2>1
    <3>2. QED
      BY <1>0, <2>1, <3>1
  <2>2. CASE g # work.file
    <3>1. g \notin lost \cup decided
      BY <1>0, <2>2
    <3>2. PICK j \in Cred : Holds(g, j) /\ Pending(g, j) /\ cand[g][j].auto
      BY <2>2, <3>1 DEF ActionsInv, AutoDisableIsListed
    <3>3. QED
      BY <1>4, <2>2, <3>2 DEF Pending
  <2>3. QED
    BY <2>1, <2>2
<1>11. ActionsTypeOK'
  BY <1>0, <1>4, <1>5 DEF ActionsInv, ActionsTypeOK, Candidates
<1>12. QED
  BY <1>5, <1>7, <1>8, <1>9, <1>10, <1>11 DEF ActionsInv

\* A decision closes the candidate; the file is no longer accounted for.
LEMMA DecisionKeeps ==
  ASSUME ActionsInv, NEW f \in File, NEW k \in Cred, Decision(f, k), UNCHANGED <<cpa, by, lost, work>>
  PROVE  cand' \in Candidates /\ decided' \subseteq File /\ IdsOK' /\ AutoDisableIsListed'
<1> DEFINE r == [cand[f][k] EXCEPT !.status = "closed"]
<1>0. cand' = [cand EXCEPT ![f][k] = r] /\ decided' = decided \cup {f}
  BY DEF Decision
<1>1. cand[f][k] \in CandidateRow
  BY WorkFacts DEF Candidates, CandidateRow
<1>2. "closed" \in CandStatus
  BY DEF CandStatus
<1>3. r \in CandidateRow /\ r.status = "closed"
  BY <1>1, <1>2, Zenon DEF CandidateRow
<1> HIDE DEF r
<1>4. /\ cand' \in Candidates
      /\ \A g \in File, j \in Cred : cand'[g][j] = IF g = f /\ j = k THEN r ELSE cand[g][j]
  <2>1. cand' = [cand EXCEPT ![f][k] = r] /\ r \in CandidateRow
    BY <1>0, <1>3
  <2>2. QED
    BY <2>1, CandWritten, Zenon
<1>5. IdsOK'
  BY <1>3, <1>4 DEF ActionsInv, IdsOK, Pending
<1>6. AutoDisableIsListed'
  <2> SUFFICES ASSUME NEW g \in File, cpa[g].disabled, by[g] = "candidate", g \notin lost \cup decided'
               PROVE  \/ work.file = g /\ work.pc \in {"mark", "undo"}
                      \/ \E j \in Cred : Holds(g, j) /\ cand'[g][j].status = "pending" /\ cand'[g][j].auto
    BY DEF AutoDisableIsListed, Holds, Pending
  <2>1. g # f /\ g \notin lost \cup decided
    BY <1>0
  <2>2. \/ work.file = g /\ work.pc \in {"mark", "undo"}
        \/ \E j \in Cred : Holds(g, j) /\ Pending(g, j) /\ cand[g][j].auto
    BY <2>1 DEF ActionsInv, AutoDisableIsListed
  <2>3. QED
    BY <1>4, <2>1, <2>2 DEF Pending
<1>7. QED
  BY <1>0, <1>4, <1>5, <1>6 DEF ActionsInv, ActionsTypeOK

LEMMA DecideKeeps ==
  ASSUME AuthTypeOK, ActionsInv, NEW f \in File, NEW k \in Cred, Decide(f, k)
  PROVE  AuthTypeOK' /\ ActionsInv' /\ \E who \in {"candidate", "admin"} : AuthEffect(who)
<1>0. Decision(f, k) /\ UNCHANGED <<cpa, holder, by, lost, work, admin>>
  BY DEF Decide, authVars
<1>1. cand' \in Candidates /\ decided' \subseteq File /\ IdsOK' /\ AutoDisableIsListed'
  BY <1>0, DecisionKeeps
<1>2. AuthTypeOK' /\ AuthEffect("candidate") /\ AuthEffect("admin")
  BY <1>0 DEF AuthTypeOK, AuthEffect
<1>3. WorkLockOK' /\ WorkOK' /\ AdminLockOK' /\ AdminOK'
  BY <1>0, <1>2, WorkUndisturbed, AdminUndisturbed
<1>4. ActionsTypeOK'
  BY <1>0, <1>1 DEF ActionsInv, ActionsTypeOK, Candidates
<1>5. QED
  BY <1>1, <1>2, <1>3, <1>4 DEF ActionsInv

LEMMA StartRequestKeeps ==
  ASSUME AuthTypeOK, ActionsInv, NEW f \in File, NEW k \in Cred, NEW kind \in {"enable", "delete"},
         StartRequest(f, k, kind)
  PROVE  AuthTypeOK' /\ ActionsInv' /\ \E who \in {"candidate", "admin"} : AuthEffect(who)
<1>0. /\ admin = NoRequest /\ admin.pc = "idle" /\ UNCHANGED <<cpa, holder, by, lost, cand, work, decided>>
      /\ admin' = [pc |-> "find", kind |-> kind, file |-> f, cred |-> k, was |-> FALSE]
  BY WorkFacts DEF StartRequest, authVars
<1>1. admin' \in Request /\ admin'.pc = "find"
  BY <1>0 DEF Request
<1>2. AuthTypeOK' /\ AuthEffect("admin")
  BY <1>0 DEF AuthTypeOK, AuthEffect
<1>3. WorkLockOK' /\ WorkOK'
  BY <1>0, <1>2, WorkUndisturbed
<1>4. AdminLockOK' /\ AdminOK'
  BY <1>0, <1>1 DEF ActionsInv, AdminLockOK, AdminOK, AdminLocked
<1>5. IdsOK' /\ AutoDisableIsListed'
  BY <1>0 DEF ActionsInv, IdsOK, AutoDisableIsListed, Pending, Holds
<1>6. ActionsTypeOK'
  BY <1>0, <1>1 DEF ActionsInv, ActionsTypeOK, Request
<1>7. QED
  BY <1>2, <1>3, <1>4, <1>5, <1>6 DEF ActionsInv

\* The request ends without having changed the queue.
LEMMA RequestEndKeeps ==
  ASSUME AuthTypeOK, ActionsInv, admin.pc # "idle", EndRequest, UNCHANGED <<cand, work, decided>>,
         FileStep(admin.file, "admin")
  PROVE  AuthTypeOK' /\ ActionsInv' /\ \E who \in {"candidate", "admin"} : AuthEffect(who)
<1>1. admin' = NoRequest /\ HolderStep("admin") /\ AdminLockOK' /\ AdminOK'
  BY RequestEnds
<1>2. QED
  BY <1>1, RequestStepKeeps

LEMMA RequestFindKeeps ==
  ASSUME AuthTypeOK, ActionsInv, RequestFinds \/ RequestFindsNothing
  PROVE  AuthTypeOK' /\ ActionsInv' /\ \E who \in {"candidate", "admin"} : AuthEffect(who)
<1>0. /\ admin.pc = "find" /\ admin.file \in File /\ admin \in Request
      /\ UNCHANGED <<cpa, by, lost, cand, work, decided>>
  BY WorkFacts DEF RequestFinds, RequestFindsNothing
<1>1. FileStep(admin.file, "admin")
  BY <1>0, FilesStay DEF Who
<1>2. CASE RequestFinds
  <2>1. /\ Holds(admin.file, admin.cred) /\ holder[admin.file] = Nobody /\ Take(admin.file, "admin")
        /\ admin' = [admin EXCEPT !.pc = admin.kind, !.was = cpa[admin.file].disabled]
    BY <1>2 DEF RequestFinds
  <2>2. cpa[admin.file].disabled \in BOOLEAN
    <3>1. cpa[admin.file] \in {Absent} \cup Content
      BY <1>0 DEF AuthTypeOK
    <3>2. Absent.disabled \in BOOLEAN
      BY DEF Absent
    <3>3. \A c \in Content : c.disabled \in BOOLEAN
      BY Zenon DEF Content
    <3>4. QED
      BY <3>1, <3>2, <3>3
  <2>3. admin.kind \in {"enable", "delete"}
    BY <1>0 DEF Request
  <2>4. /\ admin' \in Request /\ admin'.pc = admin.kind /\ admin'.kind = admin.kind
        /\ admin'.file = admin.file /\ admin'.cred = admin.cred
    <3>1. admin.kind \in {"find", "enable", "delete", "persist", "restore"}
      BY <2>3
    <3>2. QED
      BY <1>0, <2>1, <2>2, <3>1, Zenon DEF Request
  <2>5. admin'.pc \in AdminLocked
    BY <2>3, <2>4 DEF AdminLocked
  <2>6. HolderStep("admin") /\ AdminLockOK'
    BY <1>0, <2>1, <2>4, <2>5, RequestGoes
  <2>7. AdminOK'
    BY <1>0, <2>1, <2>3, <2>4 DEF AdminOK, Holds
  <2>8. QED
    BY <1>0, <1>1, <2>4, <2>6, <2>7, RequestStepKeeps
<1>3. CASE RequestFindsNothing
  BY <1>0, <1>1, <1>3, RequestEndKeeps DEF RequestFindsNothing
<1>4. QED
  BY <1>2, <1>3

\* The request goes on to a locked state; what it has to know there it knows.
LEMMA RequestGoesOn ==
  ASSUME AuthTypeOK, ActionsInv, admin.pc \in AdminLocked, NEW pc \in AdminLocked,
         admin' = [admin EXCEPT !.pc = pc], UNCHANGED <<holder, cand, work, decided>>,
         FileStep(admin.file, "admin"), pc # "delete", pc \in {"enable", "restore"} => admin.kind = "enable",
         admin.kind = "enable" => cpa'[admin.file].cred = admin.cred
  PROVE  AuthTypeOK' /\ ActionsInv' /\ \E who \in {"candidate", "admin"} : AuthEffect(who)
<1>0. admin.pc # "idle" /\ admin \in Request
  BY WorkFacts DEF AdminLocked
<1>1. /\ admin' \in Request /\ admin'.pc = pc /\ admin'.kind = admin.kind
      /\ admin'.file = admin.file /\ admin'.cred = admin.cred
  <2>1. pc \in {"find", "enable", "delete", "persist", "restore"}
    BY DEF AdminLocked
  <2>2. QED
    BY <1>0, <2>1, Zenon DEF Request
<1>2. HolderStep("admin") /\ AdminLockOK'
  BY <1>0, <1>1, RequestGoes
<1>3. AdminOK'
  BY <1>1 DEF AdminOK, Holds
<1>4. QED
  BY <1>0, <1>1, <1>2, <1>3, RequestStepKeeps

LEMMA AdminEnableKeeps ==
  ASSUME AuthTypeOK, ActionsInv, AdminEnable
  PROVE  AuthTypeOK' /\ ActionsInv' /\ \E who \in {"candidate", "admin"} : AuthEffect(who)
<1>0. /\ admin.pc = "enable" /\ admin.pc \in AdminLocked /\ admin.file \in File /\ admin.cred \in Cred
      /\ Holds(admin.file, admin.cred) /\ UNCHANGED <<cand, work, decided>>
  BY WorkFacts DEF AdminEnable, AdminLocked, ActionsInv, AdminOK
<1>1. holder[admin.file] = "admin"
  BY <1>0 DEF ActionsInv, AdminLockOK
<1>2. CASE Switch(admin.file, FALSE, "admin") /\ admin' = [admin EXCEPT !.pc = "persist"] /\ UNCHANGED holder
  <2>1. FileStep(admin.file, "admin") /\ cpa'[admin.file].cred = admin.cred
    BY <1>0, <1>1, <1>2, FileSwitched DEF Who
  <2>2. "persist" \in AdminLocked
    BY DEF AdminLocked
  <2>3. QED
    BY <1>0, <1>2, <2>1, <2>2, RequestGoesOn
<1>3. CASE SwitchUnnoticed(admin.file, FALSE, "admin") /\ EndRequest
  <2>1. FileStep(admin.file, "admin")
    BY <1>0, <1>1, <1>3, FileSwitched DEF Who
  <2>2. QED
    BY <1>0, <1>3, <2>1, RequestEndKeeps
<1>4. CASE UNCHANGED <<cpa, by, lost>> /\ EndRequest
  <2>1. FileStep(admin.file, "admin")
    BY <1>0, <1>4, FilesStay DEF Who
  <2>2. QED
    BY <1>0, <1>4, <2>1, RequestEndKeeps
<1>5. QED
  BY <1>2, <1>3, <1>4 DEF AdminEnable

LEMMA AdminDeleteKeeps ==
  ASSUME AuthTypeOK, ActionsInv, AdminDelete
  PROVE  AuthTypeOK' /\ ActionsInv' /\ \E who \in {"candidate", "admin"} : AuthEffect(who)
<1>0. /\ admin.pc = "delete" /\ admin.pc \in AdminLocked /\ admin.file \in File /\ admin \in Request
      /\ UNCHANGED <<cand, work, decided>>
  BY WorkFacts DEF AdminDelete, AdminLocked
<1>1. holder[admin.file] = "admin"
  BY <1>0 DEF ActionsInv, AdminLockOK
<1>2. ASSUME Write(admin.file, Absent, "admin"), lost' = lost \ {admin.file}
      PROVE  FileStep(admin.file, "admin")
  BY <1>0, <1>1, <1>2, FileWritten DEF Who
<1>3. CASE /\ Write(admin.file, Absent, "admin") /\ lost' = lost \ {admin.file}
           /\ admin' = [admin EXCEPT !.pc = "persist"] /\ UNCHANGED holder
  <2>1. /\ admin' \in Request /\ admin'.pc = "persist" /\ admin'.kind = admin.kind
        /\ admin'.file = admin.file /\ admin'.cred = admin.cred /\ admin'.pc \in AdminLocked
    BY <1>0, <1>3, Zenon DEF Request, AdminLocked
  <2>2. HolderStep("admin") /\ AdminLockOK'
    BY <1>0, <1>3, <2>1, RequestGoes
  <2>3. admin.kind = "delete"
    BY <1>0 DEF ActionsInv, AdminOK, AdminLocked, Request
  <2>4. AdminOK'
    BY <2>1, <2>3 DEF AdminOK
  <2>5. QED
    BY <1>0, <1>2, <1>3, <2>1, <2>2, <2>4, RequestStepKeeps
<1>4. CASE Write(admin.file, Absent, "admin") /\ lost' = lost \ {admin.file} /\ EndRequest
  BY <1>0, <1>2, <1>4, RequestEndKeeps
<1>5. CASE UNCHANGED <<cpa, by, lost>> /\ EndRequest
  <2>1. FileStep(admin.file, "admin")
    BY <1>0, <1>5, FilesStay DEF Who
  <2>2. QED
    BY <1>0, <1>5, <2>1, RequestEndKeeps
<1>6. QED
  BY <1>3, <1>4, <1>5 DEF AdminDelete

LEMMA PersistDecisionKeeps ==
  ASSUME AuthTypeOK, ActionsInv, PersistDecision
  PROVE  AuthTypeOK' /\ ActionsInv' /\ \E who \in {"candidate", "admin"} : AuthEffect(who)
<1>0. /\ admin.pc = "persist" /\ admin.file \in File /\ admin.cred \in Cred
      /\ Decision(admin.file, admin.cred) /\ EndRequest /\ UNCHANGED <<cpa, by, lost, work>>
  BY WorkFacts DEF PersistDecision
<1>1. cand' \in Candidates /\ decided' \subseteq File /\ IdsOK' /\ AutoDisableIsListed'
  BY <1>0, DecisionKeeps
<1>2. admin' = NoRequest /\ HolderStep("admin") /\ AdminLockOK' /\ AdminOK'
  BY <1>0, RequestEnds
<1>3. FileStep(admin.file, "admin")
  BY <1>0, FilesStay DEF Who
<1>4. AuthTypeOK' /\ AuthEffect("admin")
  BY <1>0, <1>2, <1>3, StepEffect DEF Who
<1>5. WorkLockOK' /\ WorkOK'
  BY <1>0, <1>4, WorkUndisturbed
<1>6. ActionsTypeOK'
  BY <1>0, <1>1, <1>2 DEF ActionsInv, ActionsTypeOK, Candidates
<1>7. QED
  BY <1>1, <1>2, <1>4, <1>5, <1>6 DEF ActionsInv

LEMMA PersistDecisionFailsKeeps ==
  ASSUME AuthTypeOK, ActionsInv, PersistDecisionFails
  PROVE  AuthTypeOK' /\ ActionsInv' /\ \E who \in {"candidate", "admin"} : AuthEffect(who)
<1>0. /\ admin.pc = "persist" /\ admin.pc \in AdminLocked /\ admin.file \in File
      /\ UNCHANGED <<cpa, by, lost, cand, work, decided>>
  BY WorkFacts DEF PersistDecisionFails, AdminLocked
<1>1. FileStep(admin.file, "admin")
  BY <1>0, FilesStay DEF Who
<1>2. CASE admin.kind = "enable" /\ admin' = [admin EXCEPT !.pc = "restore"] /\ UNCHANGED holder
  <2>1. cpa'[admin.file].cred = admin.cred
    BY <1>0, <1>2 DEF ActionsInv, AdminOK, Holds
  <2>2. "restore" \in AdminLocked
    BY DEF AdminLocked
  <2>3. QED
    BY <1>0, <1>1, <1>2, <2>1, <2>2, RequestGoesOn
<1>3. CASE EndRequest
  BY <1>0, <1>1, <1>3, RequestEndKeeps
<1>4. QED
  BY <1>2, <1>3 DEF PersistDecisionFails

LEMMA RestoreDisabledKeeps ==
  ASSUME AuthTypeOK, ActionsInv, RestoreDisabled
  PROVE  AuthTypeOK' /\ ActionsInv' /\ \E who \in {"candidate", "admin"} : AuthEffect(who)
<1>0. /\ admin.pc = "restore" /\ admin.pc \in AdminLocked /\ admin.file \in File /\ admin.cred \in Cred
      /\ Holds(admin.file, admin.cred) /\ EndRequest /\ UNCHANGED <<cand, work, decided>>
  BY WorkFacts DEF RestoreDisabled, AdminLocked, ActionsInv, AdminOK
<1>1. holder[admin.file] = "admin"
  BY <1>0 DEF ActionsInv, AdminLockOK
<1>2. CASE Switch(admin.file, TRUE, "admin")
  <2>1. FileStep(admin.file, "admin")
    BY <1>0, <1>1, <1>2, FileSwitched DEF Who
  <2>2. QED
    BY <1>0, <2>1, RequestEndKeeps
<1>3. CASE UNCHANGED <<cpa, by, lost>>
  <2>1. FileStep(admin.file, "admin")
    BY <1>0, <1>3, FilesStay DEF Who
  <2>2. QED
    BY <1>0, <2>1, RequestEndKeeps
<1>4. QED
  BY <1>2, <1>3 DEF RestoreDisabled

LEMMA ActionsStep ==
  ASSUME AuthTypeOK, ActionsInv, ActionsNext
  PROVE  AuthTypeOK' /\ ActionsInv' /\ \E who \in {"candidate", "admin"} : AuthEffect(who)
<1>1. CASE \E f \in File, k \in Cred : Observe(f, k)
  BY <1>1, ObserveKeeps
<1>2. CASE Work
  BY <1>2, WorkFindKeeps, AutoDisableKeeps, MarkAutoDisabledKeeps, MarkAutoDisabledFailsKeeps,
     UndoAutoDisableKeeps DEF Work
<1>3. CASE \E f \in File, k \in Cred : Decide(f, k)
  BY <1>3, DecideKeeps
<1>4. CASE \E f \in File, k \in Cred, kind \in {"enable", "delete"} : StartRequest(f, k, kind)
  BY <1>4, StartRequestKeeps
<1>5. CASE Answer
  BY <1>5, RequestFindKeeps, AdminEnableKeeps, AdminDeleteKeeps, PersistDecisionKeeps,
     PersistDecisionFailsKeeps, RestoreDisabledKeeps DEF Answer
<1>6. QED
  BY <1>1, <1>2, <1>3, <1>4, <1>5 DEF ActionsNext

-----------------------------------------------------------------------------
(* The invariant *)

\* Whoever stops, what he held is free again; a file that he had just disabled
\* is lost, because only he knew.
LEMMA CrashKeeps ==
  ASSUME AutomationInv, Crash
  PROVE  AutomationInv'
<1>0. /\ holder' = [f \in File |-> Nobody] /\ UNCHANGED <<cpa, by>>
      /\ lost' = lost \cup {f \in File : holder[f] # Nobody /\ cpa[f].disabled}
      /\ queue' = <<>> /\ due' = {} /\ op' = NoOp /\ UNCHANGED <<now, row, until>>
      /\ work' = NoWork /\ admin' = NoRequest /\ UNCHANGED <<cand, decided>>
  BY DEF Crash, StopHolders, StopCooldowns, StopActions
<1>1. AuthTypeOK /\ CooldownInv /\ ActionsInv
  BY DEF AutomationInv
<1>2. /\ op'.pc = "idle" /\ op'.kind = "none" /\ work'.pc = "idle" /\ admin'.pc = "idle"
      /\ \A f \in File : holder'[f] = Nobody
  BY <1>0 DEF NoOp, NoWork, NoRequest
<1>3. AuthTypeOK'
  BY <1>0, <1>1 DEF AuthTypeOK
<1>4. CooldownTypeOK'
  <2>1. <<>> \in Seq([file : File, cred : Cred, reset : 1 .. MaxTime])
    OBVIOUS
  <2>2. QED
    BY <1>0, <1>1, <2>1 DEF CooldownInv, CooldownTypeOK
<1>5. OpLockOK' /\ OpOK' /\ DueOK' /\ UntilOK'
  BY <1>0, <1>1, <1>2 DEF CooldownInv, OpLockOK, OpOK, DueOK, UntilOK, OpLocked, Active, Nobody
<1>6. DisabledIsOwned'
  <2> SUFFICES ASSUME NEW f \in File, cpa[f].disabled, by[f] = "cooldown", f \notin lost'
               PROVE  CoolingDown(f)
    BY <1>0 DEF DisabledIsOwned, CoolingDown, Holds, Active
  <2>1. f \notin lost /\ holder[f] = Nobody
    BY <1>0
  <2>2. CoolingDown(f) \/ (op.file = f /\ op.pc \in {"persist", "undo"})
    BY <1>1, <2>1 DEF CooldownInv, DisabledIsOwned
  <2>3. QED
    BY <1>1, <2>1, <2>2 DEF CooldownInv, OpLockOK, OpLocked, Nobody
<1>7. ActionsTypeOK' /\ WorkLockOK' /\ AdminLockOK' /\ WorkOK' /\ AdminOK' /\ IdsOK'
  BY <1>0, <1>1, <1>2 DEF ActionsInv, ActionsTypeOK, WorkLockOK, AdminLockOK, WorkOK, AdminOK, IdsOK,
     Pending, WorkLocked, AdminLocked, Nobody
<1>8. AutoDisableIsListed'
  <2> SUFFICES ASSUME NEW f \in File, cpa[f].disabled, by[f] = "candidate", f \notin lost' \cup decided
               PROVE  \E k \in Cred : Holds(f, k) /\ Pending(f, k) /\ cand[f][k].auto
    BY <1>0 DEF AutoDisableIsListed, Holds, Pending
  <2>1. f \notin lost /\ holder[f] = Nobody
    BY <1>0
  <2>2. \/ work.file = f /\ work.pc \in {"mark", "undo"}
        \/ \E k \in Cred : Holds(f, k) /\ Pending(f, k) /\ cand[f][k].auto
    BY <1>1, <2>1 DEF ActionsInv, AutoDisableIsListed
  <2>3. QED
    BY <1>1, <2>1, <2>2 DEF ActionsInv, WorkLockOK, WorkLocked, Nobody
<1>9. QED
  BY <1>3, <1>4, <1>5, <1>6, <1>7, <1>8 DEF AutomationInv, CooldownInv, ActionsInv

LEMMA AutomationInit ==
  ASSUME Init
  PROVE  AutomationInv
<1>1. /\ cpa \in [File -> {Absent} \cup Content] /\ holder = [f \in File |-> Nobody]
      /\ by = [f \in File |-> "user"] /\ lost = {}
  BY DEF Init, AuthInit
<1>2. /\ now = 0 /\ queue = <<>> /\ row = [f \in File |-> [k \in Cred |-> NoRow]] /\ due = {}
      /\ op = NoOp /\ until = [f \in File |-> [k \in Cred |-> 0]]
  BY DEF Init, CooldownInit
<1>3. cand = [f \in File |-> [k \in Cred |-> NoCand]] /\ work = NoWork /\ admin = NoRequest /\ decided = {}
  BY DEF Init, ActionsInit
<1>4. AuthTypeOK
  BY <1>1 DEF AuthTypeOK, Who
<1>5. CooldownTypeOK
  <2>1. 0 \in 0 .. MaxTime
    BY CooldownAssumption
  <2>2. NoRow \in [status : RowStatus, recover : 0 .. MaxTime]
    BY <2>1 DEF NoRow, RowStatus
  <2>3. <<>> \in Seq([file : File, cred : Cred, reset : 1 .. MaxTime])
    OBVIOUS
  <2>4. QED
    BY <1>2, <2>1, <2>2, <2>3 DEF CooldownTypeOK
<1>6. OpLockOK /\ OpOK /\ DueOK
  BY <1>1, <1>2 DEF OpLockOK, OpOK, DueOK, OpLocked, NoOp, Nobody
<1>7. UntilOK
  BY <1>2 DEF UntilOK, Active, NoRow
<1>8. DisabledIsOwned /\ AutoDisableIsListed
  BY <1>1 DEF DisabledIsOwned, AutoDisableIsListed
<1>9. ActionsTypeOK
  <2>1. 0 \in 0 .. MaxId
    BY MaxIdAssumption
  <2>2. NoCand \in [status : CandStatus, id : 0 .. MaxId, auto : BOOLEAN]
    BY <2>1 DEF NoCand, CandStatus
  <2>3. QED
    BY <1>3, <2>2 DEF ActionsTypeOK
<1>10. WorkLockOK /\ AdminLockOK /\ WorkOK /\ AdminOK
  BY <1>1, <1>3 DEF WorkLockOK, AdminLockOK, WorkOK, AdminOK, WorkLocked, AdminLocked, NoWork, NoRequest, Nobody
<1>11. IdsOK
  BY <1>3 DEF IdsOK, Pending, NoCand
<1>12. QED
  BY <1>4, <1>5, <1>6, <1>7, <1>8, <1>9, <1>10, <1>11 DEF AutomationInv, CooldownInv, ActionsInv

LEMMA AutomationStep ==
  ASSUME AutomationInv, [Next]_vars
  PROVE  AutomationInv'
<1>1. CASE Cooldowns
  <2>1. AuthTypeOK' /\ CooldownInv' /\ AuthEffect("cooldown") /\ UNCHANGED actionVars
    BY <1>1, CooldownStep DEF Cooldowns, AutomationInv
  <2>2. ActionsInv'
    BY <2>1, ActionsUndisturbed DEF AutomationInv
  <2>3. QED
    BY <2>1, <2>2 DEF AutomationInv
<1>2. CASE Actions
  <2>1. AuthTypeOK' /\ ActionsInv' /\ UNCHANGED cooldownVars
    BY <1>2, ActionsStep DEF Actions, AutomationInv
  <2>2. PICK who \in {"candidate", "admin"} : AuthEffect(who)
    BY <1>2, ActionsStep DEF Actions, AutomationInv
  <2>3. CooldownInv'
    BY <2>1, <2>2, CooldownsUndisturbed DEF AutomationInv
  <2>4. QED
    BY <2>1, <2>3 DEF AutomationInv
<1>3. CASE Users
  <2>1. AuthTypeOK' /\ AuthEffect("user") /\ UNCHANGED cooldownVars /\ UNCHANGED actionVars
    BY <1>3, UserEffect DEF Users, AutomationInv
  <2>2. CooldownInv' /\ ActionsInv'
    BY <2>1, CooldownsUndisturbed, ActionsUndisturbed DEF AutomationInv
  <2>3. QED
    BY <2>1, <2>2 DEF AutomationInv
<1>4. CASE Crash
  BY <1>4, CrashKeeps
<1>5. CASE UNCHANGED vars
  <2>1. UNCHANGED <<cpa, holder, by, lost>> /\ UNCHANGED cooldownVars /\ UNCHANGED actionVars
    BY <1>5 DEF vars, authVars
  <2>2. AuthTypeOK' /\ AuthEffect("user")
    BY <2>1 DEF AutomationInv, AuthTypeOK, AuthEffect
  <2>3. CooldownInv' /\ ActionsInv'
    BY <2>1, <2>2, CooldownsUndisturbed, ActionsUndisturbed DEF AutomationInv
  <2>4. QED
    BY <2>2, <2>3 DEF AutomationInv
<1>6. QED
  BY <1>1, <1>2, <1>3, <1>4, <1>5 DEF Next

\* However the workers, the administrator, users and crashes interleave, the
\* locks, what their holders know and both tables fit together.
THEOREM AutomationInvHolds == Spec => []AutomationInv
<1>1. Init => AutomationInv
  BY AutomationInit
<1>2. AutomationInv /\ [Next]_vars => AutomationInv'
  BY AutomationStep
<1>3. QED
  BY <1>1, <1>2, PTL DEF Spec

\* What the account action worker has disabled stays in the queue, marked,
\* until somebody decides about it.
THEOREM QueueIsComplete == Spec => []ListedConsistently
<1>1. AutomationInv => ListedConsistently
  BY DEF AutomationInv, CooldownInv, ActionsInv, ListedConsistently, TypeOK
<1>2. QED
  BY <1>1, AutomationInvHolds, PTL

\* What the cooldown worker has disabled, it will enable again: there is a
\* cooldown, or an operation that is about to write or undo it.
THEOREM DisablesAreOwned == Spec => []DisabledIsOwned
<1>1. AutomationInv => DisabledIsOwned
  BY DEF AutomationInv, CooldownInv
<1>2. QED
  BY <1>1, AutomationInvHolds, PTL

\* The pass over due cooldowns enables nothing before its time.
THEOREM NothingIsEnabledEarly == Spec => NeverEarly
<1>1. ASSUME AutomationInv, op.kind = "due", op.pc = "enable"
      PROVE  until[op.file][op.cred] <= now
  <2>1. /\ op.file \in File /\ op.cred \in Cred /\ CooldownTypeOK
        /\ Active(op.file, op.cred) /\ Target.recover <= now
    BY <1>1, OpFacts DEF AutomationInv, CooldownInv, OpOK
  <2>2. until[op.file][op.cred] <= Target.recover
    BY <1>1, <2>1 DEF AutomationInv, CooldownInv, UntilOK, Target
  <2>3. until[op.file][op.cred] \in Int /\ Target.recover \in Int /\ now \in Int
    BY <2>1, CooldownAssumption DEF CooldownTypeOK, Target
  <2>4. QED
    BY <2>1, <2>2, <2>3
<1>2. AutomationInv => (op.kind = "due" /\ op.pc = "enable" => until[op.file][op.cred] <= now)
  BY <1>1
<1>3. AutomationInv /\ [Next]_vars =>
        [/\ op.kind = "due" /\ op.pc = "enable"
         /\ cpa[op.file].disabled /\ cpa'[op.file] = [cpa[op.file] EXCEPT !.disabled = FALSE]
         => until[op.file][op.cred] <= now]_vars
  BY <1>2
<1>4. QED
  BY <1>3, AutomationInvHolds, PTL DEF Spec, NeverEarly

-----------------------------------------------------------------------------
(* Others are respected *)

\* What the cooldown worker may write to: a credential that is enabled, that it
\* has disabled itself, or that is cooling down.
Own(f) == ~cpa[f].disabled \/ by[f] = "cooldown" \/ CoolingDown(f)

LeftAlone(f) ==
    /\ cpa'[f] = cpa[f] /\ by'[f] = by[f]
    /\ \A k \in Cred : row'[f][k].status = "active" => Active(f, k)

\* A step that writes the row of its operation only.
LEMMA RowsLeft ==
  ASSUME CooldownInv, op.pc # "idle", UNCHANGED <<cpa, by>>, RowStep,
         row'[op.file][op.cred].status = "active" => Own(op.file) \/ Active(op.file, op.cred)
  PROVE  \A f \in File : Own(f) \/ LeftAlone(f)
<1> SUFFICES ASSUME NEW f \in File, ~Own(f)
             PROVE  \A k \in Cred : row'[f][k].status = "active" => Active(f, k)
  BY DEF LeftAlone
<1>1. op.file \in File /\ op.cred \in Cred
  BY OpFacts
<1> SUFFICES ASSUME NEW k \in Cred, row'[f][k].status = "active" PROVE Active(f, k)
  OBVIOUS
<1>2. CASE f = op.file /\ k = op.cred
  BY <1>1, <1>2
<1>3. CASE ~(f = op.file /\ k = op.cred)
  BY <1>3 DEF RowStep, Active
<1>4. QED
  BY <1>2, <1>3

\* A step that writes the file of its operation only.
LEMMA FilesLeft ==
  ASSUME UNCHANGED row, FileStep(op.file, "cooldown"), Own(op.file)
  PROVE  \A f \in File : Own(f) \/ LeftAlone(f)
<1> SUFFICES ASSUME NEW f \in File, f # op.file
             PROVE  LeftAlone(f)
  OBVIOUS
<1>1. QED
  BY DEF FileStep, LeftAlone, Active

LEMMA NothingWritten ==
  ASSUME UNCHANGED <<cpa, by, row>>
  PROVE  \A f \in File : Own(f) \/ LeftAlone(f)
BY DEF LeftAlone, Active

\* The cooldown worker writes to what it owns, and starts no cooldown elsewhere.
LEMMA CooldownLeavesAlone ==
  ASSUME AuthTypeOK, CooldownInv, CooldownNext
  PROVE  \A f \in File : Own(f) \/ LeftAlone(f)
<1>1. CASE \/ Tick \/ TakeCandidate \/ StartDue \/ NextDue \/ FindFails \/ FindWork
           \/ PersistFails \/ Verify \/ VerifyFails \/ MarkFails
           \/ \E f \in File, k \in Cred, reset \in 1 .. MaxTime : ReportExhausted(f, k, reset)
           \/ \E f \in File, k \in Cred : StartEarly(f, k)
  <2>1. UNCHANGED <<cpa, by, row>>
    BY <1>1 DEF Tick, TakeCandidate, StartDue, NextDue, FindFails, FindWork, PersistFails, Verify,
       VerifyFails, MarkFails, ReportExhausted, StartEarly, authVars
  <2>2. QED
    BY <2>1, NothingWritten
<1>2. ASSUME op.pc # "idle", NEW status \in {"recovered", "skipped"}, EndCooldown(status), UNCHANGED <<cpa, by>>
      PROVE  \A f \in File : Own(f) \/ LeftAlone(f)
  <2>1. RowStep /\ row'[op.file][op.cred].status # "active"
    BY <1>2, Ended
  <2>2. QED
    BY <1>2, <2>1, RowsLeft
<1>3. CASE FindNothing
  <2>1. op.pc = "find" /\ UNCHANGED <<cpa, by>>
    BY <1>3 DEF FindNothing, Found
  <2>2. UNCHANGED row \/ EndCooldown("skipped")
    BY <1>3 DEF FindNothing
  <2>3. QED
    BY <1>2, <2>1, <2>2, NothingWritten
<1>4. CASE FindEnabled \/ MarkRecovered
  <2>1. op.pc # "idle" /\ EndCooldown("recovered") /\ UNCHANGED <<cpa, by>>
    BY <1>4 DEF FindEnabled, MarkRecovered, Found
  <2>2. QED
    BY <1>2, <2>1
<1>5. CASE ExtendCooldown
  <2>1. op.pc = "find" /\ UNCHANGED <<cpa, by>>
    BY <1>5 DEF ExtendCooldown, Found
  <2>2. UNCHANGED row \/ (Active(op.file, op.cred) /\ SetRow([Target EXCEPT !.recover = Extended]))
    BY <1>5 DEF ExtendCooldown
  <2>3. ASSUME Active(op.file, op.cred), SetRow([Target EXCEPT !.recover = Extended])
        PROVE  \A f \in File : LeftAlone(f)
    <3>1. /\ row \in [File -> [Cred -> [status : RowStatus, recover : 0 .. MaxTime]]]
          /\ op.file \in File /\ op.cred \in Cred
      BY <2>1, OpFacts DEF CooldownInv, CooldownTypeOK
    <3>2. \A f \in File, k \in Cred : f # op.file \/ k # op.cred => row'[f][k] = row[f][k]
      BY <2>3, <3>1 DEF SetRow
    <3>3. \A f \in File, k \in Cred : row'[f][k].status = "active" => Active(f, k)
      BY <2>3, <3>2 DEF Active
    <3>4. QED
      BY <2>1, <3>3 DEF LeftAlone
  <2>4. QED
    BY <2>1, <2>2, <2>3, NothingWritten
<1>6. CASE Persist
  <2>1. /\ op.pc = "persist" /\ SetRow([status |-> "active", recover |-> op.reset]) /\ SetUntil(op.reset)
        /\ UNCHANGED <<cpa, by>>
    BY <1>6 DEF Persist
  <2>2. op.reset \in 0 .. MaxTime /\ by[op.file] = "cooldown"
    BY <2>1, OpFacts DEF CooldownInv, OpOK
  <2>3. [status |-> "active", recover |-> op.reset] \in [status : RowStatus, recover : 0 .. MaxTime]
    BY <2>2 DEF RowStatus
  <2>4. RowStep
    BY <2>1, <2>2, <2>3, RowWritten
  <2>5. QED
    BY <2>1, <2>2, <2>4, RowsLeft DEF Own
<1>7. CASE Disable \/ Undo \/ Enable \/ Redo
  <2>1. /\ op.pc \in {"disable", "undo", "enable", "redo"} /\ op.pc \in OpLocked /\ op.file \in File
        /\ op.cred \in Cred /\ UNCHANGED row
    BY <1>7, OpFacts DEF Disable, Undo, Enable, Redo, OpLocked
  <2>2. Holds(op.file, op.cred)
    BY <2>1 DEF CooldownInv, OpOK
  <2>3. Own(op.file)
    <3>1. CASE op.pc \in {"disable", "redo"}
      BY <3>1 DEF CooldownInv, OpOK, Own
    <3>2. CASE op.pc = "undo"
      BY <3>2 DEF CooldownInv, OpOK, Own
    <3>3. CASE op.pc = "enable"
      BY <2>1, <2>2, <3>3 DEF CooldownInv, OpOK, Own, CoolingDown
    <3>4. QED
      BY <2>1, <3>1, <3>2, <3>3
  <2>4. \/ UNCHANGED <<cpa, by>>
        \/ \E disabled \in BOOLEAN : \/ Switch(op.file, disabled, "cooldown")
                                    \/ SwitchUnnoticed(op.file, disabled, "cooldown")
    BY <1>7 DEF Disable, Undo, Enable, Redo
  <2>5. ASSUME NEW disabled \in BOOLEAN,
               \/ Switch(op.file, disabled, "cooldown")
               \/ SwitchUnnoticed(op.file, disabled, "cooldown")
        PROVE  FileStep(op.file, "cooldown")
    BY <2>1, <2>2, <2>5, FileSwitched, OpHolds
  <2>6. QED
    BY <2>1, <2>3, <2>4, <2>5, FilesLeft, NothingWritten
<1>8. QED
  BY <1>1, <1>3, <1>4, <1>5, <1>6, <1>7 DEF CooldownNext, Look, Disabling, Recovering

\* The account action worker switches what is enabled or what it has switched.
LEMMA CandidateLeavesAlone ==
  ASSUME AuthTypeOK, ActionsInv, ActionsNext, NEW f \in File, cpa[f].disabled, by[f] = "user"
  PROVE  by'[f] # "candidate"
<1>0. by \in [File -> Who]
  BY DEF AuthTypeOK
<1>1. CASE AutoDisable \/ UndoAutoDisable
  <2>1. UNCHANGED by \/ by' = [by EXCEPT ![work.file] = "candidate"]
    BY <1>1 DEF AutoDisable, UndoAutoDisable, Switch, SwitchUnnoticed, Write
  <2>2. f # work.file
    BY <1>1 DEF AutoDisable, UndoAutoDisable, ActionsInv, WorkOK
  <2>3. QED
    BY <1>0, <2>1, <2>2
<1>2. CASE AdminEnable \/ AdminDelete \/ RestoreDisabled
  <2>1. UNCHANGED by \/ by' = [by EXCEPT ![admin.file] = "admin"]
    BY <1>2 DEF AdminEnable, AdminDelete, RestoreDisabled, Switch, SwitchUnnoticed, Write
  <2>2. QED
    BY <1>0, <2>1
<1>3. CASE \/ \E g \in File, k \in Cred : Observe(g, k)
           \/ \E g \in File, k \in Cred : Decide(g, k)
           \/ \E g \in File, k \in Cred, kind \in {"enable", "delete"} : StartRequest(g, k, kind)
           \/ WorkFinds \/ WorkFindsNothing \/ MarkAutoDisabled \/ MarkAutoDisabledFails
           \/ RequestFinds \/ RequestFindsNothing \/ PersistDecision \/ PersistDecisionFails
  BY <1>3 DEF Observe, Decide, StartRequest, WorkFinds, WorkFindsNothing, MarkAutoDisabled,
     MarkAutoDisabledFails, RequestFinds, RequestFindsNothing, PersistDecision, PersistDecisionFails, authVars
<1>4. QED
  BY <1>1, <1>2, <1>3 DEF ActionsNext, Work, Answer

\* What the cooldown worker does to a file somebody else has disabled is to
\* recover a cooldown that is still active.
LEMMA OnlyRecoveries ==
  ASSUME AuthTypeOK, CooldownInv, CooldownNext, NEW f \in File, cpa[f].disabled, by[f] # "cooldown"
  PROVE  /\ by'[f] \in {by[f], "cooldown"}
         /\ by'[f] = "cooldown" => CoolingDown(f) /\ op.kind # "candidate" /\ ~cpa'[f].disabled
<1>0. cpa \in [File -> {Absent} \cup Content] /\ by \in [File -> Who]
  BY DEF AuthTypeOK
<1>1. CASE Disable \/ Undo \/ Redo
  <2>1. UNCHANGED by \/ by' = [by EXCEPT ![op.file] = "cooldown"]
    BY <1>1 DEF Disable, Undo, Redo, Switch, SwitchUnnoticed, Write
  <2>2. f # op.file
    BY <1>1 DEF Disable, Undo, Redo, CooldownInv, OpOK
  <2>3. QED
    BY <1>0, <2>1, <2>2
<1>2. CASE Enable
  <2>1. op.pc = "enable" /\ op.pc \in OpLocked /\ op.file \in File /\ op.cred \in Cred
    BY <1>2, OpFacts DEF Enable, OpLocked
  <2>2. CASE UNCHANGED <<cpa, by>>
    BY <2>2
  <2>3. CASE Write(op.file, [cpa[op.file] EXCEPT !.disabled = FALSE], "cooldown")
    <3>1. f # op.file => by'[f] = by[f]
      BY <1>0, <2>3 DEF Write
    <3>2. by'[op.file] = "cooldown" /\ cpa'[op.file].disabled = FALSE
      BY <1>0, <2>1, <2>3 DEF Write, Absent, Content
    <3>3. CoolingDown(op.file) /\ op.kind # "candidate"
      BY <2>1 DEF CooldownInv, OpOK, CoolingDown
    <3>4. QED
      BY <3>1, <3>2, <3>3
  <2>4. QED
    BY <1>2, <2>2, <2>3 DEF Enable, Switch, SwitchUnnoticed
<1>3. CASE UNCHANGED by
  BY <1>3
<1>4. QED
  BY <1>1, <1>2, <1>3 DEF CooldownNext, Look, Disabling, Recovering, Tick, ReportExhausted,
     TakeCandidate, StartDue, NextDue, StartEarly, FindFails, FindNothing, FindWork,
     ExtendCooldown, FindEnabled, Persist, PersistFails, Verify, VerifyFails, MarkRecovered,
     MarkFails, authVars

\* The step of each actor, seen from a file that somebody else has disabled.
LEMMA RespectStep ==
  ASSUME AutomationInv, Next, NEW f \in File, cpa[f].disabled, by[f] # "cooldown"
  PROVE  /\ by'[f] = "cooldown" => CoolingDown(f) /\ op.kind # "candidate" /\ ~cpa'[f].disabled
         /\ by[f] = "user" => by'[f] # "candidate"
         /\ cpa'[f].cred = cpa[f].cred /\ ~CoolingDown(f) => ~CoolingDown(f)'
<1>0. AuthTypeOK /\ CooldownInv /\ ActionsInv
  BY DEF AutomationInv
<1>1. CASE Cooldowns
  <2>1. ~CoolingDown(f) => ~Own(f)
    BY DEF Own
  <2>2. ~CoolingDown(f) => LeftAlone(f)
    BY <1>0, <1>1, <2>1, CooldownLeavesAlone DEF Cooldowns
  <2>3. cpa'[f].cred = cpa[f].cred /\ ~CoolingDown(f) => ~CoolingDown(f)'
    BY <2>2 DEF LeftAlone, CoolingDown, Holds, Active
  <2>4. /\ by'[f] \in {by[f], "cooldown"}
        /\ by'[f] = "cooldown" => CoolingDown(f) /\ op.kind # "candidate" /\ ~cpa'[f].disabled
    BY <1>0, <1>1, OnlyRecoveries DEF Cooldowns
  <2>5. QED
    BY <2>3, <2>4
<1>2. ASSUME UNCHANGED row
      PROVE  cpa'[f].cred = cpa[f].cred /\ ~CoolingDown(f) => ~CoolingDown(f)'
  BY <1>2 DEF CoolingDown, Holds, Active
<1>3. CASE Actions
  <2>1. UNCHANGED row /\ ActionsNext
    BY <1>3 DEF Actions, cooldownVars
  <2>2. PICK who \in {"candidate", "admin"} : AuthEffect(who)
    BY <1>0, <2>1, ActionsStep
  <2>3. by'[f] # "cooldown"
    BY <2>2 DEF AuthEffect
  <2>4. by[f] = "user" => by'[f] # "candidate"
    BY <1>0, <2>1, CandidateLeavesAlone
  <2>5. QED
    BY <1>2, <2>1, <2>3, <2>4
<1>4. CASE Users
  <2>1. UNCHANGED row /\ AuthEffect("user")
    BY <1>0, <1>4, UserEffect DEF Users, cooldownVars
  <2>2. by'[f] = by[f] \/ by'[f] = "user"
    BY <2>1 DEF AuthEffect
  <2>3. QED
    BY <1>2, <2>1, <2>2
<1>5. CASE Crash
  <2>1. UNCHANGED <<row, by>>
    BY <1>5 DEF Crash, StopHolders, StopCooldowns
  <2>2. QED
    BY <1>2, <2>1
<1>6. QED
  BY <1>1, <1>3, <1>4, <1>5 DEF Next

\* Whoever has disabled a credential, no candidate disables it anew or starts
\* a cooldown for it, and only a cooldown that is still active enables it;
\* what a user has disabled, the account action worker leaves alone.
THEOREM OthersStartNoCooldown == Spec => NoCooldownForOthers
<1> DEFINE Respect == \A f \in File : cpa[f].disabled /\ by[f] # "cooldown" =>
                        /\ by'[f] = "cooldown" =>
                             CoolingDown(f) /\ op.kind # "candidate" /\ ~cpa'[f].disabled
                        /\ by[f] = "user" => by'[f] # "candidate"
                        /\ cpa'[f].cred = cpa[f].cred /\ ~CoolingDown(f) => ~CoolingDown(f)'
<1>1. ASSUME AutomationInv, Next
      PROVE  Respect
  BY <1>1, RespectStep
<1>2. AutomationInv /\ [Next]_vars => [Respect]_vars
  BY <1>1
<1>3. QED
  BY <1>2, AutomationInvHolds, PTL DEF Spec, NoCooldownForOthers
=============================================================================
