----------------------------- MODULE AuthFiles -----------------------------
(***************************************************************************)
(* The auth files of CLI Proxy API as the manager server sees and changes  *)
(* them: each file holds one credential, which is enabled or disabled.     *)
(* Everybody who changes a file holds its mutation lock, whose promise is  *)
(* proved in MutationCoordinator; a request of a user, which the proxy     *)
(* forwards under the lock, is one step.                                   *)
(*                                                                         *)
(* A request to change a file succeeds, is refused, or fails although it   *)
(* has taken effect (a timeout, or an answer that cannot be read).         *)
(***************************************************************************)
EXTENDS Integers, FiniteSets

CONSTANTS
    File,   \* names of auth files
    Cred    \* credentials (auth_index and snapshots) that requests have used

VARIABLES
    cpa,      \* external: the credential in each file, and its disabled flag
    holder,   \* who holds each file's mutation lock
    by,       \* history: who switched, wrote or deleted each file last
    lost      \* history: disabled files whose switch its owner has no record of

authVars == <<cpa, holder, by, lost>>

NoCred == "none"
Absent == [cred |-> NoCred, disabled |-> FALSE]
Unused == "unused"    \* a credential that no request has used
Content == [cred : Cred \cup {Unused}, disabled : BOOLEAN]
Who == {"user", "cooldown", "candidate", "admin"}
Nobody == "nobody"

AuthInit ==
    /\ cpa \in [File -> {Absent} \cup Content]
    /\ holder = [f \in File |-> Nobody]
    /\ by = [f \in File |-> "user"]
    /\ lost = {}

\* ResolveVerifiedStatusMutationTarget finds the credential k in file f.
Holds(f, k) == cpa[f].cred = k

\* Acquire and the function it returned.
Take(f, who) == holder' = [holder EXCEPT ![f] = who]
Drop(f) == holder' = [holder EXCEPT ![f] = Nobody]

Write(f, content, who) ==
    /\ cpa' = [cpa EXCEPT ![f] = content]
    /\ by' = [by EXCEPT ![f] = who]

\* PatchDisabledTarget with an answer that says so.
Switch(f, disabled, who) ==
    /\ Write(f, [cpa[f] EXCEPT !.disabled = disabled], who)
    /\ lost' = lost \ {f}

\* PatchDisabledTarget has taken effect and reports a failure.
SwitchUnnoticed(f, disabled, who) ==
    /\ Write(f, [cpa[f] EXCEPT !.disabled = disabled], who)
    /\ lost' = IF disabled THEN lost \cup {f} ELSE lost \ {f}

\* A user disables or enables a file, uploads one, or deletes it, through the
\* proxy (a request that changes nothing is no step).
UserRequest(f) ==
    /\ holder[f] = Nobody
    /\ \/ cpa[f] # Absent /\ Write(f, [cpa[f] EXCEPT !.disabled = ~@], "user")
       \/ \E content \in Content : cpa[f] # content /\ Write(f, content, "user")
       \/ cpa[f] # Absent /\ Write(f, Absent, "user")
    /\ lost' = lost \ {f}
    /\ UNCHANGED holder

\* The process stops: locks are gone, and so is what their holders knew.
StopHolders ==
    /\ holder' = [f \in File |-> Nobody]
    /\ lost' = lost \cup {f \in File : holder[f] # Nobody /\ cpa[f].disabled}
    /\ UNCHANGED <<cpa, by>>

\* The flags CPA shows, and the locks.
AuthTypeOK ==
    /\ cpa \in [File -> {Absent} \cup Content]
    /\ holder \in [File -> Who \cup {Nobody}]
    /\ by \in [File -> Who]
    /\ lost \subseteq File
=============================================================================
