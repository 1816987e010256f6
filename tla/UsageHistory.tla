---------------------------- MODULE UsageHistory ----------------------------
(***************************************************************************)
(* What the usage store promises its readers, whatever happens inside it.  *)
(* An event is absent until it is stored; a stored event may be archived,  *)
(* which takes its raw row away for ever.  From the moment an event is     *)
(* stored every read of full hours counts it exactly once, and archiving   *)
(* does not change that.  UsageArchive implements this specification.      *)
(***************************************************************************)
CONSTANT Hash

VARIABLES
    life,    \* where each event is
    total    \* how often a dashboard read counts it

historyVars == <<life, total>>

Init ==
    /\ life \in [Hash -> {"absent", "stored"}]
    /\ total = [h \in Hash |-> IF life[h] = "stored" THEN 1 ELSE 0]

\* One insert transaction makes a batch of events visible at once.
Store(events) ==
    /\ \A h \in events : life[h] = "absent"
    /\ life' = [h \in Hash |-> IF h \in events THEN "stored" ELSE life[h]]
    /\ total' = [h \in Hash |-> IF h \in events THEN 1 ELSE total[h]]

\* One delete batch moves events to the archive, and no total changes.
MoveToArchive(events) ==
    /\ \A h \in events : life[h] = "stored"
    /\ life' = [h \in Hash |-> IF h \in events THEN "archived" ELSE life[h]]
    /\ UNCHANGED total

Next == \E events \in SUBSET Hash : Store(events) \/ MoveToArchive(events)

Spec == Init /\ [][Next]_historyVars
=============================================================================
