--------------------------- MODULE MCArchiveJobs ---------------------------
(* Instances of ArchiveJobs with two runs: r1 has just been created, r2 has *)
(* been verified.  Both may be manual runs, or r1 may be the run of the     *)
(* retention worker.  One caller waits, for the archiving of r1; requests   *)
(* in the background, and those that callers execute themselves, are made   *)
(* for every stage of both runs.                                            *)
EXTENDS ArchiveJobs

CONSTANTS r1, r2, c1

MCRunId == {r1, r2}
MCNoRetention == {}
MCWorkerRun == {r1}
MCCaller == {c1}
MCNobody == {}

MCInit ==
    /\ Init
    /\ run[r1].status = "previewed" /\ run[r2].status = "verified"
    /\ order = <<r2, r1>>

MCNext == Next /\ \A k \in Key \ {<<r1, "archiving">>} : waiters'[k] = {}

MCFairSpec == MCInit /\ [][MCNext]_vars /\ Fairness
=============================================================================
