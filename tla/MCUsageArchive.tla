--------------------------- MODULE MCUsageArchive ---------------------------
(* Instance of UsageArchive: two old events that a writer may insert at    *)
(* any time, and two runs, so that one run may be created, cancelled or    *)
(* resumed while the other is archived, verified or deleted.               *)
EXTENDS UsageArchive, TLC

CONSTANTS h1, h2, w1, r1, r2

MCHash == {h1, h2}
MCCutoffs == {{h1, h2}}
MCWriter == {w1}
MCRunId == {r1, r2}
MCSymmetry == Permutations(MCRunId) \cup Permutations(MCHash)
=============================================================================
