----------------------- MODULE MCMutationCoordinator -----------------------
(* Instance of MutationCoordinator: three callers and two files.           *)
EXTENDS MutationCoordinator

CONSTANTS c1, c2, c3, f1, f2

MCCaller == {c1, c2, c3}
MCFile == {f1, f2}
=============================================================================
