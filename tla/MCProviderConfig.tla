-------------------------- MODULE MCProviderConfig --------------------------
(* Two instances that know the same two provider records. *)
EXTENDS ProviderConfig

CONSTANTS sA, sB, r1, r2

MCServer == {sA, sB}
MCRecord == {r1, r2}
=============================================================================
