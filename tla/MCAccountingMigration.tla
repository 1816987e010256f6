----------------------- MODULE MCAccountingMigration -----------------------
(* Instance of AccountingMigration: three events, h1 and h2 affected, of    *)
(* which the rediscovery predicate misses h2, and selects h3, which is      *)
(* right.  The hash of h2 is not canonical.  h3 is newer than the ledger.   *)
(* Two writers race for h1, one of them inserts the other events as well.   *)
EXTENDS AccountingMigration

CONSTANTS h1, h2, h3, w1, w2

MCHash == {h1, h2, h3}
MCCanonical == {h1, h3}
MCCandidate == {h1, h2, h3}
MCAffected == {h1, h2}
MCFlagged == {h1, h3}
MCWriter == {w1, w2}

MCInit == Init /\ raw[h3] = 0
MCNext == Next /\ pending'[w2] \subseteq {h1}
MCSpec == MCInit /\ [][MCNext]_allVars
MCFairSpec == MCSpec /\ MigrationFairness
=============================================================================
