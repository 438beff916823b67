----------------------------- MODULE MCCrPhyAccess -----------------------------
(* The values a node's PHY and access manager are model-checked with.      *)
EXTENDS CrPhyAccess

MCPowers == {1, 2}
MCFrameDurations == {5, 7}
MCNoiseDurations == {9}
MCTxDurations == {2}
MCNavDurations == {3}

=============================================================================
