------------------------------ MODULE MCMmWavePhy ------------------------------
(* The PHY on its own, with a listener that keeps nothing, or whether the   *)
(* PHY has ever switched.                                                   *)
EXTENDS MmWavePhy

MCPowers == {1, 2}
MCFrameDurations == {5, 7}
MCNoiseDurations == {3, 8}
MCTxDurations == {1, 3}
MCReactions == {<<>>}
MCTold(l, calls) == {l}
MCToldOfSwitches(l, calls) == {l \/ \E i \in DOMAIN calls : calls[i][1] = "SwitchingStart"}

\* Energy above the threshold is never forgotten, until the PHY first switches.
\* (The listener tells whether it has.)
QuietUntilSwitched == listener \/ IdleMeansQuiet

=============================================================================
