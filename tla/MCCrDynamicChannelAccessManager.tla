--------------------- MODULE MCCrDynamicChannelAccessManager ---------------------
(* The values the channel access manager is model-checked with.            *)
EXTENDS CrDynamicChannelAccessManager

MCNeighbors == {0, 2}

=============================================================================
