------------------------- MODULE MCV2xMmWaveNetDevice -------------------------
(* Who sends to whom where V2X nodes are model-checked. *)
EXTENDS V2xMmWaveNetDevice

CONSTANTS n1, n2, n3

\* One node sends to one receiver, which sends to the group.
Half == {<<n1, n2>>, <<n2, Group>>}
ThreeAndOne == [n \in Nodes |-> IF n = n1 THEN 3 ELSE IF n = n2 THEN 1 ELSE 0]

=============================================================================
