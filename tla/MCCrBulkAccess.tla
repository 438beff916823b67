----------------------------- MODULE MCCrBulkAccess -----------------------------
(* The values bulk access is model-checked with.                           *)
EXTENDS CrBulkAccess

MCTwoNodes == {1, 2}
MCExact == [d \in Dests |-> DataTx]
MCGroupShort == [d \in Dests |-> IF d = Group THEN DataTx - 1 ELSE DataTx]
MCTwoEach == [n \in Nodes |-> 2]
MCTwoAndOne == [n \in Nodes |-> IF n = 1 THEN 2 ELSE 1]
MCOneOfFirst == [n \in Nodes |-> IF n = 1 THEN 1 ELSE 0]
MCOneOfSecond == [n \in Nodes |-> IF n = 2 THEN 1 ELSE 0]
MCNone == [n \in Nodes |-> 0]

=============================================================================
