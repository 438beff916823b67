------------------------- MODULE MCV2xChannelScheduler -------------------------
(* The channels the channel scheduler is model-checked with.               *)
EXTENDS V2xChannelScheduler

CONSTANTS cch, s1, s2

MCServices == {s1, s2}

=============================================================================
