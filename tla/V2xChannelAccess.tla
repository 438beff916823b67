--------------------------- MODULE V2xChannelAccess ---------------------------
(***************************************************************************)
(* What the V2X channel scheduler promises its users, whatever the radio   *)
(* does: the service channels have one owner at a time, who is never       *)
(* preempted; an extended access lasts the sync intervals it was asked     *)
(* for and at most the rest of a service interval more.                    *)
(***************************************************************************)
EXTENDS Integers

CONSTANTS
    Cch,        \* the control channel
    Services,   \* the service channels (SCHs)
    Extends,    \* the numbers of sync intervals an extended access may ask for
    Cchi, Schi  \* length of the control and of the service channel interval

VARIABLE owner  \* the kind of access assigned, its channel, the time left to it

Kinds == {"alternating", "continuous", "extended"}
Sync == Cchi + Schi
Default == [kind |-> "default", channel |-> Cch, left |-> -1]

Init == owner = Default

\* How long an access of a kind may last; -1 if until it is released.
Lengths(kind) ==
    IF kind = "extended"
    THEN UNION {x * Sync .. x * Sync + Schi : x \in Extends}
    ELSE {-1}

Assign ==
    /\ owner = Default
    /\ \E kind \in Kinds, c \in Services : \E left \in Lengths(kind) :
         owner' = [kind |-> kind, channel |-> c, left |-> left]

Release == owner' = Default

TimePasses == owner.left > 0 /\ owner' = [owner EXCEPT !.left = @ - 1]

Next == Assign \/ Release \/ TimePasses

Spec == Init /\ [][Next]_owner

=============================================================================
