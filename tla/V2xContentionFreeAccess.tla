------------------------ MODULE V2xContentionFreeAccess ------------------------
(***************************************************************************)
(* The agreements a V2X node keeps of who may use the data channel when:   *)
(* how a new one is placed between those it knows, how one heard of is     *)
(* taken in, and when one is forgotten.  Times are relative to now, so an  *)
(* agreement in force has begun at most at zero; every agreement lasts     *)
(* m_txDuration, an attribute that all devices have alike.                 *)
(***************************************************************************)
EXTENDS Integers

CONSTANT TxDuration  \* m_txDuration: the length of an agreement

ASSUME TxDurationAssumption == TxDuration \in Nat \ {0}

Agreement(tx, rx, start) == [tx |-> tx, rx |-> rx, start |-> start]
Ends(a) == a.start + TxDuration

\* Agreements for times apart, or that begin together.
Apart(A) ==
    \A a, b \in A : a.start = b.start \/ Ends(a) <= b.start \/ Ends(b) <= a.start

\* CheckAgreementTimeout: an agreement that ends right now is still kept.
Expired(a) == Ends(a) < 0

\* One moment later; what the next call would find expired is dropped.
Elapsed(A) ==
    {a \in {[b EXCEPT !.start = @ - 1] : b \in A} : ~Expired(a)}

\* CheckAgreementConfilct: one end of the new period lies strictly inside an
\* agreement, so equal ones do not conflict.
Conflict(A, start) ==
    \E a \in A :
        \/ a.start < start + TxDuration /\ start + TxDuration < Ends(a)
        \/ a.start < start /\ start < Ends(a)

\* NewAgreement walks the agreements by their start and settles after one of
\* them, or at once, where the next begins later than the new one ends.
Free(A, start) == \A a \in A : Ends(a) <= start \/ start + TxDuration < a.start
Candidates(A, from) == {from} \cup {Ends(a) : a \in {b \in A : Ends(b) > from}}
NewAgreement(A, from) ==
    {start \in Candidates(A, from) :
        /\ Free(A, start)
        /\ \A t \in Candidates(A, from) : Free(A, t) => start <= t}

\* A fault: an agreement heard of is taken in whatever it conflicts with.
AddAgreementAlways(A, a) == A \cup {a}

\* AddAgreement: one that conflicts is dropped without a word.
AddAgreement(A, a) == IF Conflict(A, a.start) THEN A ELSE A \cup {a}

\* The agreement a node's next contention free period is for: the one that
\* begins first.
Own(A, n) == {a \in A : a.tx = n}
FirstOwn(A, n) == {a \in Own(A, n) : \A b \in Own(A, n) : a.start <= b.start}
FindAgreement(A, tx, rx) == \E a \in A : a.tx = tx /\ a.rx = rx

=============================================================================
