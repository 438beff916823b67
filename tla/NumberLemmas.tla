------------------------------ MODULE NumberLemmas ------------------------------
(***************************************************************************)
(* What the proofs of several components need about least and greatest     *)
(* members of sets of natural numbers.                                     *)
(***************************************************************************)
EXTENDS Integers, FiniteSets, FiniteSetsExt, FiniteSetTheorems, TLAPS,
        WellFoundedInduction

\* Every set of natural numbers that is not empty has a least element.
LEMMA LeastNatural ==
    ASSUME NEW S \in SUBSET Nat, S # {}
    PROVE  Min(S) \in S /\ \A t \in S : Min(S) <= t
  <1>1. \E x \in S : \A y \in S : ~(<<y, x>> \in OpToRel(<, Nat))
    BY NatLessThanWellFounded, WFMin
  <1>2. \E x \in S : \A y \in S : x <= y
    <2>1. PICK x \in S : \A y \in S : ~(<<y, x>> \in OpToRel(<, Nat))
      BY <1>1
    <2>2. ASSUME NEW y \in S PROVE x <= y
      <3>1. x \in Nat /\ y \in Nat /\ <<y, x>> \in Nat \X Nat
        OBVIOUS
      <3>2. ~(y < x)
        BY <2>1, <3>1 DEF OpToRel
      <3> QED
        BY <3>1, <3>2
    <2> QED
      BY <2>2
  <1>3. (CHOOSE x \in S : \A y \in S : x <= y) \in S
        /\ \A y \in S : (CHOOSE x \in S : \A z \in S : x <= z) <= y
    BY <1>2, Zenon
  <1> QED
    BY <1>3 DEF Min

\* A set of naturals with a bound has a greatest member.
LEMMA GreatestNatural ==
    ASSUME NEW S \in SUBSET Nat, S # {}, NEW b \in Nat, \A t \in S : t <= b
    PROVE  Max(S) \in S /\ \A t \in S : t <= Max(S)
  <1> DEFINE B == {u \in Nat : \A t \in S : t <= u}
  <1>1. Min(B) \in B /\ \A u \in B : Min(B) <= u
    <2>1. B \in SUBSET Nat /\ b \in B
      OBVIOUS
    <2> HIDE DEF B
    <2> QED
      BY <2>1, LeastNatural
  <1> DEFINE x == Min(B)
  <1>2. x \in Nat /\ \A t \in S : t <= x
    BY <1>1
  <1>3. x \in S
    <2> SUFFICES ASSUME x \notin S PROVE FALSE
      OBVIOUS
    <2>1. PICK s \in S : TRUE
      OBVIOUS
    <2>2. x # 0
      <3>1. s \in Nat /\ s <= x /\ s # x
        BY <1>2
      <3> HIDE DEF x
      <3> QED
        BY <3>1, <1>2
    <2>3. x - 1 \in Nat /\ \A t \in S : t <= x - 1
      <3>1. x \in Nat /\ \A t \in S : t <= x /\ t # x
        BY <1>2
      <3> HIDE DEF x
      <3> QED
        BY <2>2, <3>1
    <2>4. x <= x - 1
      BY <1>1, <2>3
    <2> HIDE DEF x
    <2> QED
      BY <1>2, <2>4
  <1>4. \E y \in S : \A t \in S : y >= t
    BY <1>2, <1>3
  <1>5. (CHOOSE y \in S : \A t \in S : y >= t) \in S
        /\ \A t \in S : (CHOOSE y \in S : \A z \in S : y >= z) >= t
    BY <1>4, Zenon
  <1> QED
    BY <1>5 DEF Max

\* A finite set of natural numbers has a bound.
LEMMA FiniteIsBounded ==
    ASSUME NEW S \in SUBSET Nat, IsFiniteSet(S)
    PROVE  \E b \in Nat : \A t \in S : t <= b
  <1> DEFINE Bounded(X) == \E b \in Nat : \A t \in X : t <= b
             T == {X \in SUBSET S : ~Bounded(X)}
  <1> SUFFICES ASSUME ~Bounded(S) PROVE FALSE
    OBVIOUS
  <1> T # {}
    OBVIOUS
  <1>1. PICK X \in T : \A Y \in T : ~(<<Y, X>> \in StrictSubsetOrdering(S))
    <2>1. IsWellFoundedOn(StrictSubsetOrdering(S), SUBSET S)
      BY FS_StrictSubsetOrderingWellFounded, FS_FiniteSubsetsOfFinite
    <2>2. T \subseteq SUBSET S
      OBVIOUS
    <2> HIDE DEF T
    <2> QED
      BY <2>1, <2>2, WFMin
  <1>2. X \subseteq S /\ ~Bounded(X)
    OBVIOUS
  <1>3. PICK x \in X : TRUE
    BY <1>2
  <1>4. X \ {x} \notin T
    BY <1>1, <1>2, <1>3 DEF StrictSubsetOrdering
  <1>5. PICK b \in Nat : \A t \in X \ {x} : t <= b
    BY <1>2, <1>4
  <1>6. b + x \in Nat /\ \A t \in X : t <= b + x
    BY <1>2, <1>3, <1>5
  <1> QED
    BY <1>2, <1>6

=============================================================================
