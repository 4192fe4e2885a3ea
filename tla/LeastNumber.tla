---------------------------- MODULE LeastNumber ----------------------------
(***************************************************************************)
(* A lemma the proofs share: the principle of the least number, for sets.  *)
(***************************************************************************)
EXTENDS Integers, FiniteSetTheorems, WellFoundedInduction, TLAPS

\* A non-empty set of numbers has a least one: the sets 0..x with x in S are
\* well-founded under inclusion.
LEMMA LeastElement ==
  ASSUME NEW S \in SUBSET Nat, S # {}
  PROVE  \E x \in S : \A y \in S : x <= y
  <1> DEFINE T == {0..x : x \in S}
             R == StrictSubsetOrdering(Nat)
  <1>1. T \subseteq FiniteSubsetsOf(Nat) /\ T # {}
    <2>1. \A x \in S : IsFiniteSet(0..x) /\ 0..x \in SUBSET Nat
      BY FS_Interval
    <2> QED
      BY <2>1 DEF FiniteSubsetsOf
  <1>2. IsWellFoundedOn(R, FiniteSubsetsOf(Nat))
    BY FS_StrictSubsetOrderingWellFounded
  <1>3. PICK t \in T : \A u \in T : ~(<<u, t>> \in R)
    <2> HIDE DEF T, R
    <2> QED
      BY <1>1, <1>2, WFMin
  <1>4. PICK x \in S : t = 0..x
    OBVIOUS
  <1>5. ASSUME NEW y \in S, y < x PROVE FALSE
    <2>1. 0..y \subseteq 0..x /\ x \in 0..x /\ x \notin 0..y
      BY <1>5
    <2>2. <<0..y, 0..x>> \in R
      BY <2>1 DEF StrictSubsetOrdering
    <2> QED
      BY <1>3, <1>4, <2>2
  <1> QED
    BY <1>5
=============================================================================
