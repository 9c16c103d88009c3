---------------------------- MODULE LeastNumber -----------------------------
(***************************************************************************)
(* Proofs by induction on numbers: a counterexample would have a least one.*)
(***************************************************************************)
EXTENDS Naturals, TLAPS, WellFoundedInduction

Below == OpToRel(<, Nat)

LEMMA BelowIsWellFounded == IsWellFoundedOn(Below, Nat)
BY NatLessThanWellFounded DEF Below

LEMMA BelowIsLess == \A x, y \in Nat : x < y => <<x, y>> \in Below
BY DEF OpToRel, Below

\* A set of natural numbers that is not empty has a least element.
LEMMA Least ==
  ASSUME NEW T \in SUBSET Nat, T # {}
  PROVE  \E x \in T : \A y \in T : x <= y
<1>1. PICK x \in T : \A y \in T : ~(<<y, x>> \in Below)
  BY BelowIsWellFounded, WFMin
<1>2. ASSUME NEW y \in T PROVE x <= y
  <2>1. x \in Nat /\ y \in Nat
    OBVIOUS
  <2>2. ~(y < x)
    BY <1>1, <2>1, BelowIsLess
  <2>. QED BY <2>1, <2>2
<1>. QED BY <1>2
=============================================================================
