------------------------------ MODULE Induction ------------------------------
(***************************************************************************)
(* Induction over the natural numbers in the first-order form that the     *)
(* provers can use: it speaks of the set of the numbers that have the      *)
(* property, and comes from the least number that does not.                *)
(***************************************************************************)
EXTENDS Integers, TLAPS, WellFoundedInduction

LEMMA LeastElement ==
  ASSUME NEW T \in SUBSET Nat, T # {}
  PROVE  \E x \in T : \A y \in T : x <= y
  <1>. DEFINE R == OpToRel(<, Nat)
  <1>1. IsWellFoundedOn(R, Nat) BY NatLessThanWellFounded
  <1>2. PICK x \in T : \A y \in T : <<y, x>> \notin R
    <2>. HIDE DEF R
    <2>. QED BY <1>1, WFMin
  <1>3. \A y \in T : ~(y < x) BY <1>2 DEF OpToRel
  <1>. QED BY <1>3

(* What holds of 0, and of i + 1 when it holds of i < n, holds up to n.    *)
LEMMA InductionUpTo ==
  ASSUME NEW n \in Nat, NEW S, 0 \in S,
         \A i \in 0..(n - 1) : i \in S => i + 1 \in S
  PROVE  \A i \in 0..n : i \in S
  <1>. DEFINE T == {i \in 0..n : i \notin S}
  <1>1. SUFFICES ASSUME T # {} PROVE FALSE
    OBVIOUS
  <1>2. T \in SUBSET Nat OBVIOUS
  <1>. HIDE DEF T
  <1>3. PICK x \in T : \A y \in T : x <= y BY <1>1, <1>2, LeastElement
  <1>. USE DEF T
  <1>4. x \in 1..n BY <1>3
  <1>5. x - 1 \in 0..(n - 1) /\ x - 1 \in S BY <1>3, <1>4
  <1>. QED BY <1>3, <1>4, <1>5

(* The principle of induction for a formula P(n), temporal or not.  Every  *)
(* instance is valid; none of the provers can give one for a temporal P,   *)
(* so that a theorem that needs one names it among its hypotheses, proves  *)
(* its two premises, and takes no more than the conclusion from it.        *)
InductionFor(P(_)) ==
  P(0) /\ (\A n \in Nat : P(n) => P(n + 1)) => \A n \in Nat : P(n)
=============================================================================
