---------------------------- MODULE NlInduction ----------------------------
(***************************************************************************)
(* Facts about the natural numbers that the proofs of several modules      *)
(* need.  They are about sets of numbers, so that they can be cited for    *)
(* any property n \in {n \in Nat : P(n)}.                                  *)
(***************************************************************************)
EXTENDS Naturals, WellFoundedInduction, TLAPS

\* A set of numbers that is not empty has a least element.
LEMMA LeastElement ==
    ASSUME NEW T, T \subseteq Nat, T # {}
    PROVE  \E i \in T : \A j \in T : i <= j
  <1> DEFINE R == {ss \in Nat \X Nat : ss[1] < ss[2]}
  <1>1. IsWellFoundedOn(R, Nat)
    BY NatLessThanWellFounded, Zenon DEF OpToRel
  <1> HIDE DEF R
  <1>2. PICK x \in T : \A y \in T : ~(<<y, x>> \in R)
    BY <1>1, WFMin
  <1>3. \A y \in T : ~(y < x)
    BY <1>2 DEF R
  <1> QED BY <1>3

\* Induction: a set with 0 and the successors of its members is all of Nat.
LEMMA SetInduction ==
    ASSUME NEW P, 0 \in P, \A n \in Nat : n \in P => n + 1 \in P
    PROVE  Nat \subseteq P
  <1> SUFFICES ASSUME Nat \ P # {} PROVE FALSE
    OBVIOUS
  <1> DEFINE T == Nat \ P
  <1>1. PICK i \in T : \A j \in T : i <= j
    BY LeastElement
  <1>2. i \in Nat /\ i # 0 /\ i \notin P
    OBVIOUS
  <1>3. i - 1 \in Nat /\ i - 1 \notin T
    BY <1>1, <1>2
  <1> QED BY <1>2, <1>3
=============================================================================
