--------------------------- MODULE NaturalLemmas ---------------------------
(***************************************************************************)
(* Induction over the natural numbers in a form without operators for      *)
(* parameters, for the proofs about the other modules: the statement to    *)
(* prove is a set of numbers.                                              *)
(***************************************************************************)
EXTENDS Naturals, WellFoundedInduction, TLAPS

(* A set of natural numbers that is not empty has a least element. *)
LEMMA LeastNatural ==
  ASSUME NEW S \in SUBSET Nat, S # {}
  PROVE  \E s \in S : \A r \in S : s <= r
<1> DEFINE R == OpToRel(<, Nat)
<1>1. IsWellFoundedOn(R, Nat)
  BY NatLessThanWellFounded
<1>2. PICK s \in S : \A r \in S : <<r, s>> \notin R
  BY <1>1, WFMin
<1>3. ASSUME NEW r \in S PROVE s <= r
  <2>1. s \in Nat /\ r \in Nat
    OBVIOUS
  <2>2. <<r, s>> \in Nat \X Nat /\ <<r, s>>[1] = r /\ <<r, s>>[2] = s
    BY <2>1
  <2>3. ~ (r < s)
    BY <1>2, <2>2, Zenon DEF OpToRel
  <2> QED
    BY <2>1, <2>3
<1> QED
  BY <1>3

(* A set that holds 0, and with each number the next, holds them all.      *)
LEMMA SetInduction ==
  ASSUME NEW S, 0 \in S, \A n \in Nat : n \in S => n + 1 \in S
  PROVE  \A n \in Nat : n \in S
<1> DEFINE others == {n \in Nat : n \notin S}
<1> SUFFICES ASSUME others # {} PROVE FALSE
  OBVIOUS
<1>1. PICK least \in others : \A r \in others : least <= r
  BY LeastNatural
<1>2. least \in Nat /\ least # 0 /\ least \notin S
  OBVIOUS
<1>3. least - 1 \in Nat /\ ~(least <= least - 1) /\ (least - 1) + 1 = least
  BY <1>2
<1>4. least - 1 \in S
  BY <1>1, <1>3
<1> QED
  BY <1>2, <1>3, <1>4
=============================================================================
