--------------------------- MODULE InductionFacts ---------------------------
(***************************************************************************)
(* Induction over the numbers up to a bound, for the proofs about routes   *)
(* and about the layout.  The bound is never missing there: the arrays of  *)
(* the program have a size.                                                *)
(***************************************************************************)
EXTENDS Integers, TLAPS, WellFoundedInduction

\* Every set of natural numbers has a least element: the way to prove by
\* induction here is to look at the least counterexample.
LEMMA LeastNatural ==
    ASSUME NEW S \in SUBSET Nat, S # {}
    PROVE  \E n \in S : \A m \in S : n <= m
<1> DEFINE R == {ss \in Nat \X Nat : ss[1] < ss[2]}
<1>1. IsWellFoundedOn(R, Nat)
  BY NatLessThanWellFounded DEF OpToRel
<1>2. PICK n \in S : \A m \in S : <<m, n>> \notin R
  BY <1>1, WFMin
<1>3. \A m \in S : n <= m
  <2> SUFFICES ASSUME NEW m \in S PROVE n <= m
    OBVIOUS
  <2>1. m \in Nat /\ n \in Nat
    OBVIOUS
  <2>2. ~(m < n)
    BY <1>2, <2>1
  <2> QED
    BY <2>1, <2>2
<1> QED
  BY <1>3

\* Induction for a set of numbers that holds 0 and, with a number below b, the next.
LEMMA Induction ==
    ASSUME NEW b \in Nat, NEW S, 0 \in S,
           \A n \in 0 .. b - 1 : n \in S => n + 1 \in S
    PROVE  0 .. b \subseteq S
<1> SUFFICES ASSUME 0 .. b \ S # {} PROVE FALSE
  OBVIOUS
<1>1. 0 .. b \ S \in SUBSET Nat
  OBVIOUS
<1>2. PICK n \in 0 .. b \ S : \A m \in 0 .. b \ S : n <= m
  BY <1>1, LeastNatural
<1>3. n # 0 /\ n - 1 \in 0 .. b - 1 /\ n - 1 \notin 0 .. b \ S
  BY <1>2
<1>4. n - 1 \in S
  BY <1>3
<1>5. (n - 1) + 1 \in S
  BY <1>3, <1>4
<1> QED
  BY <1>2, <1>5
=============================================================================
