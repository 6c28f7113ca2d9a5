---------------------------- MODULE MaxTheorems ----------------------------
(***************************************************************************)
(* What the Max and Min of the community modules return.  They are CHOOSEs *)
(* and say nothing of a set of numbers that is not bounded.  Cited where a *)
(* module speaks of the latest report or event of a kind.                  *)
(***************************************************************************)
EXTENDS Integers, FiniteSetsExt, WellFoundedInduction, TLAPS

\* Every nonempty set of natural numbers has a least element.
LEMMA LeastExists ==
  ASSUME NEW S \in SUBSET Nat, S # {}
  PROVE  \E x \in S : \A y \in S : x <= y
<1> DEFINE Less == {ss \in Nat \X Nat : ss[1] < ss[2]}
<1>1. IsWellFoundedOn(Less, Nat)
  BY NatLessThanWellFounded DEF OpToRel
<1>2. \E x \in S : \A y \in S : ~(<<y, x>> \in Less)
  <2> HIDE DEF Less
  <2> QED  BY <1>1, WFMin
<1>3. \A x, y \in Nat : ~(<<y, x>> \in Less) => x <= y
  OBVIOUS
<1> HIDE DEF Less
<1> QED  BY <1>2, <1>3

\* A nonempty set of numbers up to k has a largest, and Max is it.
LEMMA MaxOf ==
  ASSUME NEW k \in Nat, NEW S \in SUBSET (0..k), S # {}
  PROVE  Max(S) \in S /\ \A y \in S : y <= Max(S)
<1> DEFINE T == {x \in 0..k : k - x \in S}
<1>1. PICK x \in T : \A y \in T : x <= y
  <2>1. PICK y \in S : TRUE  OBVIOUS
  <2>2. k - y \in 0..k /\ k - (k - y) = y  OBVIOUS
  <2>3. k - y \in T  BY <2>1, <2>2
  <2>4. T \in SUBSET Nat  OBVIOUS
  <2> HIDE DEF T
  <2> QED  BY <2>3, <2>4, LeastExists
<1>2. \A y \in S : y <= k - x
  <2> TAKE y \in S
  <2>1. k - y \in 0..k /\ k - (k - y) = y  OBVIOUS
  <2>2. k - y \in T  BY <2>1
  <2> QED  BY <1>1, <2>2
<1>3. k - x \in S  BY <1>1
<1> QED  BY <1>2, <1>3 DEF Max

\* The same, said the other way round.
LEMMA MaxIs ==
  ASSUME NEW S \in SUBSET Int, NEW x \in S, \A y \in S : y <= x
  PROVE  Max(S) = x
<1>1. Max(S) \in S /\ \A y \in S : Max(S) >= y  BY DEF Max
<1>2. Max(S) \in Int /\ x \in Int  BY <1>1
<1>3. Max(S) >= x /\ x >= Max(S)  BY <1>1, <1>2
<1> QED  BY <1>2, <1>3

LEMMA MinIs ==
  ASSUME NEW S \in SUBSET Int, NEW x \in S, \A y \in S : x <= y
  PROVE  Min(S) = x
<1>1. Min(S) \in S /\ \A y \in S : Min(S) <= y  BY DEF Min
<1>2. Min(S) \in Int /\ x \in Int  BY <1>1
<1>3. Min(S) <= x /\ x <= Min(S)  BY <1>1, <1>2
<1> QED  BY <1>2, <1>3

LEMMA MinOfTwo ==
  ASSUME NEW a \in Int, NEW b \in Int
  PROVE  Min({a, b}) = IF a <= b THEN a ELSE b
<1>1. CASE a <= b
  <2>1. {a, b} \in SUBSET Int /\ a \in {a, b} /\ \A y \in {a, b} : a <= y
    BY <1>1
  <2> QED  BY <1>1, <2>1, MinIs
<1>2. CASE ~(a <= b)
  <2>1. {a, b} \in SUBSET Int /\ b \in {a, b} /\ \A y \in {a, b} : b <= y
    BY <1>2
  <2> QED  BY <1>2, <2>1, MinIs
<1> QED  BY <1>1, <1>2

LEMMA MaxOfTwo ==
  ASSUME NEW a \in Int, NEW b \in Int
  PROVE  Max({a, b}) = IF a >= b THEN a ELSE b
<1>1. CASE a >= b
  <2>1. {a, b} \in SUBSET Int /\ a \in {a, b} /\ \A y \in {a, b} : y <= a
    BY <1>1
  <2> QED  BY <1>1, <2>1, MaxIs
<1>2. CASE ~(a >= b)
  <2>1. {a, b} \in SUBSET Int /\ b \in {a, b} /\ \A y \in {a, b} : y <= b
    BY <1>2
  <2> QED  BY <1>2, <2>1, MaxIs
<1> QED  BY <1>1, <1>2
=============================================================================
