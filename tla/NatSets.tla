------------------------------ MODULE NatSets -------------------------------
(***************************************************************************)
(* Induction and extreme elements for sets of natural numbers.             *)
(*                                                                         *)
(* The proof modules define a property of the numbers as the set of those  *)
(* that have it, and show with SetInduction that it is all of Nat.         *)
(***************************************************************************)
EXTENDS Integers, FiniteSetsExt, WellFoundedInduction, TLAPS

\* A set of natural numbers that is not empty has a least element.
LEMMA Least ==
  ASSUME NEW S \in SUBSET Nat, S # {}
  PROVE  \E m \in S : \A n \in S : m <= n
<1>1. PICK m \in S : \A n \in S : ~(<<n, m>> \in OpToRel(<, Nat))
  <2> HIDE DEF OpToRel
  <2> QED  BY NatLessThanWellFounded, WFMin
<1>2. \A n \in S : ~(n < m)
  BY <1>1 DEF OpToRel
<1> QED  BY <1>2

\* A set that holds 0, and with each number the next, holds all of them.
THEOREM SetInduction ==
  ASSUME NEW T,
         0 \in T,
         \A n \in Nat : n \in T => n + 1 \in T
  PROVE  \A n \in Nat : n \in T
<1> DEFINE S == {n \in Nat : n \notin T}
<1>1. SUFFICES ASSUME S # {} PROVE FALSE
  OBVIOUS
<1>2. S \in SUBSET Nat
  OBVIOUS
<1>3. PICK m \in S : \A n \in S : m <= n
  <2> HIDE DEF S
  <2> QED  BY <1>1, <1>2, Least
<1>4. m # 0 /\ m \in Nat /\ m - 1 \in Nat
  BY <1>3
<1>5. m - 1 \in T
  BY <1>3, <1>4
<1>6. (m - 1) + 1 \in T
  BY <1>4, <1>5
<1> QED  BY <1>3, <1>4, <1>6

\* A set of natural numbers that has an upper bound, and is not empty, has a
\* greatest element.
LEMMA Greatest ==
  ASSUME NEW S \in SUBSET Nat, S # {}, NEW u \in Nat, \A n \in S : n <= u
  PROVE  \E m \in S : \A n \in S : n <= m
<1> DEFINE B == {b \in Nat : \A n \in S : n <= b}
<1>1. B \in SUBSET Nat /\ B # {}
  OBVIOUS
<1>2. PICK m \in B : \A b \in B : m <= b
  <2> HIDE DEF B
  <2> QED  BY <1>1, Least
<1>3. m \in S
  <2> SUFFICES ASSUME m \notin S PROVE FALSE
    OBVIOUS
  <2>1. \A n \in S : n < m
    BY <1>2
  <2>2. PICK n \in S : n < m
    BY <2>1
  <2>3. m - 1 \in Nat
    BY <2>2, <1>2
  <2>4. m - 1 \in B
    BY <2>1, <2>3, <1>2
  <2> QED  BY <2>4, <1>2
<1> QED  BY <1>2, <1>3

\* The greatest element is what Max returns.
LEMMA MaxIs ==
  ASSUME NEW S \in SUBSET Nat, NEW m \in S, \A n \in S : n <= m
  PROVE  Max(S) = m
<1>1. \A x \in S : (\A y \in S : x >= y) => x = m
  OBVIOUS
<1>2. \A y \in S : m >= y
  OBVIOUS
<1> QED  BY <1>1, <1>2 DEF Max

LEMMA MaxOfBounded ==
  ASSUME NEW S \in SUBSET Nat, S # {}, NEW u \in Nat, \A n \in S : n <= u
  PROVE  Max(S) \in S /\ \A n \in S : n <= Max(S)
BY Greatest, MaxIs

LEMMA MaxOfTwo ==
  ASSUME NEW a \in Nat, NEW b \in Nat
  PROVE  Max({a, b}) = IF a >= b THEN a ELSE b
<1>1. CASE a >= b
  BY <1>1, MaxIs
<1>2. CASE b > a
  BY <1>2, MaxIs
<1> QED  BY <1>1, <1>2
=============================================================================
