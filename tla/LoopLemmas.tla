----------------------------- MODULE LoopLemmas -----------------------------
(***************************************************************************)
(* Induction along a loop, stated for sets instead of predicates, and      *)
(* division with remainder.                                                *)
(***************************************************************************)
EXTENDS Integers, WellFoundedInduction, TLAPS

\* A set of numbers has a least element.
LEMMA LeastNat ==
  ASSUME NEW T \in SUBSET Nat, T # {}
  PROVE  \E x \in T : \A y \in T : x <= y
<1> DEFINE R == OpToRel(<, Nat)
<1>1. IsWellFoundedOn(R, Nat)
  BY NatLessThanWellFounded
<1>2. R = {ss \in Nat \X Nat : ss[1] < ss[2]}
  BY DEF OpToRel
<1> HIDE DEF R
<1>3. PICK x \in T : \A y \in T : ~ (<<y, x>> \in R)
  BY <1>1, WFMin
<1>4. \A y \in T : x <= y
  <2>1. SUFFICES ASSUME NEW y \in T, ~ x <= y PROVE FALSE
    OBVIOUS
  <2>2. x \in Nat /\ y \in Nat
    OBVIOUS
  <2>3. <<y, x>> \in Nat \X Nat /\ <<y, x>>[1] < <<y, x>>[2]
    BY <2>1, <2>2
  <2>4. <<y, x>> \in R
    BY <1>2, <2>3
  <2>5. QED BY <1>3, <2>4
<1>5. QED BY <1>4

\* What holds before the first round of a loop and survives each round holds
\* after every round.
LEMMA LoopInduction ==
  ASSUME NEW n \in Nat, NEW S, 0 \in S,
         \A k \in 1 .. n : k - 1 \in S => k \in S
  PROVE  \A k \in 0 .. n : k \in S
<1> DEFINE T == {k \in 0 .. n : k \notin S}
<1>1. SUFFICES ASSUME T # {} PROVE FALSE
  OBVIOUS
<1>2. T \in SUBSET Nat
  OBVIOUS
<1>3. PICK x \in T : \A y \in T : x <= y
  BY <1>1, <1>2, LeastNat
<1>4. x \in 1 .. n /\ x - 1 \in 0 .. n /\ ~ x <= x - 1
  BY <1>2, <1>3
<1>5. x - 1 \in S
  BY <1>3, <1>4
<1>6. QED BY <1>3, <1>4, <1>5

\* Quotient and remainder.
LEMMA DivRem ==
  ASSUME NEW b \in Nat \ {0}, NEW n \in Int
  PROVE  /\ n \div b \in Int /\ n % b \in 0 .. b - 1
         /\ n = b * (n \div b) + (n % b)
OBVIOUS

\* A number is determined by its remainder and its quotient.
LEMMA DivMod ==
  ASSUME NEW b \in Nat \ {0}, NEW x \in 0 .. b - 1, NEW y \in Nat
  PROVE  (x + b * y) % b = x /\ (x + b * y) \div b = y
<1> DEFINE n == x + b * y
           q == n \div b
           r == n % b
<1>1. b * y \in Nat
  OBVIOUS
<1>2. n \in Nat
  BY <1>1
<1>3. q \in Int /\ r \in 0 .. b - 1 /\ n = b * q + r
  BY <1>2
<1> HIDE DEF q, r
<1>4. b * (y - q) = r - x
  BY <1>3
<1>5. CASE y - q >= 1
  <2>1. b * (y - q) >= b
    BY <1>3, <1>5
  <2>2. QED BY <1>3, <1>4, <2>1
<1>6. CASE y - q <= -1
  <2>1. b * (y - q) <= -b
    BY <1>3, <1>6
  <2>2. QED BY <1>3, <1>4, <2>1
<1>7. CASE y = q
  <2>1. r = x
    BY <1>3, <1>7
  <2>2. QED BY <1>7, <2>1 DEF q, r
<1>8. QED BY <1>3, <1>5, <1>6, <1>7

LEMMA ModDiv ==
  ASSUME NEW b \in Nat \ {0}, NEW c \in Nat \ {0}, NEW n \in 0 .. b * c - 1
  PROVE  /\ n % b \in 0 .. b - 1 /\ n \div b \in 0 .. c - 1
         /\ (n % b) + b * (n \div b) = n
<1> DEFINE q == n \div b
           r == n % b
<1>0. b * c \in Nat /\ n \in Nat
  OBVIOUS
<1>1. q \in Int /\ r \in 0 .. b - 1 /\ n = b * q + r
  BY <1>0
<1> HIDE DEF q, r
<1>2. q >= 0
  <2>1. SUFFICES ASSUME q <= -1 PROVE FALSE
    BY <1>1
  <2>2. b * q <= -b
    BY <1>1, <2>1
  <2>3. QED BY <1>0, <1>1, <2>2
<1>3. q < c
  <2>1. SUFFICES ASSUME q >= c PROVE FALSE
    BY <1>1
  <2>2. b * q >= b * c
    BY <1>1, <2>1
  <2>3. QED BY <1>0, <1>1, <2>2
<1>4. QED BY <1>0, <1>1, <1>2, <1>3 DEF q, r
=============================================================================
