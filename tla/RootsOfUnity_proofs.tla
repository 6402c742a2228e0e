------------------------- MODULE RootsOfUnity_proofs -------------------------
(***************************************************************************)
(* Proofs about the points at which the native prover evaluates, for every *)
(* number of roots of unity and every size of the domain.                  *)
(***************************************************************************)
EXTENDS RootsOfUnity, LoopLemmas, TLAPS

----------------------------------------------------------------------------
(***************************************************************************)
(* Powers of two.                                                          *)
(***************************************************************************)

LEMMA Pow2Def ==
  Pow2 = [k \in 0 .. TWO_ADICITY + 1 |-> IF k = 0 THEN 1 ELSE 2 * Pow2[k - 1]]
<1> DEFINE n == TWO_ADICITY + 1
           Round(f, k) == IF k = 0 THEN 1 ELSE 2 * f[k - 1]
           Some == {m \in 0 .. n : \E f : f = [k \in 0 .. m |-> Round(f, k)]}
<1>0. n \in Nat
  BY MaxDomainAssumption
<1> HIDE DEF n
<1>1. \E f : f = [k \in 0 .. 0 |-> Round(f, k)]
  <2> DEFINE f == [k \in 0 .. 0 |-> 1]
  <2>1. f = [k \in 0 .. 0 |-> Round(f, k)]
    OBVIOUS
  <2> HIDE DEF f, Round
  <2>2. QED BY <2>1
<1>2. ASSUME NEW m \in 1 .. n,
             \E f : f = [k \in 0 .. m - 1 |-> Round(f, k)]
      PROVE  \E f : f = [k \in 0 .. m |-> Round(f, k)]
  <2>1. PICK g : g = [k \in 0 .. m - 1 |-> Round(g, k)]
    BY <1>2
  <2> DEFINE last == Round(g, m)
             f == [k \in 0 .. m |-> IF k = m THEN last ELSE g[k]]
  <2>2. \A k \in 0 .. m : f[k] = Round(f, k)
    <3> TAKE k \in 0 .. m
    <3>1. CASE k = m
      <4>1. f[m - 1] = g[m - 1] /\ f[m] = last
        OBVIOUS
      <4>2. QED BY <3>1, <4>1
    <3>2. CASE k # m
      <4>1. k \in 0 .. m - 1 /\ f[k] = g[k]
        BY <3>2
      <4>2. g[k] = Round(g, k)
        BY <2>1, <4>1
      <4>3. k # 0 => f[k - 1] = g[k - 1]
        BY <4>1
      <4>4. QED BY <4>1, <4>2, <4>3
    <3>3. QED BY <3>1, <3>2
  <2>3. f = [k \in 0 .. m |-> f[k]]
    OBVIOUS
  <2> HIDE DEF f, Round
  <2>4. f = [k \in 0 .. m |-> Round(f, k)]
    BY <2>2, <2>3
  <2>5. QED BY <2>4
<1> HIDE DEF Round
<1>3. \A k \in 0 .. n : k \in Some
  <2>1. 0 \in Some
    BY <1>0, <1>1
  <2>2. \A k \in 1 .. n : k - 1 \in Some => k \in Some
    BY <1>0, <1>2
  <2> HIDE DEF Some
  <2>3. QED BY <1>0, <2>1, <2>2, LoopInduction
<1>4. \E f : f = [k \in 0 .. n |-> Round(f, k)]
  BY <1>0, <1>3
<1> USE DEF Round, n
<1>5. Pow2 = [k \in 0 .. n |-> Round(Pow2, k)]
  BY <1>4 DEF Pow2
<1>6. QED BY <1>5

LEMMA Pow2Rounds ==
  /\ TWO_ADICITY \in Nat
  /\ Pow2[0] = 1
  /\ \A k \in 1 .. TWO_ADICITY + 1 : Pow2[k] = 2 * Pow2[k - 1]
  /\ \A k \in 0 .. TWO_ADICITY + 1 : Pow2[k] \in Nat \ {0}
<1> DEFINE n == TWO_ADICITY + 1
           P == Pow2
           S == {k \in 0 .. n : P[k] \in Nat \ {0}}
<1>1. TWO_ADICITY \in Nat /\ n \in Nat
  BY MaxDomainAssumption
<1>2. P = [k \in 0 .. n |-> IF k = 0 THEN 1 ELSE 2 * P[k - 1]]
  BY Pow2Def
<1> HIDE DEF P, n
<1>3. P[0] = 1 /\ \A k \in 1 .. n : P[k] = 2 * P[k - 1]
  BY <1>1, <1>2
<1>4. 0 \in S
  BY <1>1, <1>3
<1>5. ASSUME NEW k \in 1 .. n, k - 1 \in S PROVE k \in S
  BY <1>1, <1>3, <1>5
<1> HIDE DEF S
<1>6. \A k \in 0 .. n : k \in S
  BY <1>1, <1>4, <1>5, LoopInduction
<1>7. \A k \in 0 .. n : P[k] \in Nat \ {0}
  BY <1>6 DEF S
<1>8. QED BY <1>1, <1>3, <1>7 DEF P, n

LEMMA Pow2Grows ==
  \A k \in 0 .. TWO_ADICITY + 1 : \A j \in 0 .. k - 1 : Pow2[j] < Pow2[k]
<1> DEFINE n == TWO_ADICITY + 1
           S == {k \in 0 .. n : \A j \in 0 .. k - 1 : Pow2[j] < Pow2[k]}
<1>1. /\ n \in Nat
      /\ \A k \in 1 .. n : Pow2[k] = 2 * Pow2[k - 1]
      /\ \A k \in 0 .. n : Pow2[k] \in Nat \ {0}
  BY Pow2Rounds
<1> HIDE DEF n
<1>2. 0 \in S
  BY <1>1
<1>3. ASSUME NEW k \in 1 .. n, k - 1 \in S PROVE k \in S
  <2>1. k - 1 \in 0 .. n /\ k \in 0 .. n
    BY <1>1
  <2>2. Pow2[k - 1] \in Nat \ {0} /\ Pow2[k] = 2 * Pow2[k - 1]
    BY <1>1, <2>1
  <2>3. Pow2[k - 1] < Pow2[k] /\ Pow2[k] \in Nat
    BY <2>2
  <2>4. ASSUME NEW j \in 0 .. k - 1 PROVE Pow2[j] < Pow2[k]
    <3>1. CASE j = k - 1
      BY <2>3, <3>1
    <3>2. CASE j # k - 1
      <4>1. j \in 0 .. (k - 1) - 1 /\ j \in 0 .. n
        BY <1>1, <3>2
      <4>2. Pow2[j] < Pow2[k - 1] /\ Pow2[j] \in Nat
        BY <1>1, <1>3, <4>1
      <4>3. QED BY <2>2, <2>3, <4>2
    <3>3. QED BY <3>1, <3>2
  <2>5. QED BY <2>1, <2>4
<1> HIDE DEF S
<1>4. \A k \in 0 .. n : k \in S
  BY <1>1, <1>2, <1>3, LoopInduction
<1>5. QED BY <1>4 DEF S, n

LEMMA Pow2Sum ==
  ASSUME NEW a \in 0 .. TWO_ADICITY + 1
  PROVE  \A b \in 0 .. TWO_ADICITY + 1 - a : Pow2[a + b] = Pow2[a] * Pow2[b]
<1> DEFINE n == TWO_ADICITY + 1 - a
           S == {b \in 0 .. n : Pow2[a + b] = Pow2[a] * Pow2[b]}
<1>1. /\ n \in Nat /\ Pow2[0] = 1
      /\ \A k \in 1 .. TWO_ADICITY + 1 : Pow2[k] = 2 * Pow2[k - 1]
      /\ \A k \in 0 .. TWO_ADICITY + 1 : Pow2[k] \in Nat \ {0}
      /\ TWO_ADICITY \in Nat
  BY Pow2Rounds
<1>2. 0 \in S
  <2>1. Pow2[a] \in Nat /\ a + 0 = a
    BY <1>1
  <2>2. QED BY <1>1, <2>1
<1>3. ASSUME NEW b \in 1 .. n, b - 1 \in S PROVE b \in S
  <2>1. /\ a + b \in 1 .. TWO_ADICITY + 1 /\ (a + b) - 1 = a + (b - 1)
        /\ b \in 1 .. TWO_ADICITY + 1 /\ b - 1 \in 0 .. TWO_ADICITY + 1 /\ b \in 0 .. n
    BY <1>1
  <2> DEFINE x == Pow2[a]
             y == Pow2[b - 1]
  <2>2. x \in Nat /\ y \in Nat
    BY <1>1, <2>1
  <2>3. Pow2[a + b] = 2 * Pow2[a + (b - 1)] /\ Pow2[b] = 2 * y
    BY <1>1, <2>1
  <2>4. Pow2[a + (b - 1)] = x * y
    BY <1>3
  <2> HIDE DEF x, y
  <2>5. 2 * (x * y) = x * (2 * y)
    BY <2>2
  <2>6. Pow2[a + b] = x * Pow2[b]
    BY <2>3, <2>4, <2>5
  <2>7. QED BY <2>1, <2>6 DEF x
<1> HIDE DEF S, n
<1>4. \A b \in 0 .. n : b \in S
  BY <1>1, <1>2, <1>3, LoopInduction
<1>5. QED BY <1>4 DEF S, n
----------------------------------------------------------------------------
(***************************************************************************)
(* The logarithm of a size and the factors 2 it has.                       *)
(***************************************************************************)

LEMMA ZeroMod ==
  ASSUME NEW b \in Nat \ {0}, NEW n \in Nat
  PROVE  /\ \A y \in Nat : n = b * y => n % b = 0
         /\ n % b = 0 => \E y \in Nat : n = b * y
         /\ n < b => n % b = n
<1>1. ASSUME NEW y \in Nat, n = b * y PROVE n % b = 0
  <2>1. 0 \in 0 .. b - 1
    OBVIOUS
  <2>2. (0 + b * y) % b = 0
    BY <2>1, DivMod
  <2>3. 0 + b * y = n
    BY <1>1
  <2>4. QED BY <2>2, <2>3
<1>2. ASSUME n % b = 0 PROVE \E y \in Nat : n = b * y
  <2> DEFINE q == n \div b
  <2>1. q \in Int /\ n = b * q + (n % b)
    OBVIOUS
  <2> HIDE DEF q
  <2>2. n = b * q
    BY <1>2, <2>1
  <2>3. q >= 0
    <3>1. SUFFICES ASSUME q <= -1 PROVE FALSE
      BY <2>1
    <3>2. b * q <= -b
      BY <2>1, <3>1
    <3>3. QED BY <2>2, <3>2
  <2>4. QED BY <2>1, <2>2, <2>3
<1>3. n < b => n % b = n
  OBVIOUS
<1>4. QED BY <1>1, <1>2, <1>3

LEMMA LogUpFacts ==
  ASSUME NEW n \in 1 .. MAX_DOMAIN
  PROVE  /\ LogUp(n) \in 0 .. TWO_ADICITY
         /\ n <= Pow2[LogUp(n)]
         /\ LogUp(n) > 0 => n > Pow2[LogUp(n) - 1]
<1> DEFINE T == {k \in 0 .. TWO_ADICITY : n <= Pow2[k]}
<1>1. /\ TWO_ADICITY \in Nat /\ n \in Nat /\ MAX_DOMAIN = Pow2[TWO_ADICITY]
      /\ \A k \in 0 .. TWO_ADICITY + 1 : Pow2[k] \in Nat
  BY Pow2Rounds, MaxDomainAssumption
<1>2. TWO_ADICITY \in T /\ T \in SUBSET Nat
  BY <1>1
<1>3. PICK k \in T : \A j \in T : k <= j
  BY <1>2, LeastNat
<1>4. k \in 0 .. TWO_ADICITY /\ n <= Pow2[k]
  BY <1>3
<1>5. ASSUME k > 0 PROVE n > Pow2[k - 1]
  <2>1. k - 1 \in 0 .. TWO_ADICITY /\ ~ k <= k - 1
    BY <1>1, <1>4, <1>5
  <2>2. k - 1 \notin T
    BY <1>3, <2>1
  <2>3. ~ n <= Pow2[k - 1] /\ Pow2[k - 1] \in Nat
    BY <1>1, <2>1, <2>2
  <2>4. QED BY <1>1, <2>3
<1> HIDE DEF T
<1>6. \E l \in 0 .. TWO_ADICITY : n <= Pow2[l] /\ (l > 0 => n > Pow2[l - 1])
  BY <1>4, <1>5
<1>7. QED BY <1>6 DEF LogUp

LEMMA TrailingZerosFacts ==
  ASSUME NEW n \in 1 .. MAX_DOMAIN
  PROVE  /\ TrailingZeros(n) \in 0 .. TWO_ADICITY
         /\ n % Pow2[TrailingZeros(n)] = 0
         /\ n % Pow2[TrailingZeros(n) + 1] # 0
<1> DEFINE T == {k \in 0 .. TWO_ADICITY : n % Pow2[k + 1] # 0}
<1>1. /\ TWO_ADICITY \in Nat /\ n \in Nat /\ n > 0 /\ n <= Pow2[TWO_ADICITY]
      /\ Pow2[0] = 1
      /\ \A k \in 0 .. TWO_ADICITY + 1 : Pow2[k] \in Nat \ {0}
  BY Pow2Rounds, MaxDomainAssumption
<1>2. TWO_ADICITY \in T /\ T \in SUBSET Nat
  <2>1. TWO_ADICITY + 1 \in 0 .. TWO_ADICITY + 1
        /\ TWO_ADICITY \in 0 .. (TWO_ADICITY + 1) - 1
        /\ TWO_ADICITY \in 0 .. TWO_ADICITY + 1
    BY <1>1
  <2>2. Pow2[TWO_ADICITY] < Pow2[TWO_ADICITY + 1]
    BY <2>1, Pow2Grows
  <2>3. Pow2[TWO_ADICITY] \in Nat /\ Pow2[TWO_ADICITY + 1] \in Nat \ {0}
    BY <1>1, <2>1
  <2>4. n < Pow2[TWO_ADICITY + 1]
    BY <1>1, <2>2, <2>3
  <2>5. n % Pow2[TWO_ADICITY + 1] = n
    BY <1>1, <2>3, <2>4, ZeroMod
  <2>6. QED BY <1>1, <2>5
<1>3. PICK k \in T : \A j \in T : k <= j
  BY <1>2, LeastNat
<1>4. k \in 0 .. TWO_ADICITY /\ n % Pow2[k + 1] # 0
  BY <1>3
<1>5. n % Pow2[k] = 0
  <2>1. CASE k = 0
    <3>1. n = 1 * n /\ 1 \in Nat \ {0}
      BY <1>1
    <3>2. n % 1 = 0
      BY <1>1, <3>1, ZeroMod
    <3>3. QED BY <1>1, <2>1, <3>2
  <2>2. CASE k > 0
    <3>1. k - 1 \in 0 .. TWO_ADICITY /\ ~ k <= k - 1 /\ (k - 1) + 1 = k
      BY <1>1, <1>4, <2>2
    <3>2. k - 1 \notin T
      BY <1>3, <3>1
    <3>3. ~ n % Pow2[(k - 1) + 1] # 0
      BY <3>1, <3>2
    <3>4. QED BY <3>1, <3>3
  <2>3. QED BY <1>4, <2>1, <2>2
<1> HIDE DEF T
<1>6. \E l \in 0 .. TWO_ADICITY : n % Pow2[l] = 0 /\ n % Pow2[l + 1] # 0
  BY <1>4, <1>5
<1>7. QED BY <1>6 DEF TrailingZeros

\* A power of two is its own next power, and has its exponent's factors.
LEMMA PowerOfTwo ==
  ASSUME NEW k \in 0 .. TWO_ADICITY
  PROVE  /\ Pow2[k] \in 1 .. MAX_DOMAIN
         /\ LogUp(Pow2[k]) = k /\ TrailingZeros(Pow2[k]) = k
<1> DEFINE n == Pow2[k]
           l == LogUp(n)
           z == TrailingZeros(n)
<1>1. /\ TWO_ADICITY \in Nat /\ MAX_DOMAIN = Pow2[TWO_ADICITY] /\ k \in Nat
      /\ \A j \in 0 .. TWO_ADICITY + 1 : Pow2[j] \in Nat \ {0}
      /\ k \in 0 .. TWO_ADICITY + 1 /\ TWO_ADICITY \in 0 .. TWO_ADICITY + 1
  BY Pow2Rounds, MaxDomainAssumption
<1>2. \A i \in 0 .. TWO_ADICITY + 1 : \A j \in 0 .. i - 1 : Pow2[j] < Pow2[i]
  BY Pow2Grows
<1>3. n \in 1 .. MAX_DOMAIN
  <2>1. n \in Nat /\ n > 0 /\ MAX_DOMAIN \in Nat
    BY <1>1
  <2>2. CASE k = TWO_ADICITY
    BY <1>1, <2>1, <2>2
  <2>3. CASE k # TWO_ADICITY
    <3>1. k \in 0 .. TWO_ADICITY - 1
      BY <1>1, <2>3
    <3>2. n < Pow2[TWO_ADICITY]
      BY <1>1, <1>2, <3>1
    <3>3. QED BY <1>1, <2>1, <3>2
  <2>4. QED BY <2>2, <2>3
<1>4. /\ l \in 0 .. TWO_ADICITY /\ n <= Pow2[l] /\ (l > 0 => n > Pow2[l - 1])
  BY <1>3, LogUpFacts
<1>5. /\ z \in 0 .. TWO_ADICITY /\ n % Pow2[z] = 0 /\ n % Pow2[z + 1] # 0
  BY <1>3, TrailingZerosFacts
<1> HIDE DEF l, z
<1>6. l = k
  <2>1. ASSUME l < k PROVE FALSE
    <3>1. l \in 0 .. k - 1 /\ l \in 0 .. TWO_ADICITY + 1
      BY <1>1, <1>4, <2>1
    <3>2. Pow2[l] < n /\ Pow2[l] \in Nat /\ n \in Nat
      BY <1>1, <1>2, <3>1
    <3>3. QED BY <1>4, <3>2
  <2>2. ASSUME l > k PROVE FALSE
    <3>1. l - 1 \in 0 .. TWO_ADICITY + 1 /\ l > 0 /\ (k = l - 1 \/ k \in 0 .. (l - 1) - 1)
      BY <1>1, <1>4, <2>2
    <3>2. n <= Pow2[l - 1] /\ Pow2[l - 1] \in Nat /\ n \in Nat
      <4>1. Pow2[l - 1] \in Nat /\ n \in Nat
        BY <1>1, <3>1
      <4>2. CASE k = l - 1
        BY <4>1, <4>2
      <4>3. CASE k \in 0 .. (l - 1) - 1
        BY <1>2, <3>1, <4>1, <4>3
      <4>4. QED BY <3>1, <4>1, <4>2, <4>3
    <3>3. QED BY <1>4, <3>1, <3>2
  <2>3. QED BY <1>1, <1>4, <2>1, <2>2
<1>7. z = k
  <2>1. ASSUME z < k PROVE FALSE
    <3>1. /\ z + 1 \in 0 .. TWO_ADICITY + 1
          /\ k - (z + 1) \in 0 .. TWO_ADICITY + 1 - (z + 1)
          /\ k - (z + 1) \in 0 .. TWO_ADICITY + 1
          /\ (z + 1) + (k - (z + 1)) = k
      BY <1>1, <1>5, <2>1
    <3>2. n = Pow2[z + 1] * Pow2[k - (z + 1)]
      BY <3>1, Pow2Sum
    <3>3. Pow2[z + 1] \in Nat \ {0} /\ Pow2[k - (z + 1)] \in Nat /\ n \in Nat
      BY <1>1, <3>1
    <3> HIDE DEF n
    <3>4. n % Pow2[z + 1] = 0
      BY <3>2, <3>3, ZeroMod
    <3>5. QED BY <1>5, <3>4
  <2>2. ASSUME z > k PROVE FALSE
    <3>1. k \in 0 .. z - 1 /\ z \in 0 .. TWO_ADICITY + 1
      BY <1>1, <1>5, <2>2
    <3>2. n < Pow2[z] /\ Pow2[z] \in Nat \ {0} /\ n \in Nat \ {0}
      BY <1>1, <1>2, <3>1
    <3>3. n % Pow2[z] = n
      BY <3>2, ZeroMod
    <3>4. QED BY <1>5, <3>2, <3>3
  <2>3. QED BY <1>1, <1>5, <2>1, <2>2
<1>8. QED BY <1>3, <1>6, <1>7 DEF l, z
----------------------------------------------------------------------------
(***************************************************************************)
(* The domain and the coset.                                               *)
(***************************************************************************)

\* Squaring the root often enough gives the root of a smaller group.
LEMMA SquaredOnce ==
  ASSUME NEW t \in 0 .. TWO_ADICITY
  PROVE  /\ t < TWO_ADICITY => Squared(1, t) = Pow2[t]
         /\ t = TWO_ADICITY => Squared(1, t) = 0
<1>1. /\ TWO_ADICITY \in Nat /\ MAX_DOMAIN = Pow2[TWO_ADICITY]
      /\ Pow2[t] \in Nat /\ MAX_DOMAIN \in Nat \ {0}
      /\ Squared(1, t) = (1 * Pow2[t]) % MAX_DOMAIN
  BY Pow2Rounds, MaxDomainAssumption DEF Squared
<1>2. Squared(1, t) = Pow2[t] % MAX_DOMAIN
  <2>1. 1 * Pow2[t] = Pow2[t]
    BY <1>1
  <2>2. QED BY <1>1, <2>1
<1>3. ASSUME t < TWO_ADICITY PROVE Squared(1, t) = Pow2[t]
  <2>1. t \in 0 .. TWO_ADICITY - 1 /\ TWO_ADICITY \in 0 .. TWO_ADICITY + 1
    BY <1>1, <1>3
  <2>2. Pow2[t] < MAX_DOMAIN
    BY <1>1, <2>1, Pow2Grows
  <2>3. QED BY <1>1, <1>2, <2>2, ZeroMod
<1>4. ASSUME t = TWO_ADICITY PROVE Squared(1, t) = 0
  <2>1. MAX_DOMAIN = MAX_DOMAIN * 1
    BY <1>1
  <2>2. MAX_DOMAIN % MAX_DOMAIN = 0
    BY <1>1, <2>1, ZeroMod
  <2>3. QED BY <1>1, <1>2, <1>4, <2>2
<1>5. QED BY <1>3, <1>4

\* The remainder of a multiple, by a multiple, is a multiple.
LEMMA MultiplesModulo ==
  ASSUME NEW b \in Nat \ {0}, NEW w \in Nat \ {0}, NEW c \in Int
  PROVE  /\ (b * c) % (b * w) \in 0 .. b * w - 1
         /\ \E d \in Int : (b * c) % (b * w) = b * d
<1> DEFINE m == b * w
           n == b * c
           q == n \div m
           r == n % m
<1>1. m \in Nat \ {0} /\ n \in Int
  <2>1. m \in Nat /\ m > 0 /\ n \in Int
    OBVIOUS
  <2>2. QED BY <2>1
<1> HIDE DEF m, n
<1>2. q \in Int /\ r \in 0 .. m - 1 /\ n = m * q + r
  BY <1>1
<1> HIDE DEF q, r
<1>3. m * q = b * (w * q) /\ w * q \in Int
  BY <1>2 DEF m
<1>4. r = b * (c - w * q)
  <2> DEFINE wq == w * q
  <2>1. n - b * wq = b * (c - wq)
    <3> HIDE DEF wq
    <3>1. wq \in Int
      BY <1>3 DEF wq
    <3>2. QED BY <3>1 DEF n
  <2>2. r = n - m * q
    <3>1. m * q \in Int
      BY <1>1, <1>2
    <3> DEFINE mq == m * q
    <3> HIDE DEF mq
    <3>2. QED BY <1>1, <1>2, <3>1 DEF mq
  <2>3. QED BY <1>3, <2>1, <2>2
<1>5. c - w * q \in Int
  BY <1>3
<1>6. QED BY <1>2, <1>4, <1>5 DEF r, n, m

\* The domain of a power of two that is not the largest: the multiples of twice
\* the shift, which is itself none.
LEMMA CosetOfPowerOfTwo ==
  ASSUME NEW k \in 0 .. TWO_ADICITY - 1
  PROVE  CosetPoints(Pow2[k]) \cap DomainPoints(Pow2[k]) = {}
<1> DEFINE n == Pow2[k]
           shift == Pow2[TWO_ADICITY - (k + 1)]
           unit == Pow2[TWO_ADICITY - k]
           w == Pow2[k]
           gen == Squared(1, TWO_ADICITY - k)
<1>1. /\ TWO_ADICITY \in Nat /\ k \in Nat /\ k \in 0 .. TWO_ADICITY
      /\ MAX_DOMAIN = Pow2[TWO_ADICITY]
      /\ \A j \in 0 .. TWO_ADICITY + 1 : Pow2[j] \in Nat \ {0}
      /\ \A j \in 1 .. TWO_ADICITY + 1 : Pow2[j] = 2 * Pow2[j - 1]
  BY Pow2Rounds, MaxDomainAssumption
<1>2. n \in 1 .. MAX_DOMAIN /\ LogUp(n) = k /\ TrailingZeros(n) = k
  BY <1>1, PowerOfTwo
<1>3. shift \in Nat \ {0} /\ unit = 2 * shift /\ unit \in Nat \ {0} /\ w \in Nat \ {0}
  <2>1. /\ TWO_ADICITY - k \in 1 .. TWO_ADICITY + 1
        /\ TWO_ADICITY - k \in 0 .. TWO_ADICITY + 1
        /\ TWO_ADICITY - (k + 1) \in 0 .. TWO_ADICITY + 1
        /\ k \in 0 .. TWO_ADICITY + 1
        /\ (TWO_ADICITY - k) - 1 = TWO_ADICITY - (k + 1)
    BY <1>1
  <2>2. QED BY <1>1, <2>1
<1>4. MAX_DOMAIN = unit * w
  <2>1. /\ TWO_ADICITY - k \in 0 .. TWO_ADICITY + 1
        /\ k \in 0 .. TWO_ADICITY + 1 - (TWO_ADICITY - k)
        /\ (TWO_ADICITY - k) + k = TWO_ADICITY
    BY <1>1
  <2>2. Pow2[(TWO_ADICITY - k) + k] = Pow2[TWO_ADICITY - k] * Pow2[k]
    BY <2>1, Pow2Sum
  <2>3. QED BY <1>1, <2>1, <2>2
<1>5. CosetShift(n) = shift /\ shift # MAX_DOMAIN
  <2>1. TWO_ADICITY - (k + 1) \in 0 .. TWO_ADICITY - 1 /\ k # TWO_ADICITY
        /\ TWO_ADICITY - (k + 1) \in 0 .. TWO_ADICITY
        /\ TWO_ADICITY \in 0 .. TWO_ADICITY + 1
    BY <1>1
  <2>2. Squared(1, TWO_ADICITY - (k + 1)) = shift
    BY <2>1, SquaredOnce
  <2>3. Pow2[TWO_ADICITY - (k + 1)] < Pow2[TWO_ADICITY]
    BY <2>1, Pow2Grows
  <2>4. shift # MAX_DOMAIN
    BY <1>1, <1>3, <2>3
  <2>5. QED BY <1>2, <2>1, <2>2, <2>4 DEF CosetShift
<1>6. gen = 0 \/ gen = unit
  <2>1. TWO_ADICITY - k \in 0 .. TWO_ADICITY
    BY <1>1
  <2>2. QED BY <1>1, <2>1, SquaredOnce
<1>7. DomainPoints(n) = {(a * gen) % MAX_DOMAIN : a \in 0 .. Pow2[k] - 1}
  BY <1>2 DEF DomainPoints
<1> HIDE DEF n, shift, unit, w, gen
<1>8. \A e \in DomainPoints(n) : \E d \in Int : e = unit * d
  <2>1. SUFFICES ASSUME NEW a \in 0 .. Pow2[k] - 1
        PROVE  \E d \in Int : (a * gen) % MAX_DOMAIN = unit * d
    BY <1>7
  <2>2. a \in Int
    OBVIOUS
  <2>3. \E c \in Int : a * gen = unit * c
    <3>1. CASE gen = 0
      <4>1. a * gen = unit * 0
        BY <1>3, <2>2, <3>1
      <4>2. QED BY <4>1
    <3>2. CASE gen = unit
      <4>1. a * gen = unit * a
        BY <1>3, <2>2, <3>2
      <4>2. QED BY <2>2, <4>1
    <3>3. QED BY <1>6, <3>1, <3>2
  <2>4. PICK c \in Int : a * gen = unit * c
    BY <2>3
  <2>5. \E d \in Int : (unit * c) % (unit * w) = unit * d
    BY <1>3, MultiplesModulo
  <2>6. QED BY <1>4, <2>4, <2>5
<1>9. \A e \in CosetPoints(n) : \E d \in Int : e = shift * (1 + 2 * d)
  <2>1. CosetPoints(n) = {(shift + e) % MAX_DOMAIN : e \in DomainPoints(n)}
    BY <1>5 DEF CosetPoints
  <2>2. SUFFICES ASSUME NEW e \in DomainPoints(n)
        PROVE  \E d \in Int : (shift + e) % MAX_DOMAIN = shift * (1 + 2 * d)
    BY <2>1
  <2>3. PICK c \in Int : e = unit * c
    BY <1>8
  <2> DEFINE s == shift + e
             q == s \div MAX_DOMAIN
             r == s % MAX_DOMAIN
             wq == w * q
  <2>4. s \in Int /\ s = shift * (1 + 2 * c)
    <3>1. e = shift * (2 * c)
      BY <1>3, <2>3
    <3>2. QED BY <1>3, <3>1
  <2>5. MAX_DOMAIN \in Nat \ {0}
    <3>1. TWO_ADICITY \in 0 .. TWO_ADICITY + 1
      BY <1>1
    <3>2. QED BY <1>1, <3>1
  <2> HIDE DEF s
  <2>6. q \in Int /\ s = MAX_DOMAIN * q + r /\ r \in Int
    <3>1. q \in Int /\ s = MAX_DOMAIN * q + r /\ r \in 0 .. MAX_DOMAIN - 1
      BY <2>4, <2>5, DivRem
    <3> HIDE DEF q, r
    <3>2. QED BY <2>5, <3>1
  <2> HIDE DEF q, r
  <2>7. wq \in Int
    BY <1>3, <2>6
  <2>8. MAX_DOMAIN * q = unit * wq
    BY <1>3, <1>4, <2>6
  <2> HIDE DEF wq
  <2>9. unit * wq = shift * (2 * wq)
    BY <1>3, <2>7
  <2>10. r = s - shift * (2 * wq)
    <3> DEFINE x == shift * (2 * wq)
    <3>1. x \in Int /\ MAX_DOMAIN * q = x
      BY <1>3, <2>7, <2>8, <2>9
    <3> HIDE DEF x
    <3>2. r = s - x
      BY <2>4, <2>6, <3>1
    <3>3. QED BY <3>2 DEF x
  <2>11. shift * (1 + 2 * c) - shift * (2 * wq) = shift * (1 + 2 * (c - wq))
    BY <1>3, <2>7
  <2>12. c - wq \in Int /\ r = shift * (1 + 2 * (c - wq))
    BY <2>4, <2>7, <2>10, <2>11
  <2>13. \E d \in Int : r = shift * (1 + 2 * d)
    BY <2>12
  <2>14. QED BY <2>13 DEF r, s
<1>10. ASSUME NEW e \in CosetPoints(n) \cap DomainPoints(n) PROVE FALSE
  <2>1. PICK c \in Int : e = shift * (1 + 2 * c)
    BY <1>9
  <2>2. PICK d \in Int : e = unit * d
    BY <1>8
  <2> DEFINE x == 1 + 2 * c - 2 * d
  <2>3. e = shift * (2 * d)
    BY <1>3, <2>2
  <2>4. x \in Int /\ shift * x = 0
    BY <1>3, <2>1, <2>3
  <2> HIDE DEF x
  <2>5. x = 0
    BY <1>3, <2>4
  <2>6. QED BY <2>5 DEF x
<1>11. QED BY <1>10 DEF n
\* The points of the domain are roots of unity.
LEMMA DomainPointsAreRoots ==
  ASSUME NEW n \in 1 .. MAX_DOMAIN
  PROVE  /\ MAX_DOMAIN \notin DomainPoints(n)
         /\ 0 \in DomainPoints(n)
<1> DEFINE l == LogUp(n)
           gen == Squared(1, TWO_ADICITY - l)
<1>1. /\ l \in 0 .. TWO_ADICITY /\ TWO_ADICITY \in Nat
      /\ TWO_ADICITY - l \in 0 .. TWO_ADICITY
      /\ \A j \in 0 .. TWO_ADICITY + 1 : Pow2[j] \in Nat \ {0}
      /\ MAX_DOMAIN = Pow2[TWO_ADICITY]
  BY LogUpFacts, Pow2Rounds, MaxDomainAssumption
<1>2. MAX_DOMAIN \in Nat \ {0} /\ Pow2[l] \in Nat \ {0}
  BY <1>1
<1>3. gen \in Nat
  <2>1. gen = 0 \/ gen = Pow2[TWO_ADICITY - l]
    BY <1>1, SquaredOnce
  <2>2. Pow2[TWO_ADICITY - l] \in Nat
    BY <1>1
  <2>3. QED BY <2>1, <2>2
<1>4. DomainPoints(n) = {(a * gen) % MAX_DOMAIN : a \in 0 .. Pow2[l] - 1}
  BY DEF DomainPoints
<1> HIDE DEF l, gen
<1>5. ASSUME NEW a \in 0 .. Pow2[l] - 1 PROVE (a * gen) % MAX_DOMAIN # MAX_DOMAIN
  <2>1. a * gen \in Int
    BY <1>3
  <2> DEFINE x == a * gen
  <2> HIDE DEF x
  <2>2. x % MAX_DOMAIN \in 0 .. MAX_DOMAIN - 1
    BY <1>2, <2>1, DivRem DEF x
  <2>3. x % MAX_DOMAIN # MAX_DOMAIN
    BY <1>2, <2>2
  <2>4. QED BY <2>3 DEF x
<1>6. MAX_DOMAIN \notin DomainPoints(n)
  BY <1>4, <1>5
<1>7. 0 \in DomainPoints(n)
  <2>1. 0 \in 0 .. Pow2[l] - 1 /\ 0 * gen = 0 /\ 0 = MAX_DOMAIN * 0
    BY <1>2, <1>3
  <2>2. 0 % MAX_DOMAIN = 0
    BY <1>2, <2>1, ZeroMod
  <2>3. \E a \in 0 .. Pow2[l] - 1 : (a * gen) % MAX_DOMAIN = 0
    BY <2>1, <2>2
  <2>4. QED BY <1>4, <2>3
<1>8. QED BY <1>6, <1>7

\* Of any other size the shift is itself a point of the domain.
LEMMA CosetMeetsDomain ==
  ASSUME NEW n \in 1 .. MAX_DOMAIN, \A k \in 0 .. TWO_ADICITY : n # Pow2[k]
  PROVE  CosetPoints(n) \cap DomainPoints(n) # {}
<1> DEFINE l == LogUp(n)
           z == TrailingZeros(n)
           shift == Pow2[TWO_ADICITY - (z + 1)]
           gen == Squared(1, TWO_ADICITY - l)
<1>1. /\ TWO_ADICITY \in Nat /\ MAX_DOMAIN = Pow2[TWO_ADICITY] /\ Pow2[0] = 1
      /\ \A j \in 0 .. TWO_ADICITY + 1 : Pow2[j] \in Nat \ {0}
      /\ n \in Nat \ {0}
  BY Pow2Rounds, MaxDomainAssumption
<1>2. l \in 0 .. TWO_ADICITY /\ n <= Pow2[l]
  BY LogUpFacts
<1>3. z \in 0 .. TWO_ADICITY /\ n % Pow2[z] = 0
  BY TrailingZerosFacts
<1>4. DomainPoints(n) = {(a * gen) % MAX_DOMAIN : a \in 0 .. Pow2[l] - 1}
  BY DEF DomainPoints
<1>5. z = TWO_ADICITY \/ CosetShift(n) = Squared(1, TWO_ADICITY - (z + 1))
  BY DEF CosetShift
<1> HIDE DEF l, z
<1>6. z < l
  <2>1. SUFFICES ASSUME l <= z PROVE FALSE
    BY <1>2, <1>3
  <2>2. l \in 0 .. TWO_ADICITY + 1 /\ z \in 0 .. TWO_ADICITY + 1
    BY <1>1, <1>2, <1>3
  <2>3. Pow2[l] \in Nat /\ Pow2[z] \in Nat \ {0} /\ Pow2[l] <= Pow2[z]
    <3>1. Pow2[l] \in Nat /\ Pow2[z] \in Nat \ {0}
      BY <1>1, <2>2
    <3>2. CASE l = z
      BY <3>1, <3>2
    <3>3. CASE l # z
      <4>1. l \in 0 .. z - 1
        BY <1>2, <1>3, <2>1, <3>3
      <4>2. Pow2[l] < Pow2[z]
        BY <2>2, <4>1, Pow2Grows
      <4>3. QED BY <3>1, <4>2
    <3>4. QED BY <3>2, <3>3
  <2>4. n < Pow2[z]
    <3>1. n # Pow2[z]
      BY <1>3
    <3>2. QED BY <1>1, <1>2, <2>3, <3>1
  <2>5. n % Pow2[z] = n
    BY <1>1, <2>3, <2>4, ZeroMod
  <2>6. QED BY <1>1, <1>3, <2>5
<1>7. CosetShift(n) = shift /\ shift # MAX_DOMAIN /\ shift \in 0 .. MAX_DOMAIN - 1
      /\ MAX_DOMAIN \in Nat \ {0}
  <2>1. /\ z # TWO_ADICITY
        /\ TWO_ADICITY - (z + 1) \in 0 .. TWO_ADICITY - 1
        /\ TWO_ADICITY - (z + 1) \in 0 .. TWO_ADICITY
        /\ TWO_ADICITY - (z + 1) \in 0 .. TWO_ADICITY + 1
        /\ TWO_ADICITY \in 0 .. TWO_ADICITY + 1
    BY <1>1, <1>2, <1>3, <1>6
  <2>2. Squared(1, TWO_ADICITY - (z + 1)) = shift
    BY <2>1, SquaredOnce
  <2>3. Pow2[TWO_ADICITY - (z + 1)] < Pow2[TWO_ADICITY]
    BY <2>1, Pow2Grows
  <2>4. shift \in Nat /\ MAX_DOMAIN \in Nat \ {0}
    BY <1>1, <2>1
  <2>5. shift < MAX_DOMAIN
    BY <1>1, <2>3
  <2> HIDE DEF shift
  <2>6. shift # MAX_DOMAIN /\ shift \in 0 .. MAX_DOMAIN - 1
    BY <2>4, <2>5
  <2>7. QED BY <1>5, <2>1, <2>2, <2>4, <2>6
<1>8. gen = Pow2[TWO_ADICITY - l]
  <2>1. TWO_ADICITY - l \in 0 .. TWO_ADICITY /\ TWO_ADICITY - l < TWO_ADICITY
    BY <1>1, <1>2, <1>3, <1>6
  <2>2. QED BY <2>1, SquaredOnce
<1>9. Pow2[l - (z + 1)] * gen = shift /\ Pow2[l - (z + 1)] \in 0 .. Pow2[l] - 1
  <2> DEFINE a == l - (z + 1)
             t == TWO_ADICITY - l
  <2>1. /\ a \in 0 .. TWO_ADICITY + 1 /\ t \in 0 .. TWO_ADICITY + 1 - a
        /\ a + t = TWO_ADICITY - (z + 1)
        /\ a \in 0 .. l - 1 /\ l \in 0 .. TWO_ADICITY + 1
    BY <1>1, <1>2, <1>3, <1>6
  <2>2. Pow2[a + t] = Pow2[a] * Pow2[t]
    BY <2>1, Pow2Sum
  <2>3. Pow2[a] * gen = shift
    BY <1>8, <2>1, <2>2
  <2>4. Pow2[a] < Pow2[l]
    BY <2>1, Pow2Grows
  <2>5. Pow2[a] \in Nat /\ Pow2[l] \in Nat
    BY <1>1, <2>1
  <2>6. Pow2[a] \in 0 .. Pow2[l] - 1
    BY <2>4, <2>5
  <2>7. QED BY <2>3, <2>6
<1> HIDE DEF shift, gen
<1>10. shift % MAX_DOMAIN = shift
  BY <1>7, ZeroMod
<1>11. shift \in DomainPoints(n)
  <2>1. \E a \in 0 .. Pow2[l] - 1 : (a * gen) % MAX_DOMAIN = shift
    BY <1>9, <1>10
  <2>2. QED BY <1>4, <2>1
<1>12. shift \in CosetPoints(n)
  <2>1. CosetPoints(n) = {(shift + e) % MAX_DOMAIN : e \in DomainPoints(n)}
    BY <1>7 DEF CosetPoints
  <2>2. 0 \in DomainPoints(n)
    BY DomainPointsAreRoots
  <2>3. shift + 0 = shift
    BY <1>7
  <2>4. (shift + 0) % MAX_DOMAIN = shift
    BY <1>10, <2>3
  <2>5. QED BY <2>1, <2>2, <2>4
<1>13. QED BY <1>11, <1>12

\* The shift of compute_coset_shift moves every point off the domain exactly
\* for the powers of two.  Of any other size the shift is a point of the domain
\* itself, and a quotient taken there is lost.
THEOREM CosetIsOffTheDomain ==
  ASSUME NEW n \in 1 .. MAX_DOMAIN
  PROVE  CosetPoints(n) \cap DomainPoints(n) = {}
           <=> \E k \in 0 .. TWO_ADICITY : n = Pow2[k]
<1>1. ASSUME NEW k \in 0 .. TWO_ADICITY, n = Pow2[k]
      PROVE  CosetPoints(n) \cap DomainPoints(n) = {}
  <2>1. CASE k = TWO_ADICITY
    <3>1. TrailingZeros(n) = TWO_ADICITY
      BY <1>1, <2>1, PowerOfTwo
    <3>2. CosetPoints(n) = {MAX_DOMAIN}
      BY <3>1 DEF CosetShift, CosetPoints
    <3>3. QED BY <3>2, DomainPointsAreRoots
  <2>2. CASE k # TWO_ADICITY
    <3>1. k \in 0 .. TWO_ADICITY - 1
      BY <2>2, Pow2Rounds
    <3>2. QED BY <1>1, <3>1, CosetOfPowerOfTwo
  <2>3. QED BY <2>1, <2>2
<1>2. QED BY <1>1, CosetMeetsDomain
=============================================================================
