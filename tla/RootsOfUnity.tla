---------------------------- MODULE RootsOfUnity ----------------------------
(***************************************************************************)
(* The points at which the native prover evaluates its polynomials.  A     *)
(* root of unity is written as a power of TWO_ADIC_ROOT_OF_UNITY, that is  *)
(* as a number below MAX_DOMAIN: a product of roots is the sum of their    *)
(* powers, squaring doubles.  MAX_DOMAIN itself stands for the field       *)
(* elements that are no root of unity.                                     *)
(***************************************************************************)
EXTENDS Integers

CONSTANTS TWO_ADICITY,  \* 28: the roots of unity in Fr number 2^28
          MAX_DOMAIN    \* 2^28, the largest domain arkworks has in Fr

Pow2[k \in 0 .. TWO_ADICITY + 1] == IF k = 0 THEN 1 ELSE 2 * Pow2[k - 1]

ASSUME MaxDomainAssumption ==
  TWO_ADICITY \in Nat /\ MAX_DOMAIN \in Nat /\ MAX_DOMAIN = Pow2[TWO_ADICITY]

Squared(e, times) == (e * Pow2[times]) % MAX_DOMAIN

LogUp(n) ==
  CHOOSE k \in 0 .. TWO_ADICITY : n <= Pow2[k] /\ (k > 0 => n > Pow2[k - 1])

TrailingZeros(n) ==
  CHOOSE k \in 0 .. TWO_ADICITY : n % Pow2[k] = 0 /\ n % Pow2[k + 1] # 0

\* Radix2EvaluationDomain::new rounds up to a power of two.
DomainPoints(n) ==
  LET gen == Squared(1, TWO_ADICITY - LogUp(n))
  IN {(k * gen) % MAX_DOMAIN : k \in 0 .. Pow2[LogUp(n)] - 1}

\* Variant: one squaring too many.
CosetShiftFar(n) ==
  IF TrailingZeros(n) = TWO_ADICITY THEN MAX_DOMAIN
  ELSE Squared(1, TWO_ADICITY - TrailingZeros(n))

\* compute_coset_shift counts the factors 2 of the size it is given.
CosetShift(n) ==
  IF TrailingZeros(n) = TWO_ADICITY THEN MAX_DOMAIN
  ELSE Squared(1, TWO_ADICITY - (TrailingZeros(n) + 1))

\* coset_evaluations: where A, B and C are evaluated.
CosetPoints(n) ==
  IF CosetShift(n) = MAX_DOMAIN THEN {MAX_DOMAIN}
  ELSE {(CosetShift(n) + e) % MAX_DOMAIN : e \in DomainPoints(n)}
=============================================================================
