----------------------------- MODULE TagAlgebra -----------------------------
(***************************************************************************)
(* Tags: polynomials modulo the prime P, as the vectors y[0 .. n - 1] of   *)
(* struct cf_tag_s (tag.h), and the operations of add.c, mul.c and         *)
(* fft_ntl.cpp on them.  A tag is a function on 0 .. n - 1; its degree, as *)
(* the code counts it, is n - 1, leading zeros included.                   *)
(***************************************************************************)
EXTENDS Integers, FiniteSetsExt

CONSTANTS
  P,       \* modulus, a prime
  ABORT    \* no tag: an assertion failed

ASSUME PrimeAssumption ==
  P \in Nat \ {0, 1} /\ \A d \in 2 .. (P - 1) : P % d # 0

\* CF_TAG_DEGREE
Degree(t) == Cardinality(DOMAIN t) - 1

TagsUpTo(d, coefficients) ==
  UNION {[0 .. n -> coefficients] : n \in 0 .. d}

PowMod(b, e, m) ==
  LET pow[n \in 0 .. e] == IF n = 0 THEN 1 % m ELSE (pow[n - 1] * b) % m
  IN  pow[e]

\* _compute_rho: the value of the polynomial at x.
rho(t, x) ==
  MapThenSumSet(LAMBDA k : (PowMod(x, k, P) * t[k]) % P, DOMAIN t) % P

\* Coefficients beyond the degree of the shorter tag are copied as they are.
tag_addition(a, b) ==
  [k \in DOMAIN a \cup DOMAIN b |->
     IF k \notin DOMAIN b THEN a[k]
     ELSE IF k \notin DOMAIN a THEN b[k] ELSE (a[k] + b[k]) % P]

\* Coefficient k of the product of two tags.
Convolution(a, b, k) ==
  MapThenSumSet(LAMBDA i : (a[i] * b[k - i]) % P,
                {i \in DOMAIN a : k - i \in DOMAIN b}) % P

tag_mul_naive(a, b) ==
  [k \in 0 .. (Degree(a) + Degree(b)) |-> Convolution(a, b, k)]

\* Mutant of tag_fft_mul_mod: a product that lost its degree is refused too.
FFTFullDegree(a, b) ==
  LET product == tag_mul_naive(a, b)
  IN  IF \E k \in DOMAIN product : product[k] = 0 THEN ABORT ELSE product

(***************************************************************************)
(* The product of NTL has no leading zeros.  The product 0 fails the       *)
(* assertion on its degree; any other coefficient 0 fails the one on the   *)
(* number of bytes it takes.                                               *)
(***************************************************************************)
tag_fft_mul_mod(a, b) ==
  LET product == tag_mul_naive(a, b)
      nonzero == {k \in DOMAIN product : product[k] # 0}
  IN  IF nonzero = {} \/ nonzero # 0 .. Max(nonzero) THEN ABORT
      ELSE [k \in nonzero |-> product[k]]

\* fft is the global use_fft, 1 unless a test or a benchmark sets it.
tag_product(fft, a, b) ==
  IF fft THEN tag_fft_mul_mod(a, b) ELSE tag_mul_naive(a, b)

\* Mutant of tag_constant_product: only y[0] is multiplied.
ConstantOnFirst(a, c) ==
  [k \in DOMAIN a |-> IF k = 0 THEN (a[k] * c) % P ELSE a[k]]

tag_constant_product(a, c) ==
  [k \in DOMAIN a |-> IF c = 0 THEN 0 ELSE (a[k] * c) % P]
=============================================================================
