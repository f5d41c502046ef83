------------------------------- MODULE TagOps -------------------------------
(***************************************************************************)
(* Sequences of tag operations on one accumulator, beside a reference: the *)
(* values the polynomial takes at every point, which the operations act on *)
(* pointwise.  Names that CFScheme has too carry the prefix ops, so that   *)
(* the proofs can be about both modules.                                   *)
(***************************************************************************)
EXTENDS TagAlgebra

CONSTANTS
  Operands,   \* tags the accumulator is combined with
  Constants,  \* constants of const-mul gates
  MaxOps      \* bound: operations in a row

ASSUME OperandsAssumption == Operands \subseteq TagsUpTo(P, 0 .. P) /\ Constants \subseteq Int

VARIABLES
  ops_fft,   \* the global use_fft
  acc,
  points,   \* history: what the operations make of the values at each point
  n_ops
ops_vars == <<ops_fft, acc, points, n_ops>>

Points == 0 .. (P - 1)

OpsInit ==
  /\ ops_fft \in BOOLEAN
  /\ acc \in Operands
  /\ points = [x \in Points |-> rho(acc, x)]
  /\ n_ops = 0

More ==
  /\ acc # ABORT /\ n_ops < MaxOps
  /\ n_ops' = n_ops + 1
  /\ UNCHANGED ops_fft

Add(t) ==
  /\ More
  /\ acc' = tag_addition(acc, t)
  /\ points' = [x \in Points |-> (points[x] + rho(t, x)) % P]

Multiply(t) ==
  /\ More
  /\ acc' = tag_product(ops_fft, acc, t)
  /\ points' = [x \in Points |-> (points[x] * rho(t, x)) % P]

Square ==
  /\ More
  /\ acc' = tag_product(ops_fft, acc, acc)
  /\ points' = [x \in Points |-> (points[x] * points[x]) % P]

Scale(c) ==
  /\ More
  /\ acc' = tag_constant_product(acc, c)
  /\ points' = [x \in Points |-> (points[x] * c) % P]

Stop == (acc = ABORT \/ n_ops = MaxOps) /\ UNCHANGED ops_vars

OpsNext ==
  \/ \E t \in Operands : Add(t) \/ Multiply(t)
  \/ Square
  \/ \E c \in Constants : Scale(c)
  \/ Stop

OpsSpec == OpsInit /\ [][OpsNext]_ops_vars

-----------------------------------------------------------------------------
(***************************************************************************)
(* Whatever the operations and their order, the tag is the polynomial they *)
(* stand for: it agrees with the reference at every point.                 *)
(***************************************************************************)
Homomorphic ==
  acc # ABORT => \A x \in Points : rho(acc, x) = points[x]

(***************************************************************************)
(* Only an FFT product can fail, and only one that vanishes or that has a  *)
(* zero coefficient below another: a product that merely lost its degree   *)
(* is delivered.                                                           *)
(***************************************************************************)
Gap(a, b) ==
  \E k \in 0 .. (Degree(a) + Degree(b)) : \E j \in 0 .. (k - 1) :
    Convolution(a, b, j) = 0 /\ Convolution(a, b, k) # 0

AbortOnlyOnZeroStep ==
  acc' = ABORT /\ acc # ABORT =>
    /\ ops_fft
    /\ \/ \A x \in Points : points'[x] = 0
       \/ \E t \in Operands \cup {acc} :
            /\ \A x \in Points : points'[x] = (points[x] * rho(t, x)) % P
            /\ Gap(acc, t)
AbortOnlyOnZero == [][AbortOnlyOnZeroStep]_ops_vars
=============================================================================
