-------------------------- MODULE CircuitSemantics --------------------------
(***************************************************************************)
(* What a circuit means.  arith_circ_eval computes on messages modulo p,   *)
(* _cf_eval_tags on tags (polynomials modulo p), with the same traversal,  *)
(* so the algebra is a parameter: Plus, Times and Scale stand for          *)
(* cf_mpi_addm / cf_mpi_mulm, or for tag_addition / tag_product /          *)
(* tag_constant_product.                                                   *)
(***************************************************************************)
EXTENDS Circuit

CONSTANTS
  Values,        \* what a slot of evals[] can hold: messages, or tags
  Constants,     \* constants of const-mul gates
  Plus(_, _),
  Times(_, _),
  Scale(_, _),   \* Scale(a, k): const-mul of a by k
  Circuits,      \* the circuits considered
  InputVectors,  \* arrays of values handed to the evaluator
  Meaning(_, _), \* Meaning(c, x)[g]: the value of gate g of c on inputs x
  NULL

\* The algebra is closed, and NULL is not one of its values.
ASSUME AlgebraAssumption ==
  /\ NULL \notin Values
  /\ \A a, b \in Values : Plus(a, b) \in Values /\ Times(a, b) \in Values
  /\ \A a \in Values, k \in Constants : Scale(a, k) \in Values

ASSUME CircuitsAssumption ==
  \A c \in Circuits :
    /\ WellFormed(c)
    /\ \A g \in Gates(c) :
         c.gates[g].type = "CONSTMUL" => c.gates[g].const_val \in Constants

ASSUME InputVectorsAssumption ==
  \A x \in InputVectors : x \in [DOMAIN x -> Values]

\* The value of a gate from the values of its operands.
Apply(gate, a, b) ==
  CASE gate.type = "ADD" -> Plus(a, b)
    [] gate.type = "MUL" -> Times(a, b)
    [] OTHER             -> Scale(a, gate.const_val)

Fits(c, x) == DOMAIN x = 0 .. (c.n_inputs - 1)

\* The circuits the evaluators have a result for.
EvaluableCircuits == {c \in Circuits : Evaluable(c)}

\* m is a solution of the equations the gates of c stand for.
IsMeaning(c, x, m) ==
  /\ m \in [Gates(c) -> Values]
  /\ \A g \in Gates(c) :
       LET in == c.gates[g].input_ids
       IN  m[g] = IF g < c.n_inputs THEN x[g]
                  ELSE Apply(c.gates[g], m[in[1]],
                             m[in[Arity(c.gates[g].type)]])

\* An acyclic circuit has a meaning (by induction along a topological order).
ASSUME MeaningAssumption ==
  \A c \in Circuits, x \in InputVectors :
    Acyclic(c) /\ Fits(c, x) => IsMeaning(c, x, Meaning(c, x))
=============================================================================
