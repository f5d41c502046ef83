--------------------------- MODULE MCCircuitEval ---------------------------
(***************************************************************************)
(* Instances of CircuitEval.  The algebra is arithmetic modulo 7, except   *)
(* that the product is made non-commutative (2ab + a) so that two operands *)
(* in the wrong order would show.                                          *)
(***************************************************************************)
EXTENDS CircuitEval, CircuitSamples

P == 7
MCValues == 0 .. (P - 1)
MCConstants == {3}
MCPlus(a, b) == (a + b) % P
MCTimes(a, b) == (2 * a * b + a) % P
MCScale(a, k) == (a * k) % P

RECURSIVE ValueOf(_, _, _)
ValueOf(c, x, g) ==
  IF g < c.n_inputs THEN x[g]
  ELSE LET in == c.gates[g].input_ids
       IN  Apply(c.gates[g], ValueOf(c, x, in[1]),
                 ValueOf(c, x, in[Arity(c.gates[g].type)]))
MCMeaning(c, x) == [g \in Gates(c) |-> ValueOf(c, x, g)]

\* Fan-outs around the limit of a counter modulo 4, both sides of it.
FanOuts ==
  { FromGates(<<In, Cst(0), Add(1, 1), Add(0, 2)>>, 1),
    FromGates(<<In, Cst(0), Add(1, 1), Add(1, 2)>>, 1),
    FromGates(<<In, Cst(0), Add(1, 1), Mul(1, 1), Add(2, 3)>>, 1),
    FromGates(<<In, Cst(0), Cst(1), Cst(2), Mul(1, 3)>>, 1) }

EvaluableWirings == {c \in AllWirings : Evaluable(c)}

MCCircuits == EvaluableWirings \cup SomeWirings \cup Samples \cup FanOuts

\* Arrays of the right lengths, and of one too few.
MCInputs == {[g \in 0 .. (m - 1) |-> g + 2] : m \in 1 .. 3}

CyclicWirings == {c \in SomeWirings : ~ Acyclic(c)}
OneInput == {[g \in 0 .. 0 |-> 2]}
=============================================================================
