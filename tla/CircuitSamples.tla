--------------------------- MODULE CircuitSamples ---------------------------
(***************************************************************************)
(* Circuits for the MC modules.                                            *)
(***************************************************************************)
EXTENDS Circuit

In == [type |-> "INPUT", input_ids |-> <<>>, const_val |-> 0]
One == [In EXCEPT !.type = "ONEINPUT"]
Add(a, b) == [type |-> "ADD", input_ids |-> <<a, b>>, const_val |-> 0]
Mul(a, b) == [type |-> "MUL", input_ids |-> <<a, b>>, const_val |-> 0]
Cst(a) == [type |-> "CONSTMUL", input_ids |-> <<a>>, const_val |-> 3]

\* The circuit with the gates of a sequence, gate 0 first.
FromGates(s, n) ==
  [n_gates |-> Len(s), n_inputs |-> n,
   gates |-> [g \in 0 .. (Len(s) - 1) |-> s[g + 1]]]

(***************************************************************************)
(* Every wiring of three gates over one input, cycles, readers of the last *)
(* gate, unused inputs and unused gates included.                          *)
(***************************************************************************)
AllWirings ==
  {FromGates(<<In, Add(a, b), Mul(c, d), Cst(e)>>, 1) :
     a, b, c, d, e \in 0 .. 3}
  \cup {FromGates(<<In, Cst(e), Mul(c, d), Add(a, b)>>, 1) :
          a, b, c, d, e \in 0 .. 3}

\* Some of them, for the runs with more nondeterminism.
SomeWirings ==
  {FromGates(<<In, Cst(e), Mul(c, d), Add(a, b)>>, 1) :
     a, c, e \in 0 .. 3, b, d \in {1, 3}}

\* Larger circuits: ids out of topological order, two inputs and more, an
\* input nobody reads, a gate nobody reads, the same operand read twice.
Samples ==
  { FromGates(<<In, In, Mul(3, 1), Add(0, 1), Add(2, 3)>>, 2),
    FromGates(<<In, One, Mul(3, 3), Add(0, 0), Cst(2)>>, 2),
    FromGates(<<In, In, In, Mul(0, 2), Mul(3, 3)>>, 3),
    FromGates(<<In, In, Mul(0, 1), Add(2, 2), Mul(2, 3)>>, 2),
    FromGates(<<In, In, Add(0, 1), Cst(2), Mul(2, 1)>>, 2),
    FromGates(<<In, In, In, Mul(0, 2)>>, 3) }
=============================================================================
