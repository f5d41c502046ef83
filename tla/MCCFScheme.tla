----------------------------- MODULE MCCFScheme -----------------------------
(***************************************************************************)
(* Instances of CFScheme.                                                  *)
(***************************************************************************)
EXTENDS CFScheme, CircuitSamples

\* One gate of each kind, a square, a degree-3 product, ids out of order.
Programs ==
  { FromGates(<<In, In, Add(0, 1)>>, 2),
    FromGates(<<In, In, Mul(0, 1)>>, 2),
    FromGates(<<In, In, Mul(0, 0), Add(2, 1)>>, 2),
    FromGates(<<In, Cst(0)>>, 1),
    FromGates(<<In, Mul(0, 2), Mul(0, 0), Cst(1)>>, 1) }

FewPrograms ==
  { FromGates(<<In, In, Mul(0, 1)>>, 2),
    FromGates(<<In, Mul(0, 2), Mul(0, 0), Cst(1)>>, 1) }

MCMessages == {0, 1, 3, P, P + 1}
MCClaims == {0, 1, 2, 3, P, P + 1}
MCTs == {0, 3, 4, Q - 1}
=============================================================================
