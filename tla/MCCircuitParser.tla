-------------------------- MODULE MCCircuitParser --------------------------
(***************************************************************************)
(* Instances of CircuitParser.                                             *)
(***************************************************************************)
EXTENDS CircuitParser

Blank == [verb |-> "unknown", id |-> 0, n_in |-> 2, ins |-> <<0, 0>>,
          n_out |-> 1, const |-> 3, matches |-> TRUE]
TotalOf(n) == [Blank EXCEPT !.verb = "total", !.id = n]
InputOf(g) == [Blank EXCEPT !.verb = "input", !.id = g]
OneOf(g) == [Blank EXCEPT !.verb = "one-input", !.id = g]
AddOf(ids, g) == [Blank EXCEPT !.verb = "add", !.ins = ids, !.id = g]
MulOf(ids, g) == [Blank EXCEPT !.verb = "mul", !.ins = ids, !.id = g]
CstOf(k, g) ==
  [Blank EXCEPT !.verb = "const-mul", !.n_in = 1, !.ins = <<k>>, !.id = g]

\* Good lines, in any order and any number: complete files of 2 to 4 gates,
\* missing, repeated and redefined gates, a second "total".
GoodLines ==
  { TotalOf(2), TotalOf(4), InputOf(0), InputOf(1), OneOf(1),
    AddOf(<<0, 1>>, 2), MulOf(<<2, 2>>, 3), CstOf(3, 2), CstOf(0, 1),
    AddOf(<<0, 2>>, 3) }

\* And lines with something wrong in them.
BadLines ==
  { [TotalOf(3) EXCEPT !.id = BadNum], [TotalOf(3) EXCEPT !.id = HugeNum],
    [InputOf(0) EXCEPT !.id = BadNum], InputOf(7), Blank,
    [AddOf(<<0, 1>>, 2) EXCEPT !.matches = FALSE],
    [AddOf(<<0, 1>>, 2) EXCEPT !.n_in = 3],
    [AddOf(<<0, 1>>, 2) EXCEPT !.n_in = NoNum],
    [AddOf(<<0, 1>>, 2) EXCEPT !.n_in = HugeNum],
    [AddOf(<<0, 1>>, 2) EXCEPT !.n_in = 1],
    AddOf(<<0>>, 2), AddOf(<<>>, 2), AddOf(<<0, 1, 1>>, 2),
    AddOf(<<0, BadNum>>, 2), AddOf(<<0, 7>>, 2), AddOf(<<0, 1>>, 7),
    [AddOf(<<0, 1>>, 2) EXCEPT !.n_out = 2],
    AddOf(<<0, 1>>, NoNum), AddOf(<<0, 1>>, BadNum),
    [CstOf(0, 2) EXCEPT !.const = BadNum],
    [CstOf(0, 2) EXCEPT !.n_in = 2], MulOf(<<HugeNum, 0>>, 2) }

AllLines == GoodLines \cup {TotalOf(3)} \cup BadLines
=============================================================================
