------------------------------ MODULE Circuit ------------------------------
(***************************************************************************)
(* Arithmetic circuits as the program holds them in memory: struct         *)
(* arith_circ_s and struct gate_s of arith.h, and the adjacency lists of   *)
(* graph.c.  A circuit is a record                                         *)
(*    [n_gates, n_inputs, gates]                                           *)
(* whose gates are records [type, input_ids, const_val].  The adjacency    *)
(* lists hold one edge per operand of every gate (the parser adds them     *)
(* that way), so they are derived from input_ids here.                     *)
(***************************************************************************)
EXTENDS Integers, Sequences, FiniteSets

InputTypes == {"INPUT", "ONEINPUT"}
BinaryTypes == {"ADD", "MUL"}
GateTypes == InputTypes \cup BinaryTypes \cup {"CONSTMUL"}

Gates(c) == 0 .. (c.n_gates - 1)

\* Gates whose id is not the id of an input: they own a slot of evals[].
Internal(c) == c.n_inputs .. (c.n_gates - 1)

\* The evaluators return the value of the gate with the highest id.
OutputGate(c) == c.n_gates - 1

Arity(type) == IF type \in InputTypes THEN 0
               ELSE IF type \in BinaryTypes THEN 2 ELSE 1

(***************************************************************************)
(* An operand position of an internal gate: <<g, j>> is the j-th operand   *)
(* of gate g.  Each position is one edge of the graph, so the number of    *)
(* out-dependencies of k is the number of positions that hold k; a gate    *)
(* that reads k twice counts twice.                                        *)
(***************************************************************************)
Uses(c, k) ==
  {u \in Internal(c) \X {1, 2} :
     /\ u[2] <= Arity(c.gates[u[1]].type)
     /\ c.gates[u[1]].input_ids[u[2]] = k}

\* Mutant of n_out_deps: one dependency per reader, not per operand.
ReaderCount(c, k) == Cardinality({u[1] : u \in Uses(c, k)})

n_out_deps(c, k) == Cardinality(Uses(c, k))

\* k has to be evaluated before g.
Precedes(c, k, g) == \E j \in {1, 2} : <<g, j>> \in Uses(c, k)

\* tsort prints only gates that are an end of some edge.
Wired(c) ==
  {g \in Gates(c) : \/ Uses(c, g) # {}
                    \/ Arity(c.gates[g].type) > 0}

IsGate(c, gate) ==
  /\ gate.type \in GateTypes
  /\ gate.input_ids \in Seq(Gates(c))
  /\ Len(gate.input_ids) = Arity(gate.type)

(***************************************************************************)
(* The layout the evaluators index by: ids below n_inputs are the inputs   *)
(* (input_ids[j] < n_inputs selects the input array), every other id is a  *)
(* gate with operands, and there is at least one of each.                  *)
(***************************************************************************)
WellFormed(c) ==
  /\ c.n_gates \in Nat
  /\ c.n_inputs \in 1 .. (c.n_gates - 1)
  /\ \A g \in Gates(c) :
       /\ IsGate(c, c.gates[g])
       /\ (g < c.n_inputs) <=> (c.gates[g].type \in InputTypes)

(***************************************************************************)
(* /usr/bin/tsort, the external sort: it prints every gate that occurs in  *)
(* an edge once, next always one whose predecessors are all printed, and   *)
(* when a cycle leaves no such gate any of the rest (it breaks the loop    *)
(* and carries on).  A pair "k k" only declares k.                         *)
(***************************************************************************)
EachOnce(S, p) ==
  /\ \A a, b \in DOMAIN p : a # b => p[a] # p[b]
  /\ \A g \in S : \E a \in DOMAIN p : p[a] = g

Listings(c) ==
  UNION {{p \in [0 .. (k - 1) -> Wired(c)] : EachOnce(Wired(c), p)} :
           k \in 0 .. c.n_gates}

\* Mutant of Respects: edges written to the sort file as "dest source".
RespectsReversed(c, p) ==
  \A a, b \in DOMAIN p : Precedes(c, p[b], p[a]) => a < b

Respects(c, p) ==
  \A a, b \in DOMAIN p : Precedes(c, p[a], p[b]) => a < b

Acyclic(c) ==
  \A S \in (SUBSET Gates(c)) \ {{}} :
    \E g \in S : \A k \in S : ~ Precedes(c, k, g)

Greedy(c, p) ==
  \A b \in DOMAIN p :
    LET printed  == {p[a] : a \in 0 .. (b - 1)}
        ready(g) == {k \in Gates(c) : Precedes(c, k, g)} \subseteq printed \cup {g}
    IN  ready(p[b]) \/ \A g \in Wired(c) \ printed : ~ ready(g)

\* Mutant of Padded: the tail of t_sort repeats the last gate.
PaddedRepeating(c, p) ==
  LET k == Cardinality(DOMAIN p)
  IN  [i \in 0 .. c.n_gates |-> IF i \in DOMAIN p THEN p[i] ELSE p[k - 1]]

\* Mutant of Padded: the array has one entry less.
PaddedShort(c, p) ==
  [i \in 0 .. (c.n_gates - 1) |-> IF i \in DOMAIN p THEN p[i] ELSE 0]

(***************************************************************************)
(* What arith_circ_topology_sort leaves in t_sort.  The array is calloc'ed *)
(* with n_gates + 1 entries and filled with the lines tsort printed, so    *)
(* gates without edges leave zeros at its end.  Nobody looks at the exit   *)
(* status of tsort, so a cyclic graph gets a t_sort as well.               *)
(***************************************************************************)
Padded(c, p) ==
  [i \in 0 .. c.n_gates |-> IF i \in DOMAIN p THEN p[i] ELSE 0]

TSorts(c) ==
  LET acyclic == Acyclic(c)
  IN  {Padded(c, p) : p \in {q \in Listings(c) :
                               IF acyclic THEN Respects(c, q)
                                          ELSE Greedy(c, q)}}

\* s is one of them, found without listing them all.
IsTSort(c, s) ==
  \E k \in 0 .. c.n_gates :
    LET p == [a \in 0 .. (k - 1) |-> s[a]]
    IN  /\ p \in [0 .. (k - 1) -> Wired(c)]
        /\ EachOnce(Wired(c), p)
        /\ IF Acyclic(c) THEN Respects(c, p) ELSE Greedy(c, p)
        /\ s = Padded(c, p)

(***************************************************************************)
(* What a circuit file has to be, beyond well formed, for the evaluators   *)
(* to have a result to return: no cycle, and a last gate nobody reads (its *)
(* slot would be freed at the last read).                                  *)
(***************************************************************************)
Evaluable(c) == Acyclic(c) /\ Uses(c, OutputGate(c)) = {}
=============================================================================
