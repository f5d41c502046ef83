--------------------------- MODULE CircuitParser ---------------------------
(***************************************************************************)
(* arith_circ_parse (arithparser.c): a circuit file is read line by line,  *)
(* and each line updates the circuit under construction (arith.c, gate.c,  *)
(* graph.c).  The file is the environment's: every line may be any of      *)
(* Lines, so the parser meets files in an order nobody meant.              *)
(*                                                                         *)
(* A line is a record [verb, id, n_in, ins, n_out, const, matches]; its    *)
(* numbers are naturals, or one of the tokens below.  Lines have the space *)
(* that separates the verb from the rest.                                  *)
(***************************************************************************)
EXTENDS Circuit

CONSTANTS
  Lines,     \* the lines a file is made of
  MaxLines,  \* bound: lines of a file
  BadNum,    \* a token with a character that is no digit
  HugeNum,   \* a number that is no size_t
  NoNum,     \* an empty token
  NULL,
  SortFails  \* whether arith_circ_topology_sort may return an error

Tokens == Nat \cup {BadNum, HugeNum, NoNum}

ASSUME TokensAssumption ==
  /\ {BadNum, HugeNum, NoNum} \cap Nat = {}
  /\ BadNum # HugeNum /\ NoNum \notin {BadNum, HugeNum}
ASSUME LinesAssumption ==
  \A l \in Lines :
    /\ l.verb \in {"total", "input", "one-input", "add", "mul", "const-mul", "unknown"}
    /\ {l.id, l.n_in, l.n_out, l.const} \subseteq Tokens
    /\ l.ins \in Seq(Tokens)
    /\ l.matches \in BOOLEAN
ASSUME MaxLinesAssumption == MaxLines \in Nat
ASSUME SortFailsAssumption == SortFails \in BOOLEAN

\* What arith->graph points to, with n nodes.
GraphsOf(n) ==
  [n_nodes : {n}, n_inputs : 0 .. MaxLines, adj : [0 .. (n - 1) -> Seq(0 .. (n - 1))]]

ASSUME NullAssumption ==
  \A n \in {0} \cup ({l.id : l \in Lines} \cap Nat) : NULL \notin GraphsOf(n)

VARIABLES
  pc,
  graph,    \* arith->graph: [n_nodes, n_inputs, adj], or NULL
  gates,    \* arith->gates
  n_inputs, \* arith->n_inputs
  err,
  seen      \* history: the lines parsed, without comments and "output"s
vars == <<pc, graph, gates, n_inputs, err, seen>>

NumVerbs == {"input", "one-input"}
GateVerbs == {"add", "mul", "const-mul"}

Init ==
  /\ pc = "parsing"
  /\ graph = NULL
  /\ gates = NULL
  /\ n_inputs = 0
  /\ err = "E_NOERR"
  /\ seen = <<>>

-----------------------------------------------------------------------------
(***************************************************************************)
(* Reading numbers: str_to_size.                                           *)
(***************************************************************************)
NumError(tok) ==
  CASE tok = BadNum  -> "E_INVAL_NUM"
    [] tok = HugeNum -> "E_RANGE"
    [] OTHER         -> "E_NOERR"

\* strtoul makes 0 of an empty token.
Num(tok) == IF tok = NoNum THEN 0 ELSE tok

\* An operand list is split with strtok, which returns NULL at its end, and
\* str_to_size dereferences it.
OperandError(l, j) ==
  IF j > Len(l.ins) THEN "crash" ELSE NumError(l.ins[j])

\* The first error of a sequence of checks.
FirstError(checks) ==
  IF \A n \in DOMAIN checks : checks[n] = "E_NOERR" THEN "E_NOERR"
  ELSE checks[CHOOSE n \in DOMAIN checks :
                /\ checks[n] # "E_NOERR"
                /\ \A m \in 1 .. (n - 1) : checks[m] = "E_NOERR"]

Check(condition, error) == IF condition THEN "E_NOERR" ELSE error

\* _arith_circ_parse_io_line: "in N <ids> out N <id>".
IOError(l) ==
  FirstError(<<Check(l.matches, "E_REGEX_ERROR"),
               NumError(l.n_in),
               Check(Num(l.n_in) \in {1, 2}, "E_GATE_INPUTS"),
               OperandError(l, 1),
               Check(Num(l.n_in) = 1, OperandError(l, 2)),
               NumError(l.n_out),
               Check(Num(l.n_out) = 1, "E_GATE_OUTPUT"),
               NumError(l.id)>>)

\* cf_mpi_import_char: hexadecimal digits, without a limit.
ConstError(tok) == Check(tok \notin {BadNum, NoNum}, "E_INVAL_NUM")

\* Mutants of ArityError: two operands for every gate; a binary gate with one
\* operand is let through.
ArityAlwaysTwo(l) == Check(Num(l.n_in) = 2, "E_GATE_INPUTS")
ArityUnchecked(l) ==
  IF l.verb = "const-mul" THEN Check(Num(l.n_in) = 1, "E_GATE_INPUTS")
                          ELSE "E_NOERR"

ArityError(l) ==
  IF l.verb = "const-mul" THEN Check(Num(l.n_in) = 1, "E_GATE_INPUTS")
                          ELSE Check(Num(l.n_in) = 2, "E_GATE_INPUTS")

\* What a gate line returns before it touches the circuit.
GateError(l) ==
  FirstError(<<IF l.verb = "const-mul" THEN ConstError(l.const) ELSE "E_NOERR",
               IOError(l), ArityError(l)>>)

LineError(l) ==
  IF l.verb \in GateVerbs THEN GateError(l)
  ELSE IF l.verb = "unknown" THEN "E_INVAL_GATE_TYPE"
  ELSE NumError(l.id)

-----------------------------------------------------------------------------
(***************************************************************************)
(* What a line does to the circuit.                                        *)
(***************************************************************************)
TypeOf(verb) ==
  CASE verb = "input"     -> "INPUT"
    [] verb = "one-input" -> "ONEINPUT"
    [] verb = "add"       -> "ADD"
    [] verb = "mul"       -> "MUL"
    [] OTHER              -> "CONSTMUL"

\* The operands a gate line names: the first n_in of its list.
Ids(l) ==
  IF l.verb \in GateVerbs
  THEN [j \in 1 .. Num(l.n_in) |-> Num(l.ins[j])] ELSE <<>>

\* gate_create
GateOf(l) ==
  [type |-> TypeOf(l.verb), input_ids |-> Ids(l),
   const_val |-> IF l.verb = "const-mul" THEN l.const ELSE 0]

InGraph(id) == graph # NULL /\ id < graph.n_nodes

\* The assertions on graph_add_edge and arith_circ_add_gate.
Asserted(l) ==
  /\ InGraph(Num(l.id))
  /\ \A j \in DOMAIN Ids(l) : InGraph(Ids(l)[j])

CountOf(s, x) == Cardinality({n \in DOMAIN s : s[n] = x})

\* Mutant of AddEdges: an operand that is listed twice gets one edge.
AddEdgesOnce(adj, ids, dest) ==
  [k \in DOMAIN adj |->
     IF \E j \in DOMAIN ids : ids[j] = k THEN <<dest>> \o adj[k] ELSE adj[k]]

\* graph_add_edge for each operand: the new edge heads the list of its source.
AddEdges(adj, ids, dest) ==
  [k \in DOMAIN adj |->
     [j \in 1 .. CountOf(ids, k) |-> dest] \o adj[k]]

ReadLine(l) ==
  /\ pc = "parsing"
  /\ Len(seen) < MaxLines
  /\ seen' = Append(seen, l)

\* A line that is not parsed: a comment, or "output".
SkipLine ==
  /\ pc = "parsing"
  /\ UNCHANGED vars

\* arith_circ_init_gates: the counts of inputs of an earlier "total" stay.
TotalLine(l) ==
  /\ ReadLine(l)
  /\ l.verb = "total"
  /\ LineError(l) = "E_NOERR"
  /\ LET nodes == 0 .. (Num(l.id) - 1)
     IN  /\ graph' = [n_nodes |-> Num(l.id), n_inputs |-> 0,
                      adj |-> [k \in nodes |-> <<>>]]
         /\ gates' = [k \in nodes |-> NULL]
  /\ UNCHANGED <<pc, n_inputs, err>>

\* Mutant of CountInput: one-inputs are counted apart.
CountPlainInput(l) == IF l.verb = "input" THEN 1 ELSE 0

CountInput(l) == IF l.verb \in NumVerbs THEN 1 ELSE 0

Store(l) == GateOf(l)

\* arith_circ_add_gate after the edges; graph->n_inputs is set by inputs only.
GateLine(l) ==
  /\ ReadLine(l)
  /\ l.verb \in NumVerbs \cup GateVerbs
  /\ LineError(l) = "E_NOERR"
  /\ Asserted(l)
  /\ n_inputs' = n_inputs + CountInput(l)
  /\ graph' = [graph EXCEPT
                 !.adj = AddEdges(@, Ids(l), Num(l.id)),
                 !.n_inputs = IF l.verb \in NumVerbs THEN n_inputs' ELSE @]
  /\ gates' = [gates EXCEPT ![Num(l.id)] = Store(l)]
  /\ UNCHANGED <<pc, err>>

AssertLine(l) ==
  /\ ReadLine(l)
  /\ l.verb \in NumVerbs \cup GateVerbs
  /\ LineError(l) = "E_NOERR"
  /\ ~ Asserted(l)
  /\ pc' = "aborted"
  /\ UNCHANGED <<graph, gates, n_inputs, err>>

\* The circuit is freed and *arith set to NULL.
RejectLine(l) ==
  /\ ReadLine(l)
  /\ LineError(l) \notin {"E_NOERR", "crash"}
  /\ err' = LineError(l)
  /\ pc' = "failed"
  /\ graph' = NULL
  /\ gates' = NULL
  /\ UNCHANGED n_inputs

CrashLine(l) ==
  /\ ReadLine(l)
  /\ LineError(l) = "crash"
  /\ pc' = "crashed"
  /\ UNCHANGED <<graph, gates, n_inputs, err>>

-----------------------------------------------------------------------------
EndOfFile ==
  /\ pc = "parsing"
  /\ graph # NULL
  /\ pc' = "done"
  /\ UNCHANGED <<graph, gates, n_inputs, err, seen>>

\* assert(i > 0) on an empty file; assert(cf_err == E_NOERR) after the sort.
AssertSort ==
  /\ pc = "parsing"
  /\ graph = NULL \/ SortFails
  /\ pc' = "aborted"
  /\ UNCHANGED <<graph, gates, n_inputs, err, seen>>

Returned == pc \in {"done", "failed", "aborted", "crashed"} /\ UNCHANGED vars

Next ==
  \/ \E l \in Lines : \/ TotalLine(l) \/ GateLine(l) \/ AssertLine(l)
                      \/ RejectLine(l) \/ CrashLine(l)
  \/ SkipLine \/ EndOfFile \/ AssertSort \/ Returned

Spec == Init /\ [][Next]_vars

-----------------------------------------------------------------------------
(***************************************************************************)
(* The format, as the files of the tests and of the compiler use it: one   *)
(* "total", first; every id once; the inputs have the lowest ids.          *)
(***************************************************************************)
Total == seen[1].id

LegalLine(l, n) ==
  /\ l.id \in 0 .. (n - 1)
  /\ \/ l.verb \in NumVerbs
     \/ /\ l.verb \in GateVerbs
        /\ l.matches /\ l.n_out = 1 /\ l.const \in Nat
        /\ l.n_in = IF l.verb = "const-mul" THEN 1 ELSE 2
        /\ l.ins \in [1 .. l.n_in -> 0 .. (n - 1)]

\* No rule of the format is broken so far.
Legal ==
  /\ seen # <<>> /\ seen[1].verb = "total" /\ Total \in Nat
  /\ \A n \in 2 .. Len(seen) : LegalLine(seen[n], Total)
  /\ \A m, n \in 2 .. Len(seen) : m # n => seen[m].id # seen[n].id

\* Every gate has its line, and the inputs come before the gates.
Complete ==
  /\ Len(seen) = Total + 1
  /\ \A m, n \in 2 .. Len(seen) :
       seen[m].verb \in NumVerbs /\ seen[n].verb \in GateVerbs =>
         seen[m].id < seen[n].id
  /\ {seen[n].verb : n \in 2 .. Len(seen)} \cap NumVerbs # {}
  /\ {seen[n].verb : n \in 2 .. Len(seen)} \cap GateVerbs # {}

\* The circuit in the form of module Circuit.
Parsed == [n_gates |-> graph.n_nodes, n_inputs |-> n_inputs, gates |-> gates]

-----------------------------------------------------------------------------
(***************************************************************************)
(* Properties                                                              *)
(***************************************************************************)
TypeOK ==
  /\ pc \in {"parsing", "done", "failed", "aborted", "crashed"}
  /\ n_inputs \in 0 .. MaxLines
  /\ err \in {"E_NOERR", "E_INVAL_NUM", "E_RANGE", "E_INVAL_GATE_TYPE",
              "E_REGEX_ERROR", "E_GATE_INPUTS", "E_GATE_OUTPUT"}
  /\ Len(seen) <= MaxLines
  /\ graph = NULL => gates = NULL
  /\ graph # NULL =>
       /\ graph.n_nodes \in Nat /\ graph \in GraphsOf(graph.n_nodes)
       /\ DOMAIN gates = Gates(Parsed)
       /\ \A g \in Gates(Parsed) : gates[g] = NULL \/ IsGate(Parsed, gates[g])

(***************************************************************************)
(* A file that breaks no rule is not refused, does not fail an assertion   *)
(* and does not crash the parser, in whatever order its gates come.        *)
(***************************************************************************)
LegalFilesParse ==
  pc \in {"failed", "aborted", "crashed"} =>
    \/ ~ Legal
    \/ pc = "aborted" /\ SortFails

(***************************************************************************)
(* A complete file gives a circuit with the layout the evaluators index    *)
(* by, and adjacency lists with one edge per operand: what the evaluator   *)
(* counts down (n_out_deps) is the length of the list.                     *)
(***************************************************************************)
CompleteFilesWellFormed ==
  pc = "done" /\ Legal /\ Complete =>
    /\ WellFormed(Parsed)
    /\ \A k \in Gates(Parsed) :
         Len(graph.adj[k]) = n_out_deps(Parsed, k)

(***************************************************************************)
(* Whatever the file, ids that are defined twice included: the list of a   *)
(* gate holds at least its readers, so that no evaluator counts down to    *)
(* zero before the last read.                                              *)
(***************************************************************************)
EdgesCoverOperands ==
  graph # NULL =>
    \A g \in DOMAIN gates :
      gates[g] # NULL =>
        \A k \in DOMAIN gates :
          CountOf(graph.adj[k], g) >= CountOf(gates[g].input_ids, k)
=============================================================================
