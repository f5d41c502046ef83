----------------------- MODULE CircuitParser_proofs ------------------------
(***************************************************************************)
(* Proofs about CircuitParser: for any lines, in any order and number, the *)
(* adjacency lists cover the operands, and a complete file that breaks no  *)
(* rule gives a circuit as the evaluators and the sort assume it.          *)
(***************************************************************************)
EXTENDS CircuitParser, FiniteSetTheorems, Recursion

-----------------------------------------------------------------------------
(***************************************************************************)
(* The first error of a sequence of checks                                 *)
(***************************************************************************)
\* FirstError returns one of the checks, and E_NOERR only if all do.
LEMMA FirstErrorIs ==
  ASSUME NEW m \in Nat, NEW checks, DOMAIN checks = 1 .. m
  PROVE  \/ /\ FirstError(checks) = "E_NOERR"
            /\ \A n \in 1 .. m : checks[n] = "E_NOERR"
         \/ \E n \in 1 .. m : /\ checks[n] # "E_NOERR"
                              /\ FirstError(checks) = checks[n]
<1> DEFINE T == {n \in 1 .. m : checks[n] # "E_NOERR"}
<1>1. CASE T = {}
  BY <1>1 DEF FirstError
<1>2. CASE T # {}
  <2>0. T \in SUBSET Nat
    OBVIOUS
  <2>1. PICK n \in T : \A k \in T : n <= k
    BY <1>2, <2>0, Least
  <2>2. \A k \in 1 .. (n - 1) : checks[k] = "E_NOERR"
    BY <2>1
  <2>3. \E k \in DOMAIN checks : /\ checks[k] # "E_NOERR"
                                 /\ \A j \in 1 .. (k - 1) : checks[j] = "E_NOERR"
    BY <2>1, <2>2
  <2> QED
    BY <2>1, <2>3 DEF FirstError
<1> QED
  BY <1>1, <1>2

\* The errors of the parser's lines.
Errors == {"E_NOERR", "E_INVAL_NUM", "E_RANGE", "E_INVAL_GATE_TYPE", "E_REGEX_ERROR",
           "E_GATE_INPUTS", "E_GATE_OUTPUT"}

\* str_to_size on any token.
LEMMA NumErrorIs ==
  ASSUME NEW tok \in Tokens
  PROVE  /\ NumError(tok) \in {"E_NOERR", "E_INVAL_NUM", "E_RANGE"}
         /\ NumError(tok) = "E_NOERR" <=> Num(tok) \in Nat
         /\ tok \in Nat => Num(tok) = tok
BY TokensAssumption DEF NumError, Num, Tokens

\* What an error-free gate line has: ids that are numbers, as many as the
\* arity of its gate.
LEMMA GateLineIs ==
  ASSUME NEW l \in Lines, l.verb \in GateVerbs
  PROVE  /\ LineError(l) \in Errors \cup {"crash"}
         /\ LineError(l) = "E_NOERR" =>
              /\ Num(l.id) \in Nat
              /\ Num(l.n_in) = Arity(TypeOf(l.verb))
              /\ \A j \in 1 .. Num(l.n_in) : j \in DOMAIN l.ins /\ Num(l.ins[j]) \in Nat
<1>1. /\ l.ins \in Seq(Tokens) /\ l.matches \in BOOLEAN
      /\ {l.id, l.n_in, l.n_out, l.const} \subseteq Tokens
  BY LinesAssumption
<1> DEFINE io == <<Check(l.matches, "E_REGEX_ERROR"), NumError(l.n_in),
                   Check(Num(l.n_in) \in {1, 2}, "E_GATE_INPUTS"), OperandError(l, 1),
                   Check(Num(l.n_in) = 1, OperandError(l, 2)), NumError(l.n_out),
                   Check(Num(l.n_out) = 1, "E_GATE_OUTPUT"), NumError(l.id)>>
           gate == <<IF l.verb = "const-mul" THEN ConstError(l.const) ELSE "E_NOERR",
                     IOError(l), ArityError(l)>>
<1>2. \A j \in {1, 2} :
        /\ OperandError(l, j) \in Errors \cup {"crash"}
        /\ OperandError(l, j) = "E_NOERR" => j \in DOMAIN l.ins /\ Num(l.ins[j]) \in Nat
  BY <1>1, NumErrorIs DEF OperandError, Errors
<1>3. IOError(l) = FirstError(io) /\ DOMAIN io = 1 .. 8
  BY DEF IOError
<1>4. \A n \in 1 .. 8 : io[n] \in Errors \cup {"crash"}
  BY <1>1, <1>2, NumErrorIs DEF Check, Errors
<1>5. /\ IOError(l) \in Errors \cup {"crash"}
      /\ IOError(l) = "E_NOERR" => \A n \in 1 .. 8 : io[n] = "E_NOERR"
  <2>1. 8 \in Nat
    OBVIOUS
  <2> HIDE DEF io
  <2>2. \/ FirstError(io) = "E_NOERR" /\ \A n \in 1 .. 8 : io[n] = "E_NOERR"
        \/ \E n \in 1 .. 8 : io[n] # "E_NOERR" /\ FirstError(io) = io[n]
    BY ONLY <1>3, <2>1, FirstErrorIs
  <2> QED
    BY <1>3, <1>4, <2>2
<1>6. IOError(l) = "E_NOERR" =>
        /\ Num(l.id) \in Nat /\ Num(l.n_in) \in {1, 2}
        /\ \A j \in 1 .. Num(l.n_in) : j \in DOMAIN l.ins /\ Num(l.ins[j]) \in Nat
  <2> SUFFICES ASSUME IOError(l) = "E_NOERR"
               PROVE  /\ Num(l.id) \in Nat /\ Num(l.n_in) \in {1, 2}
                      /\ \A j \in 1 .. Num(l.n_in) :
                           j \in DOMAIN l.ins /\ Num(l.ins[j]) \in Nat
    OBVIOUS
  <2>1. io[3] = "E_NOERR" /\ io[4] = "E_NOERR" /\ io[5] = "E_NOERR" /\ io[8] = "E_NOERR"
    BY <1>5
  <2>2. Num(l.id) \in Nat /\ Num(l.n_in) \in {1, 2} /\ OperandError(l, 1) = "E_NOERR"
    BY <1>1, <2>1, NumErrorIs DEF Check
  <2>3. Num(l.n_in) = 2 => OperandError(l, 2) = "E_NOERR"
    BY <2>1 DEF Check
  <2> QED
    BY <1>2, <2>2, <2>3
<1>7. GateError(l) = FirstError(gate) /\ DOMAIN gate = 1 .. 3
  BY DEF GateError
<1>8. \A n \in 1 .. 3 : gate[n] \in Errors \cup {"crash"}
  BY <1>5 DEF Check, Errors, ConstError, ArityError
<1>9. /\ GateError(l) \in Errors \cup {"crash"}
      /\ GateError(l) = "E_NOERR" => IOError(l) = "E_NOERR" /\ ArityError(l) = "E_NOERR"
  <2>1. gate[2] = IOError(l) /\ gate[3] = ArityError(l)
    OBVIOUS
  <2>2. 3 \in Nat
    OBVIOUS
  <2> HIDE DEF gate
  <2>3. \/ FirstError(gate) = "E_NOERR" /\ \A n \in 1 .. 3 : gate[n] = "E_NOERR"
        \/ \E n \in 1 .. 3 : gate[n] # "E_NOERR" /\ FirstError(gate) = gate[n]
    BY ONLY <1>7, <2>2, FirstErrorIs
  <2> QED
    BY <1>7, <1>8, <2>1, <2>3
<1>10. ArityError(l) = "E_NOERR" => Num(l.n_in) = Arity(TypeOf(l.verb))
  BY DEF ArityError, Check, Arity, TypeOf, GateVerbs, InputTypes, BinaryTypes
<1> HIDE DEF io, gate
<1> QED
  BY <1>6, <1>9, <1>10 DEF LineError

\* The gate an error-free line makes.
LEMMA LineIs ==
  ASSUME NEW l \in Lines
  PROVE  /\ LineError(l) \in Errors \cup {"crash"}
         /\ LineError(l) = "E_NOERR" =>
              /\ Num(l.id) \in Nat /\ Num(l.id) \in {0} \cup ({k.id : k \in Lines} \cap Nat)
              /\ l.verb \in NumVerbs \cup GateVerbs =>
                   /\ Ids(l) \in Seq(Nat) /\ Len(Ids(l)) = Arity(TypeOf(l.verb))
                   /\ TypeOf(l.verb) \in GateTypes
<1>1. /\ l.verb \in {"total", "input", "one-input", "add", "mul", "const-mul", "unknown"}
      /\ l.id \in Tokens
  BY LinesAssumption
<1>2. Num(l.id) \in Nat => Num(l.id) \in {0} \cup ({k.id : k \in Lines} \cap Nat)
  BY <1>1, TokensAssumption DEF Num
<1>3. CASE l.verb \in GateVerbs
  <2>1. TypeOf(l.verb) \in GateTypes
    BY <1>3 DEF GateVerbs, TypeOf, GateTypes, InputTypes, BinaryTypes
  <2>2. Arity(TypeOf(l.verb)) \in Nat
    BY DEF Arity
  <2>3. LineError(l) = "E_NOERR" =>
          Ids(l) \in [1 .. Arity(TypeOf(l.verb)) -> Nat]
    BY <1>3, GateLineIs DEF Ids
  <2> QED
    BY <1>2, <1>3, <2>1, <2>2, <2>3, GateLineIs
<1>4. CASE l.verb \notin GateVerbs
  <2>1. LineError(l) \in Errors
    BY <1>1, <1>4, NumErrorIs DEF LineError, Errors
  <2>2. LineError(l) = "E_NOERR" => Num(l.id) \in Nat
    BY <1>1, <1>4, NumErrorIs DEF LineError
  <2>3. Ids(l) = <<>> /\ (l.verb \in NumVerbs => Arity(TypeOf(l.verb)) = 0
                                                   /\ TypeOf(l.verb) \in GateTypes)
    BY <1>4 DEF Ids, NumVerbs, TypeOf, Arity, InputTypes, GateTypes
  <2> QED
    BY <1>2, <1>4, <2>1, <2>2, <2>3
<1> QED
  BY <1>3, <1>4

-----------------------------------------------------------------------------
(***************************************************************************)
(* Adjacency lists                                                         *)
(***************************************************************************)
\* Counting in a finite list.
LEMMA CountIs ==
  ASSUME NEW S, NEW s \in Seq(S), NEW x
  PROVE  /\ CountOf(s, x) \in Nat
         /\ IsFiniteSet({n \in DOMAIN s : s[n] = x})
<1> DEFINE T == {n \in DOMAIN s : s[n] = x}
<1>1. 1 \in Int /\ Len(s) \in Int
  OBVIOUS
<1>2. IsFiniteSet(1 .. Len(s))
  BY ONLY <1>1, FS_Interval
<1>3. T \in SUBSET (1 .. Len(s))
  OBVIOUS
<1>4. IsFiniteSet(T) /\ Cardinality(T) \in Nat
  BY <1>2, <1>3, FS_Subset, FS_CardinalityType
<1> QED
  BY <1>4 DEF CountOf

Edges(m, dest) == [j \in 1 .. m |-> dest]

\* A list that gets m edges to dest in front has m more of them.
LEMMA CountInFront ==
  ASSUME NEW S, NEW s \in Seq(S), NEW m \in Nat, NEW dest \in S
  PROVE  /\ Edges(m, dest) \o s \in Seq(S)
         /\ Len(Edges(m, dest) \o s) = m + Len(s)
         /\ \A g : /\ g = dest => CountOf(Edges(m, dest) \o s, g) = m + CountOf(s, g)
                   /\ g # dest => CountOf(Edges(m, dest) \o s, g) = CountOf(s, g)
<1>0. PICK t : t = Edges(m, dest) \o s
  OBVIOUS
<1> SUFFICES ASSUME NEW g
             PROVE  /\ t \in Seq(S) /\ Len(t) = m + Len(s)
                    /\ g = dest => CountOf(t, g) = m + CountOf(s, g)
                    /\ g # dest => CountOf(t, g) = CountOf(s, g)
  BY <1>0
<1> DEFINE r == Edges(m, dest)
           A == {n \in 1 .. m : r[n] = g}
           B == {n \in DOMAIN s : s[n] = g}
           C == {n \in (m + 1) .. (m + Len(s)) : t[n] = g}
           shift == [n \in B |-> n + m]
<1>1. r \in Seq(S) /\ Len(r) = m /\ \A n \in 1 .. m : r[n] = dest
  BY DEF Edges
<1>2. /\ t \in Seq(S) /\ Len(t) = m + Len(s)
      /\ \A n \in 1 .. m : t[n] = dest
      /\ \A n \in 1 .. Len(s) : t[m + n] = s[n]
  <2>1. t = r \o s
    BY <1>0
  <2> HIDE DEF r
  <2>2. /\ r \o s \in Seq(S) /\ Len(r \o s) = m + Len(s)
        /\ \A n \in 1 .. (m + Len(s)) : (r \o s)[n] = IF n <= m THEN r[n] ELSE s[n - m]
    BY <1>1
  <2>3. /\ t \in Seq(S) /\ Len(t) = m + Len(s)
        /\ \A n \in 1 .. (m + Len(s)) : t[n] = IF n <= m THEN r[n] ELSE s[n - m]
    BY <2>1, <2>2
  <2>4. ASSUME NEW n \in 1 .. Len(s) PROVE t[m + n] = s[n]
    <3>1. m + n \in 1 .. (m + Len(s)) /\ ~ (m + n <= m) /\ (m + n) - m = n
      OBVIOUS
    <3> QED
      BY <2>3, <3>1
  <2> QED
    BY <1>1, <2>3, <2>4
<1>3. \A n \in (m + 1) .. (m + Len(s)) : n - m \in 1 .. Len(s) /\ t[n] = s[n - m]
  <2> SUFFICES ASSUME NEW n \in (m + 1) .. (m + Len(s))
               PROVE  n - m \in 1 .. Len(s) /\ t[n] = s[n - m]
    OBVIOUS
  <2>1. n - m \in 1 .. Len(s) /\ m + (n - m) = n
    OBVIOUS
  <2> QED
    BY <1>2, <2>1
<1>4. {n \in DOMAIN t : t[n] = g} = A \cup C /\ A \cap C = {}
  <2>1. DOMAIN t = 1 .. (m + Len(s))
    BY <1>2
  <2>2. \A n \in 1 .. m : t[n] = r[n]
    BY <1>1, <1>2
  <2>3. A = {n \in 1 .. m : t[n] = g}
    BY <2>2
  <2>4. 1 .. (m + Len(s)) = (1 .. m) \cup ((m + 1) .. (m + Len(s)))
    OBVIOUS
  <2>5. (1 .. m) \cap ((m + 1) .. (m + Len(s))) = {}
    OBVIOUS
  <2> QED
    BY <2>1, <2>3, <2>4, <2>5
<1>5. shift \in Bijection(B, C)
  <2>1. shift \in [B -> C]
    BY <1>2
  <2>2. \A a, b \in B : shift[a] = shift[b] => a = b
    OBVIOUS
  <2>3. \A n \in C : \E b \in B : shift[b] = n
    <3> SUFFICES ASSUME NEW n \in C PROVE n - m \in B /\ shift[n - m] = n
      OBVIOUS
    <3>1. n \in (m + 1) .. (m + Len(s)) /\ t[n] = g
      OBVIOUS
    <3>2. n - m \in 1 .. Len(s) /\ s[n - m] = g
      BY <1>3, <3>1
    <3> QED
      BY <3>1, <3>2
  <2> QED
    BY <2>1, <2>2, <2>3 DEF Bijection, Injection, Surjection, IsInjective
<1>6. IsFiniteSet(B) /\ Cardinality(B) = CountOf(s, g) /\ CountOf(s, g) \in Nat
  <2>1. s \in Seq(S)
    OBVIOUS
  <2>2. CountOf(s, g) \in Nat /\ IsFiniteSet({n \in DOMAIN s : s[n] = g})
    BY ONLY <2>1, CountIs
  <2> QED
    BY ONLY <2>2 DEF CountOf
<1>7. IsFiniteSet(C) /\ Cardinality(C) = CountOf(s, g)
  <2>1. ExistsBijection(B, C)
    BY <1>5 DEF ExistsBijection
  <2> QED
    BY <1>6, <2>1, FS_Bijection
<1>8. IsFiniteSet(A) /\ Cardinality(A) = IF g = dest THEN m ELSE 0
  <2>1. A = IF g = dest THEN 1 .. m ELSE {}
    BY <1>1
  <2> QED
    <3>1. 1 \in Int /\ m \in Int
      OBVIOUS
    <3>2. IsFiniteSet(1 .. m) /\ Cardinality(1 .. m) = IF 1 > m THEN 0 ELSE m - 1 + 1
      BY ONLY <3>1, FS_Interval
    <3> HIDE DEF A
    <3> QED
      BY <2>1, <3>2, FS_EmptySet
<1>9. Cardinality(A \cup C) = Cardinality(A) + Cardinality(C)
  <2>1. Cardinality(A \cap C) = 0
    BY <1>4, FS_EmptySet
  <2>2. Cardinality(A) \in Nat /\ Cardinality(C) \in Nat
    BY <1>6, <1>7, <1>8, FS_CardinalityType
  <2> HIDE DEF A, C
  <2>3. IsFiniteSet(A) /\ IsFiniteSet(C)
    BY <1>7, <1>8
  <2>4. Cardinality(A \cup C) = Cardinality(A) + Cardinality(C) - Cardinality(A \cap C)
    BY ONLY <2>3, FS_Union
  <2> QED
    BY <2>1, <2>2, <2>4
<1> QED
  BY <1>2, <1>4, <1>6, <1>7, <1>8, <1>9 DEF CountOf

\* graph_add_edge, for each operand, on the list of a gate.
LEMMA EdgesAdded ==
  ASSUME NEW S, NEW adj, NEW k \in DOMAIN adj, adj[k] \in Seq(S),
         NEW ids \in Seq(Nat), NEW dest \in S
  PROVE  /\ AddEdges(adj, ids, dest)[k] \in Seq(S)
         /\ Len(AddEdges(adj, ids, dest)[k]) = CountOf(ids, k) + Len(adj[k])
         /\ \A g :
              /\ g = dest => CountOf(AddEdges(adj, ids, dest)[k], g) =
                               CountOf(ids, k) + CountOf(adj[k], g)
              /\ g # dest => CountOf(AddEdges(adj, ids, dest)[k], g) = CountOf(adj[k], g)
<1>1. PICK m, s : m = CountOf(ids, k) /\ s = adj[k]
  OBVIOUS
<1>2. AddEdges(adj, ids, dest)[k] = Edges(m, dest) \o s
  BY <1>1 DEF AddEdges, Edges
<1>3. s \in Seq(S) /\ m \in Nat /\ dest \in S
  BY <1>1, CountIs
<1>4. /\ Edges(m, dest) \o s \in Seq(S)
      /\ Len(Edges(m, dest) \o s) = m + Len(s)
      /\ \A g : /\ g = dest => CountOf(Edges(m, dest) \o s, g) = m + CountOf(s, g)
                /\ g # dest => CountOf(Edges(m, dest) \o s, g) = CountOf(s, g)
  BY ONLY <1>3, CountInFront
<1> QED
  BY <1>1, <1>2, <1>4

-----------------------------------------------------------------------------
(***************************************************************************)
(* Types                                                                   *)
(***************************************************************************)
Sizes == {0} \cup ({l.id : l \in Lines} \cap Nat)

TypeInv ==
  /\ TypeOK
  /\ seen \in Seq(Lines)
  /\ n_inputs <= Len(seen)
  /\ graph # NULL => graph.n_nodes \in Sizes

\* What a line with a gate does, when no assertion fails.
LEMMA GateLineDoes ==
  ASSUME TypeInv, NEW l \in Lines, GateLine(l), NEW n, n = graph.n_nodes, NEW id, id = Num(l.id)
  PROVE  /\ graph # NULL /\ n \in Nat /\ id \in 0 .. (n - 1)
         /\ graph \in GraphsOf(n) /\ graph' \in GraphsOf(n) /\ graph' # NULL /\ n \in Sizes
         /\ graph'.adj = AddEdges(graph.adj, Ids(l), id)
         /\ gates' = [gates EXCEPT ![id] = GateOf(l)]
         /\ DOMAIN gates = 0 .. (n - 1)
         /\ Ids(l) \in Seq(0 .. (n - 1)) /\ IsGate(Parsed, GateOf(l))
         /\ n_inputs' = n_inputs + CountInput(l) /\ n_inputs' \in 0 .. Len(seen')
         /\ seen' = Append(seen, l) /\ seen' \in Seq(Lines) /\ Len(seen') <= MaxLines
         /\ UNCHANGED <<pc, err>> /\ pc = "parsing"
<1>1. /\ graph # NULL /\ n \in Nat /\ graph \in GraphsOf(n) /\ DOMAIN gates = 0 .. (n - 1)
      /\ id < n /\ \A j \in DOMAIN Ids(l) : Ids(l)[j] < n
  BY DEF TypeInv, TypeOK, GateLine, Asserted, InGraph, Gates, Parsed
<1>2. /\ id \in Nat /\ Ids(l) \in Seq(Nat) /\ Len(Ids(l)) = Arity(TypeOf(l.verb))
      /\ TypeOf(l.verb) \in GateTypes
  BY LineIs DEF GateLine
<1>3. Ids(l) \in Seq(0 .. (n - 1)) /\ id \in 0 .. (n - 1)
  BY <1>1, <1>2
<1>4. IsGate(Parsed, GateOf(l))
  BY <1>2, <1>3 DEF IsGate, GateOf, Gates, Parsed
<1>5. /\ seen' = Append(seen, l) /\ seen' \in Seq(Lines) /\ Len(seen') = Len(seen) + 1
      /\ Len(seen') <= MaxLines /\ pc = "parsing" /\ UNCHANGED <<pc, err>>
  BY MaxLinesAssumption DEF GateLine, ReadLine, TypeInv
<1>6. n_inputs' = n_inputs + CountInput(l) /\ n_inputs' \in 0 .. Len(seen')
  BY <1>5 DEF GateLine, CountInput, TypeInv, TypeOK
<1>7. gates' = [gates EXCEPT ![id] = GateOf(l)]
  BY DEF GateLine, Store
<1>8. /\ graph' = [graph EXCEPT !.adj = AddEdges(graph.adj, Ids(l), id),
                  !.n_inputs = IF l.verb \in NumVerbs THEN n_inputs' ELSE graph.n_inputs]
  BY DEF GateLine
<1>9. graph.adj \in [0 .. (n - 1) -> Seq(0 .. (n - 1))] /\ graph.n_inputs \in 0 .. MaxLines
  BY <1>1 DEF GraphsOf
<1>10. AddEdges(graph.adj, Ids(l), id) \in [0 .. (n - 1) -> Seq(0 .. (n - 1))]
  <2>1. PICK adj, ids : adj = graph.adj /\ ids = Ids(l)
    OBVIOUS
  <2>2. ASSUME NEW k \in 0 .. (n - 1)
        PROVE  AddEdges(adj, ids, id)[k] \in Seq(0 .. (n - 1))
    <3>1. /\ k \in DOMAIN adj /\ adj[k] \in Seq(0 .. (n - 1)) /\ ids \in Seq(Nat)
          /\ id \in 0 .. (n - 1)
      BY <1>2, <1>3, <1>9, <2>1
    <3> QED
      BY ONLY <3>1, EdgesAdded
  <2>3. AddEdges(adj, ids, id) =
          [k \in DOMAIN adj |-> [j \in 1 .. CountOf(ids, k) |-> id] \o adj[k]]
    BY DEF AddEdges
  <2> QED
    BY <1>9, <2>1, <2>2, <2>3
<1>11. n_inputs' \in 0 .. MaxLines
  BY <1>5, <1>6, MaxLinesAssumption
<1>12. graph' \in GraphsOf(n) /\ graph'.adj = AddEdges(graph.adj, Ids(l), id)
  BY <1>1, <1>8, <1>9, <1>10, <1>11 DEF GraphsOf
<1>13. n \in Sizes
  BY <1>1 DEF TypeInv
<1>14. graph' # NULL
  BY <1>12, <1>13, NullAssumption DEF Sizes
<1> QED
  BY <1>1, <1>3, <1>4, <1>5, <1>6, <1>7, <1>12, <1>13, <1>14

\* The types hold before the first line, and after every line.
LEMMA TypeInit == Init => TypeInv
BY MaxLinesAssumption DEF Init, TypeInv, TypeOK

\* Every line keeps the types.
LEMMA TypeStep ==
  ASSUME TypeInv, [Next]_vars
  PROVE  TypeInv'
<1>1. ASSUME NEW l \in Lines, TotalLine(l)
      PROVE  TypeInv'
  <2> DEFINE n == Num(l.id)
  <2>1. n \in Nat
    BY <1>1, LineIs DEF TotalLine
  <2>2. graph' \in GraphsOf(n) /\ graph'.n_nodes = n
    BY <1>1, <2>1, MaxLinesAssumption DEF TotalLine, GraphsOf
  <2>3. gates' = [k \in 0 .. (n - 1) |-> NULL]
    BY <1>1 DEF TotalLine
  <2>4. /\ seen' \in Seq(Lines) /\ Len(seen') = Len(seen) + 1 /\ Len(seen') <= MaxLines
        /\ UNCHANGED <<pc, n_inputs, err>>
    BY <1>1, MaxLinesAssumption DEF TotalLine, ReadLine, TypeInv
  <2>5. graph' # NULL /\ n \in Sizes
    BY <1>1, <2>1, <2>2, NullAssumption, LineIs DEF TotalLine, Sizes
  <2> HIDE DEF n
  <2>6. n_inputs' <= Len(seen')
    BY <2>4 DEF TypeInv, TypeOK
  <2>7. Gates(Parsed)' = 0 .. (n - 1)
    BY <2>2 DEF Gates, Parsed
  <2>8. TypeOK'
    BY <2>1, <2>2, <2>3, <2>4, <2>5, <2>7 DEF TypeInv, TypeOK
  <2> QED
    BY <2>2, <2>4, <2>5, <2>6, <2>8 DEF TypeInv
<1>2. ASSUME NEW l \in Lines, GateLine(l)
      PROVE  TypeInv'
  <2>1. PICK n, id : n = graph.n_nodes /\ id = Num(l.id)
    OBVIOUS
  <2>2. /\ graph # NULL /\ n \in Nat /\ id \in 0 .. (n - 1)
        /\ graph' \in GraphsOf(n) /\ graph' # NULL /\ n \in Sizes
        /\ gates' = [gates EXCEPT ![id] = GateOf(l)]
        /\ DOMAIN gates = 0 .. (n - 1) /\ IsGate(Parsed, GateOf(l))
        /\ n_inputs' \in 0 .. Len(seen') /\ seen' \in Seq(Lines) /\ Len(seen') <= MaxLines
        /\ UNCHANGED <<pc, err>>
    BY <1>2, <2>1, GateLineDoes
  <2>3. graph'.n_nodes = n /\ Gates(Parsed) = 0 .. (n - 1) /\ Gates(Parsed)' = 0 .. (n - 1)
    BY <2>1, <2>2 DEF GraphsOf, Gates, Parsed
  <2>4. \A gate : IsGate(Parsed, gate) <=> IsGate(Parsed, gate)'
    BY <2>3 DEF IsGate
  <2>5. n_inputs' \in 0 .. MaxLines
    BY <2>2, MaxLinesAssumption
  <2>6. \A g \in 0 .. (n - 1) : gates'[g] = NULL \/ IsGate(Parsed, gates'[g])
    BY <2>2, <2>3 DEF TypeInv, TypeOK
  <2>7. \A g \in 0 .. (n - 1) : (gates[g] = NULL \/ IsGate(Parsed, gates[g]))'
    BY <2>3, <2>6 DEF IsGate
  <2> QED
    BY <2>2, <2>3, <2>5, <2>7 DEF TypeInv, TypeOK
<1>3. ASSUME NEW l \in Lines, RejectLine(l)
      PROVE  TypeInv'
  <2>1. LineError(l) \in Errors
    BY <1>3, LineIs DEF RejectLine
  <2>2. seen' \in Seq(Lines) /\ Len(seen') = Len(seen) + 1 /\ Len(seen') <= MaxLines
    BY <1>3, MaxLinesAssumption DEF RejectLine, ReadLine, TypeInv
  <2> QED
    BY <1>3, <2>1, <2>2 DEF RejectLine, TypeInv, TypeOK, Errors
<1>4. ASSUME NEW l \in Lines, AssertLine(l) \/ CrashLine(l)
      PROVE  TypeInv'
  <2>1. seen' \in Seq(Lines) /\ Len(seen') = Len(seen) + 1 /\ Len(seen') <= MaxLines
    BY <1>4, MaxLinesAssumption DEF AssertLine, CrashLine, ReadLine, TypeInv
  <2>2. UNCHANGED <<graph, gates, n_inputs, err>> /\ pc' \in {"aborted", "crashed"}
    BY <1>4 DEF AssertLine, CrashLine
  <2> QED
    BY <2>1, <2>2 DEF TypeInv, TypeOK, Parsed, Gates, IsGate
<1>5. CASE SkipLine \/ EndOfFile \/ AssertSort \/ Returned \/ UNCHANGED vars
  <2>1. UNCHANGED <<graph, gates, n_inputs, err, seen>> /\ pc' \in {pc, "done", "aborted"}
    BY <1>5 DEF SkipLine, EndOfFile, AssertSort, Returned, vars
  <2> QED
    BY <2>1 DEF TypeInv, TypeOK, Parsed, Gates, IsGate
<1> QED
  BY <1>1, <1>2, <1>3, <1>4, <1>5 DEF Next

-----------------------------------------------------------------------------
(***************************************************************************)
(* The adjacency lists cover the operands.                                 *)
(***************************************************************************)
\* A gate line adds an edge per operand of its gate, and no list loses one.
LEMMA EdgesStep ==
  ASSUME TypeInv, EdgesCoverOperands, [Next]_vars
  PROVE  EdgesCoverOperands'
<1>1. ASSUME NEW l \in Lines, GateLine(l)
      PROVE  EdgesCoverOperands'
  <2>1. PICK n, id : n = graph.n_nodes /\ id = Num(l.id)
    OBVIOUS
  <2>2. /\ graph # NULL /\ n \in Nat /\ id \in 0 .. (n - 1) /\ graph \in GraphsOf(n)
        /\ graph'.adj = AddEdges(graph.adj, Ids(l), id)
        /\ gates' = [gates EXCEPT ![id] = GateOf(l)]
        /\ DOMAIN gates = 0 .. (n - 1) /\ Ids(l) \in Seq(0 .. (n - 1))
    BY <1>1, <2>1, GateLineDoes
  <2>3. graph.adj \in [0 .. (n - 1) -> Seq(0 .. (n - 1))] /\ Ids(l) \in Seq(Nat)
    BY <2>2 DEF GraphsOf
  <2> SUFFICES ASSUME NEW g \in 0 .. (n - 1), NEW k \in 0 .. (n - 1), gates'[g] # NULL
               PROVE  CountOf(graph'.adj[k], g) >= CountOf(gates'[g].input_ids, k)
    BY <2>2 DEF EdgesCoverOperands, CountOf
  <2>4. /\ g = id => CountOf(graph'.adj[k], g) = CountOf(Ids(l), k) + CountOf(graph.adj[k], g)
        /\ g # id => CountOf(graph'.adj[k], g) = CountOf(graph.adj[k], g)
    <3>1. PICK adj, ids, S : adj = graph.adj /\ ids = Ids(l) /\ S = 0 .. (n - 1)
      OBVIOUS
    <3>2. k \in DOMAIN adj /\ adj[k] \in Seq(S) /\ ids \in Seq(Nat) /\ id \in S
      BY <2>2, <2>3, <3>1
    <3>3. \A h :
            /\ h = id => CountOf(AddEdges(adj, ids, id)[k], h) =
                           CountOf(ids, k) + CountOf(adj[k], h)
            /\ h # id => CountOf(AddEdges(adj, ids, id)[k], h) = CountOf(adj[k], h)
      BY ONLY <3>2, EdgesAdded
    <3> QED
      BY <2>2, <3>1, <3>3
  <2>5. graph.adj[k] \in Seq(0 .. (n - 1))
    BY <2>3
  <2>6. CountOf(graph.adj[k], g) \in Nat
    BY ONLY <2>5, CountIs
  <2>7. CountOf(Ids(l), k) \in Nat
    BY ONLY <2>3, CountIs
  <2>8. CASE g = id
    <3>1. gates'[g].input_ids = Ids(l)
      BY <2>2, <2>8 DEF GateOf
    <3> QED
      BY <2>4, <2>6, <2>7, <2>8, <3>1
  <2>9. CASE g # id
    <3>1. gates'[g] = gates[g]
      BY <2>2, <2>9
    <3>2. CountOf(graph.adj[k], g) >= CountOf(gates[g].input_ids, k)
      BY <2>2, <3>1 DEF EdgesCoverOperands
    <3> QED
      BY <2>4, <2>6, <2>9, <3>1, <3>2
  <2> QED
    BY <2>8, <2>9
<1>2. ASSUME NEW l \in Lines, TotalLine(l)
      PROVE  EdgesCoverOperands'
  <2>1. \A g \in DOMAIN gates' : gates'[g] = NULL
    BY <1>2 DEF TotalLine
  <2> QED
    BY <2>1 DEF EdgesCoverOperands
<1>3. ASSUME NEW l \in Lines, RejectLine(l)
      PROVE  EdgesCoverOperands'
  BY <1>3 DEF RejectLine, EdgesCoverOperands
<1>4. CASE UNCHANGED <<graph, gates>>
  BY <1>4 DEF EdgesCoverOperands, CountOf
<1>5. \/ \E l \in Lines : TotalLine(l) \/ GateLine(l) \/ RejectLine(l)
      \/ UNCHANGED <<graph, gates>>
  BY DEF Next, AssertLine, CrashLine, SkipLine, EndOfFile, AssertSort, Returned, vars
<1> QED
  BY <1>1, <1>2, <1>3, <1>4, <1>5

-----------------------------------------------------------------------------
(***************************************************************************)
(* Legal files.  While no rule is broken, the circuit holds the gate of    *)
(* every line, the counter of inputs is the number of their ids, and the   *)
(* list of k has the length of the operand positions that hold k.          *)
(***************************************************************************)
Defined == {seen[n].id : n \in 2 .. Len(seen)}
InputIds == {seen[n].id : n \in {m \in 2 .. Len(seen) : seen[m].verb \in NumVerbs}}
Positions(k) ==
  {u \in Defined \X {1, 2} : /\ u[2] \in DOMAIN gates[u[1]].input_ids
                             /\ gates[u[1]].input_ids[u[2]] = k}

Stored == \A n \in 2 .. Len(seen) : gates[seen[n].id] = GateOf(seen[n])
Counted == IsFiniteSet(InputIds) /\ n_inputs = Cardinality(InputIds)
Listed ==
  \A k \in 0 .. (Total - 1) :
    IsFiniteSet(Positions(k)) /\ Len(graph.adj[k]) = Cardinality(Positions(k))

LegalInv ==
  Legal =>
    /\ pc \in {"parsing", "done"} \/ (pc = "aborted" /\ SortFails)
    /\ graph # NULL /\ graph.n_nodes = Total
    /\ Stored /\ Counted /\ Listed

\* A line that breaks no rule has no error, and means what it says.
LEMMA LegalLineIs ==
  ASSUME NEW l \in Lines, NEW n \in Nat, LegalLine(l, n)
  PROVE  /\ LineError(l) = "E_NOERR" /\ l.verb \in NumVerbs \cup GateVerbs
         /\ Num(l.id) = l.id /\ l.id \in 0 .. (n - 1)
         /\ Ids(l) \in Seq(0 .. (n - 1)) /\ DOMAIN Ids(l) \subseteq {1, 2}
         /\ Len(Ids(l)) = Arity(TypeOf(l.verb)) /\ TypeOf(l.verb) \in GateTypes
<1>1. l.id \in Nat /\ l.id \in Tokens /\ Num(l.id) = l.id /\ NumError(l.id) = "E_NOERR"
  <2>1. l.id \in Nat
    BY DEF LegalLine
  <2> QED
    BY <2>1, NumErrorIs DEF Tokens
<1>2. CASE l.verb \in NumVerbs
  <2>1. l.verb \notin GateVerbs /\ l.verb # "unknown"
    BY <1>2 DEF NumVerbs, GateVerbs
  <2>2. LineError(l) = "E_NOERR"
    BY <1>1, <2>1 DEF LineError
  <2> QED
    BY <1>1, <1>2, <2>1, <2>2
       DEF LegalLine, Ids, NumVerbs, TypeOf, Arity, InputTypes, GateTypes
<1>3. CASE l.verb \in GateVerbs
  <2>1. /\ l.matches /\ l.n_out = 1 /\ l.const \in Nat
        /\ l.n_in = IF l.verb = "const-mul" THEN 1 ELSE 2
        /\ l.ins \in [1 .. l.n_in -> 0 .. (n - 1)]
    BY <1>3 DEF LegalLine, NumVerbs, GateVerbs
  <2>2. /\ l.n_in \in {1, 2} /\ Num(l.n_in) = l.n_in /\ NumError(l.n_in) = "E_NOERR"
        /\ Num(l.n_out) = 1 /\ NumError(l.n_out) = "E_NOERR"
    BY <2>1, NumErrorIs DEF Tokens
  <2>3. \A j \in 1 .. l.n_in : Num(l.ins[j]) = l.ins[j] /\ NumError(l.ins[j]) = "E_NOERR"
    BY <2>1, NumErrorIs DEF Tokens
  <2>4. Len(l.ins) = l.n_in
    BY <2>1, <2>2
  <2>5. \A j \in 1 .. l.n_in : OperandError(l, j) = "E_NOERR"
    BY <2>2, <2>3, <2>4 DEF OperandError
  <2>6. IOError(l) = "E_NOERR"
    <3>1. PICK io : io = <<Check(l.matches, "E_REGEX_ERROR"), NumError(l.n_in),
                   Check(Num(l.n_in) \in {1, 2}, "E_GATE_INPUTS"), OperandError(l, 1),
                   Check(Num(l.n_in) = 1, OperandError(l, 2)), NumError(l.n_out),
                   Check(Num(l.n_out) = 1, "E_GATE_OUTPUT"), NumError(l.id)>>
      OBVIOUS
    <3>2. OperandError(l, 1) = "E_NOERR" /\ (l.n_in = 2 => OperandError(l, 2) = "E_NOERR")
      BY <2>2, <2>5
    <3>3. DOMAIN io = 1 .. 8 /\ \A m \in 1 .. 8 : io[m] = "E_NOERR"
      BY <1>1, <2>1, <2>2, <3>1, <3>2 DEF Check
    <3>4. IOError(l) = FirstError(io)
      BY <3>1 DEF IOError
    <3> QED
      BY <3>3, <3>4 DEF FirstError
  <2>7. ArityError(l) = "E_NOERR"
    BY <2>1, <2>2 DEF ArityError, Check
  <2>8. GateError(l) = "E_NOERR"
    <3>1. ConstError(l.const) = "E_NOERR"
      BY <2>1, TokensAssumption DEF ConstError, Check
    <3>2. PICK gate : gate = <<IF l.verb = "const-mul" THEN ConstError(l.const)
                               ELSE "E_NOERR", IOError(l), ArityError(l)>>
      OBVIOUS
    <3>3. DOMAIN gate = 1 .. 3 /\ \A m \in 1 .. 3 : gate[m] = "E_NOERR"
      BY <2>6, <2>7, <3>1, <3>2
    <3>4. GateError(l) = FirstError(gate)
      BY <3>2 DEF GateError
    <3> QED
      BY <3>3, <3>4 DEF FirstError
  <2>9. LineError(l) = "E_NOERR"
    BY <1>3, <2>8 DEF LineError
  <2>10. Ids(l) \in [1 .. l.n_in -> 0 .. (n - 1)]
    BY <1>3, <2>1, <2>2, <2>3 DEF Ids
  <2>11. l.n_in = Arity(TypeOf(l.verb)) /\ TypeOf(l.verb) \in GateTypes
    BY <1>3, <2>1 DEF GateVerbs, TypeOf, Arity, InputTypes, BinaryTypes, GateTypes
  <2> QED
    BY <1>1, <1>3, <2>2, <2>9, <2>10, <2>11 DEF LegalLine
<1> QED
  BY <1>2, <1>3 DEF LegalLine

\* A legal file is a "total", or a legal file and one more line.
LEMMA LegalBefore ==
  ASSUME TypeInv, NEW l \in Lines, seen' = Append(seen, l), Legal'
  PROVE  \/ Len(seen) = 0 /\ l.verb = "total" /\ l.id \in Nat
         \/ /\ Legal /\ Len(seen) >= 1 /\ Total' = Total /\ LegalLine(l, Total)
            /\ \A n \in 2 .. Len(seen) : seen[n].id # l.id
<1>1. /\ seen \in Seq(Lines) /\ Len(seen) \in Nat /\ Len(seen') = Len(seen) + 1
      /\ \A n \in 1 .. Len(seen) : seen'[n] = seen[n]
      /\ seen'[Len(seen) + 1] = l
  BY DEF TypeInv
<1>2. CASE Len(seen) = 0
  <2>1. seen'[1].verb = "total" /\ seen'[1].id \in Nat /\ seen'[1] = l
    BY <1>1, <1>2 DEF Legal, Total
  <2> QED
    BY <1>2, <2>1
<1>3. CASE Len(seen) >= 1
  <2>1. seen'[1] = seen[1] /\ seen # <<>>
    BY <1>1, <1>3
  <2>2. Total' = Total
    BY <2>1 DEF Total
  <2>3. /\ Legal
        /\ LegalLine(l, Total)
    BY <1>1, <1>3, <2>1, <2>2 DEF Legal, Total
  <2>4. ASSUME NEW n \in 2 .. Len(seen) PROVE seen[n].id # l.id
    <3>1. n \in 2 .. Len(seen') /\ Len(seen) + 1 \in 2 .. Len(seen') /\ n # Len(seen) + 1
      BY <1>1, <1>3
    <3>2. seen'[n].id # seen'[Len(seen) + 1].id
      BY <3>1 DEF Legal
    <3> QED
      BY <1>1, <3>2
  <2> QED
    BY <1>3, <2>2, <2>3, <2>4
<1> QED
  BY <1>1, <1>2, <1>3

\* A gate that is new adds its own operand positions to those before.
LEMMA PositionsAdded ==
  ASSUME NEW id, NEW ids, DOMAIN ids \subseteq {1, 2}, NEW k,
         NEW D, id \notin D, NEW P, NEW Q, IsFiniteSet(P),
         P \subseteq D \X {1, 2},
         Q = P \cup {u \in {id} \X {1, 2} : u[2] \in DOMAIN ids /\ ids[u[2]] = k}
  PROVE  IsFiniteSet(Q) /\ Cardinality(Q) = CountOf(ids, k) + Cardinality(P)
<1> DEFINE J == {j \in DOMAIN ids : ids[j] = k}
           R == {u \in {id} \X {1, 2} : u[2] \in DOMAIN ids /\ ids[u[2]] = k}
           f == [j \in J |-> <<id, j>>]
<1>1. IsFiniteSet(J) /\ Cardinality(J) \in Nat
  <2>1. 1 \in Int /\ 2 \in Int
    OBVIOUS
  <2>2. IsFiniteSet(1 .. 2)
    BY ONLY <2>1, FS_Interval
  <2>3. J \in SUBSET (1 .. 2)
    OBVIOUS
  <2> QED
    BY <2>2, <2>3, FS_Subset, FS_CardinalityType
<1>2. f \in Bijection(J, R)
  <2>1. f \in [J -> R]
    OBVIOUS
  <2>2. \A a, b \in J : f[a] = f[b] => a = b
    OBVIOUS
  <2>3. \A u \in R : \E j \in J : f[j] = u
    OBVIOUS
  <2> QED
    BY <2>1, <2>2, <2>3 DEF Bijection, Injection, Surjection, IsInjective
<1>3. IsFiniteSet(R) /\ Cardinality(R) = Cardinality(J)
  <2>1. ExistsBijection(J, R)
    BY <1>2 DEF ExistsBijection
  <2> QED
    BY <1>1, <2>1, FS_Bijection
<1>4. P \cap R = {} /\ Q = P \cup R
  OBVIOUS
<1>5. Cardinality(J) = CountOf(ids, k)
  BY DEF CountOf
<1> HIDE DEF J, R, f
<1>6. IsFiniteSet(P) /\ IsFiniteSet(R)
  BY <1>3
<1>7. /\ IsFiniteSet(P \cup R)
      /\ Cardinality(P \cup R) = Cardinality(P) + Cardinality(R) - Cardinality(P \cap R)
  BY ONLY <1>6, FS_Union
<1>8. Cardinality(P \cap R) = 0 /\ Cardinality(P) \in Nat
  BY <1>4, <1>6, FS_EmptySet, FS_CardinalityType
<1>9. Cardinality(R) = CountOf(ids, k) /\ CountOf(ids, k) \in Nat
  BY <1>1, <1>3, <1>5
<1>10. Cardinality(P \cup R) = CountOf(ids, k) + Cardinality(P)
  BY ONLY <1>7, <1>8, <1>9
<1>11. IsFiniteSet(Q) /\ Cardinality(Q) = Cardinality(P \cup R)
  BY <1>4, <1>7
<1> QED
  BY ONLY <1>10, <1>11

\* The gate line of a legal file.
LEMMA LegalGateStep ==
  ASSUME TypeInv, LegalInv, NEW l \in Lines, GateLine(l), Legal, Len(seen) >= 1,
         Total' = Total, LegalLine(l, Total),
         \A n \in 2 .. Len(seen) : seen[n].id # l.id
  PROVE  /\ pc' = "parsing" /\ graph' # NULL /\ graph'.n_nodes = Total
         /\ Stored' /\ Counted' /\ Listed'
<1>1. PICK n, id, ids : n = Total /\ id = l.id /\ ids = Ids(l)
  OBVIOUS
<1>2. /\ graph # NULL /\ graph.n_nodes = n /\ Stored /\ Counted /\ Listed
      /\ n \in Nat
  BY <1>1 DEF LegalInv, Legal
<1>3. /\ id = Num(l.id) /\ id \in 0 .. (n - 1) /\ ids \in Seq(0 .. (n - 1))
      /\ DOMAIN ids \subseteq {1, 2}
  BY <1>1, <1>2, LegalLineIs
<1>4. /\ graph \in GraphsOf(n) /\ graph' \in GraphsOf(n) /\ graph' # NULL
      /\ graph'.adj = AddEdges(graph.adj, ids, id)
      /\ gates' = [gates EXCEPT ![id] = GateOf(l)] /\ DOMAIN gates = 0 .. (n - 1)
      /\ n_inputs' = n_inputs + CountInput(l)
      /\ seen' = Append(seen, l) /\ pc' = "parsing"
  BY <1>1, <1>2, <1>3, GateLineDoes
<1>5. /\ seen \in Seq(Lines) /\ Len(seen) \in Nat /\ Len(seen') = Len(seen) + 1
      /\ \A m \in 1 .. Len(seen) : seen'[m] = seen[m]
      /\ seen'[Len(seen) + 1] = l
  BY <1>4 DEF TypeInv
<1>6. /\ 2 .. Len(seen') = (2 .. Len(seen)) \cup {Len(seen) + 1}
      /\ \A m \in 2 .. Len(seen) : seen'[m] = seen[m] /\ seen[m].id # id
  BY <1>1, <1>5
<1>7. \A m \in 2 .. Len(seen) : seen[m].id \in 0 .. (n - 1)
  BY <1>1 DEF Legal, LegalLine
<1>8. Stored'
  <2>1. \A m \in 2 .. Len(seen) : gates'[seen[m].id] = gates[seen[m].id]
    BY <1>4, <1>6, <1>7
  <2>2. gates'[id] = GateOf(l)
    BY <1>3, <1>4
  <2>3. \A m \in 2 .. Len(seen') : gates'[seen'[m].id] = GateOf(seen'[m])
    BY <1>1, <1>2, <1>5, <1>6, <2>1, <2>2 DEF Stored
  <2> QED
    BY <2>3 DEF Stored, GateOf, Ids, TypeOf
<1>9. Counted'
  <2>1. InputIds' = IF l.verb \in NumVerbs THEN InputIds \cup {id} ELSE InputIds
    BY <1>1, <1>5, <1>6 DEF InputIds
  <2>2. id \notin InputIds
    BY <1>6 DEF InputIds
  <2>3. IsFiniteSet(InputIds) /\ n_inputs = Cardinality(InputIds)
    BY <1>2 DEF Counted
  <2>4. /\ IsFiniteSet(InputIds \cup {id})
        /\ Cardinality(InputIds \cup {id}) = n_inputs + 1
    BY <2>2, <2>3, FS_AddElement
  <2> QED
    BY <1>4, <2>1, <2>3, <2>4, FS_CardinalityType DEF Counted, CountInput
<1>10. Listed'
  <2> SUFFICES ASSUME NEW k \in 0 .. (n - 1)
               PROVE  /\ IsFiniteSet(Positions(k)')
                      /\ Len(graph'.adj[k]) = Cardinality(Positions(k)')
    BY <1>1 DEF Listed
  <2>1. /\ IsFiniteSet(Positions(k)) /\ Len(graph.adj[k]) = Cardinality(Positions(k))
    BY <1>1, <1>2 DEF Listed
  <2>2. Len(graph'.adj[k]) = CountOf(ids, k) + Len(graph.adj[k])
    <3>1. PICK adj, S : adj = graph.adj /\ S = 0 .. (n - 1)
      OBVIOUS
    <3>0. graph.adj \in [0 .. (n - 1) -> Seq(0 .. (n - 1))]
      BY <1>4 DEF GraphsOf
    <3>2. k \in DOMAIN adj /\ adj[k] \in Seq(S) /\ ids \in Seq(Nat) /\ id \in S
      BY <1>2, <1>3, <3>0, <3>1
    <3>3. Len(AddEdges(adj, ids, id)[k]) = CountOf(ids, k) + Len(adj[k])
      BY ONLY <3>2, EdgesAdded
    <3> QED
      BY <1>4, <3>1, <3>3
  <2>3. id \notin Defined /\ Defined' = Defined \cup {id} /\ Defined \subseteq 0 .. (n - 1)
    BY <1>1, <1>5, <1>6, <1>7 DEF Defined
  <2>4. gates'[id].input_ids = ids /\ \A g \in Defined : gates'[g] = gates[g]
    BY <1>1, <1>3, <1>4, <2>3 DEF GateOf
  <2>5. Positions(k)' = Positions(k) \cup
          {u \in {id} \X {1, 2} : u[2] \in DOMAIN ids /\ ids[u[2]] = k}
    BY <2>3, <2>4 DEF Positions
  <2>6. Positions(k) \subseteq Defined \X {1, 2}
    BY DEF Positions
  <2>7. PICK P, Q, D : P = Positions(k) /\ Q = Positions(k)' /\ D = Defined
    OBVIOUS
  <2>8. /\ IsFiniteSet(P) /\ P \subseteq D \X {1, 2} /\ id \notin D
        /\ Q = P \cup {u \in {id} \X {1, 2} : u[2] \in DOMAIN ids /\ ids[u[2]] = k}
        /\ DOMAIN ids \subseteq {1, 2}
    BY <1>3, <2>1, <2>3, <2>5, <2>6, <2>7
  <2>9. IsFiniteSet(Q) /\ Cardinality(Q) = CountOf(ids, k) + Cardinality(P)
    BY ONLY <2>8, PositionsAdded
  <2> QED
    BY <2>1, <2>2, <2>7, <2>9
<1>11. graph'.n_nodes = Total
  BY <1>1, <1>4 DEF GraphsOf
<1> QED
  BY <1>4, <1>8, <1>9, <1>10, <1>11

\* The invariant of legal files holds before the first line, and after every
\* line.
LEMMA LegalInit == Init => LegalInv
BY DEF Init, LegalInv, Legal

\* Every line keeps what a legal file has made of the circuit.
LEMMA LegalStep ==
  ASSUME TypeInv, LegalInv, [Next]_vars
  PROVE  LegalInv'
<1>1. ASSUME NEW l \in Lines, TotalLine(l), Legal'
      PROVE  LegalInv'
  <2>1. Len(seen) = 0 /\ l.id \in Nat
    <3>1. l.verb = "total" /\ seen' = Append(seen, l)
      BY <1>1 DEF TotalLine, ReadLine
    <3>2. ~ LegalLine(l, Total)
      BY <3>1 DEF LegalLine, NumVerbs, GateVerbs
    <3> QED
      BY <1>1, <3>1, <3>2, LegalBefore
  <2>2. /\ Num(l.id) = l.id
        /\ seen' \in Seq(Lines) /\ Len(seen') = 1 /\ seen'[1] = l
        /\ n_inputs' = 0 /\ pc' = "parsing"
    BY <1>1, <2>1, NumErrorIs DEF TotalLine, ReadLine, TypeInv, TypeOK, Tokens
  <2>3. graph' \in GraphsOf(l.id) /\ graph'.n_nodes = l.id
        /\ \A k \in 0 .. (l.id - 1) : graph'.adj[k] = <<>>
    BY <1>1, <2>1, <2>2, MaxLinesAssumption DEF TotalLine, GraphsOf
  <2>4. l.id \in {0} \cup ({k.id : k \in Lines} \cap Nat)
    BY <2>1
  <2>5. graph' # NULL
    BY <2>3, <2>4, NullAssumption
  <2>6. 2 .. Len(seen') = {}
    BY <2>2
  <2>7. Defined' = {} /\ InputIds' = {} /\ Total' = l.id
    BY <2>2, <2>6 DEF Defined, InputIds, Total
  <2>8. Stored' /\ Counted'
    BY <2>2, <2>6, <2>7, FS_EmptySet DEF Stored, Counted
  <2>9. \A k : Positions(k)' = {}
    BY <2>7 DEF Positions
  <2>10. IsFiniteSet({}) /\ Cardinality({}) = 0
    BY FS_EmptySet
  <2>11. \A k \in 0 .. (l.id - 1) : IsFiniteSet(Positions(k)')
                                 /\ Len(graph'.adj[k]) = Cardinality(Positions(k)')
    <3> SUFFICES ASSUME NEW k \in 0 .. (l.id - 1)
                 PROVE  /\ IsFiniteSet(Positions(k)')
                        /\ Len(graph'.adj[k]) = Cardinality(Positions(k)')
      OBVIOUS
    <3>1. graph'.adj[k] = <<>> /\ Len(<<>>) = 0
      BY <2>3
    <3>2. Positions(k)' = {}
      BY <2>9
    <3>3. PICK P, a : P = Positions(k)' /\ a = graph'.adj[k]
      OBVIOUS
    <3>4. IsFiniteSet(P) /\ Len(a) = Cardinality(P)
      BY <2>10, <3>1, <3>2, <3>3
    <3> QED
      BY <3>3, <3>4
  <2>12. Listed'
    BY <2>7, <2>11 DEF Listed
  <2> QED
    BY <2>2, <2>3, <2>5, <2>7, <2>8, <2>12 DEF LegalInv
<1>2. ASSUME NEW l \in Lines, GateLine(l), Legal'
      PROVE  LegalInv'
  <2>1. l.verb # "total" /\ seen' = Append(seen, l)
    BY <1>2 DEF GateLine, ReadLine, NumVerbs, GateVerbs
  <2>2. /\ Legal /\ Len(seen) >= 1 /\ Total' = Total /\ LegalLine(l, Total)
        /\ \A n \in 2 .. Len(seen) : seen[n].id # l.id
    BY <1>2, <2>1, LegalBefore
  <2>3. /\ pc' = "parsing" /\ graph' # NULL /\ graph'.n_nodes = Total
        /\ Stored' /\ Counted' /\ Listed'
    BY <1>2, <2>2, LegalGateStep
  <2> QED
    BY <2>2, <2>3 DEF LegalInv
<1>3. ASSUME NEW l \in Lines, AssertLine(l) \/ RejectLine(l) \/ CrashLine(l), Legal'
      PROVE  FALSE
  <2>1. seen' = Append(seen, l)
    BY <1>3 DEF AssertLine, RejectLine, CrashLine, ReadLine
  <2>2. CASE l.verb = "total" /\ l.id \in Nat
    <3>1. NumError(l.id) = "E_NOERR"
      BY <2>2, NumErrorIs DEF Tokens
    <3>2. LineError(l) = "E_NOERR" /\ l.verb \notin NumVerbs \cup GateVerbs
      BY <2>2, <3>1 DEF LineError, GateVerbs, NumVerbs
    <3> QED
      BY <1>3, <3>2 DEF AssertLine, RejectLine, CrashLine
  <2>3. CASE Legal /\ LegalLine(l, Total)
    <3>1. PICK n : n = Total
      OBVIOUS
    <3>2. n \in Nat /\ LegalLine(l, n)
      BY <2>3, <3>1 DEF Legal
    <3>3. /\ LineError(l) = "E_NOERR" /\ Num(l.id) \in 0 .. (n - 1)
          /\ Ids(l) \in Seq(0 .. (n - 1))
      BY <3>2, LegalLineIs
    <3>4. graph # NULL /\ graph.n_nodes = n
      BY <2>3, <3>1 DEF LegalInv
    <3>5. \A j \in DOMAIN Ids(l) : Ids(l)[j] \in 0 .. (n - 1)
      <4>1. PICK ids, S : ids = Ids(l) /\ S = 0 .. (n - 1)
        OBVIOUS
      <4>2. ids \in Seq(S)
        BY <3>3, <4>1
      <4>3. \A j \in DOMAIN ids : ids[j] \in S
        BY ONLY <4>2
      <4> QED
        BY <4>1, <4>3
    <3>6. Asserted(l)
      BY <3>2, <3>3, <3>4, <3>5 DEF Asserted, InGraph
    <3> QED
      BY <1>3, <3>3, <3>6 DEF AssertLine, RejectLine, CrashLine
  <2> QED
    BY <1>3, <2>1, <2>2, <2>3, LegalBefore
<1>4. CASE EndOfFile \/ AssertSort \/ SkipLine \/ Returned \/ UNCHANGED vars
  <2> SUFFICES ASSUME Legal' PROVE LegalInv'
    BY DEF LegalInv
  <2>1. UNCHANGED <<graph, gates, n_inputs, seen>>
    BY <1>4 DEF EndOfFile, AssertSort, SkipLine, Returned, vars
  <2>2. Legal /\ Total' = Total
    BY <2>1 DEF Legal, Total, LegalLine
  <2>3. /\ pc \in {"parsing", "done"} \/ (pc = "aborted" /\ SortFails)
        /\ graph # NULL /\ graph.n_nodes = Total /\ Stored /\ Counted /\ Listed
    BY <2>2 DEF LegalInv
  <2>4. pc' \in {"parsing", "done"} \/ (pc' = "aborted" /\ SortFails)
    BY <1>4, <2>3 DEF EndOfFile, AssertSort, SkipLine, Returned, vars
  <2>5. Defined' = Defined /\ InputIds' = InputIds /\ Stored'
    BY <2>1, <2>3 DEF Defined, InputIds, Stored
  <2>6. Counted'
    BY <2>1, <2>3, <2>5 DEF Counted
  <2>7. \A k : Positions(k)' = Positions(k)
    BY <2>1, <2>5 DEF Positions
  <2>8. Listed'
    BY <2>1, <2>2, <2>3, <2>7 DEF Listed
  <2> QED
    BY <2>1, <2>2, <2>3, <2>4, <2>5, <2>6, <2>8 DEF LegalInv
<1>5. \/ \E l \in Lines : TotalLine(l) \/ GateLine(l) \/ AssertLine(l)
                          \/ RejectLine(l) \/ CrashLine(l)
      \/ EndOfFile \/ AssertSort \/ SkipLine \/ Returned \/ UNCHANGED vars
  BY DEF Next
<1>6. ~ Legal' => LegalInv'
  BY DEF LegalInv
<1> QED
  BY <1>1, <1>2, <1>3, <1>4, <1>5, <1>6

-----------------------------------------------------------------------------
(***************************************************************************)
(* Complete legal files.  Their lines name each gate once, so the ids are  *)
(* all of 0 .. Total-1, and those of the inputs are an initial part.       *)
(***************************************************************************)
\* As many different ids as there are gates are the ids of all gates.
LEMMA AllIds ==
  ASSUME NEW n \in Nat, NEW f \in [2 .. (n + 1) -> 0 .. (n - 1)],
         \A a, b \in 2 .. (n + 1) : f[a] = f[b] => a = b
  PROVE  \A g \in 0 .. (n - 1) : \E a \in 2 .. (n + 1) : f[a] = g
<1>1. PICK A, B, C : A = 2 .. (n + 1) /\ B = 0 .. (n - 1) /\ C = {f[a] : a \in A}
  OBVIOUS
<1>2. f \in Bijection(A, C)
  <2>1. f \in [A -> C]
    BY <1>1
  <2>2. (\A a, b \in A : f[a] = f[b] => a = b) /\ (\A c \in C : \E a \in A : f[a] = c)
    BY <1>1
  <2> QED
    BY <2>1, <2>2 DEF Bijection, Injection, Surjection, IsInjective
<1>3. IsFiniteSet(A) /\ Cardinality(A) = n
  <2>1. 2 \in Int /\ n + 1 \in Int
    OBVIOUS
  <2>2. /\ IsFiniteSet(2 .. (n + 1))
        /\ Cardinality(2 .. (n + 1)) = IF 2 > n + 1 THEN 0 ELSE (n + 1) - 2 + 1
    BY ONLY <2>1, FS_Interval
  <2> QED
    BY <1>1, <2>2
<1>4. IsFiniteSet(B) /\ Cardinality(B) = n
  <2>1. 0 \in Int /\ n - 1 \in Int
    OBVIOUS
  <2>2. /\ IsFiniteSet(0 .. (n - 1))
        /\ Cardinality(0 .. (n - 1)) = IF 0 > n - 1 THEN 0 ELSE (n - 1) - 0 + 1
    BY ONLY <2>1, FS_Interval
  <2> QED
    BY <1>1, <2>2
<1>5. ExistsBijection(A, C)
  BY <1>2 DEF ExistsBijection
<1>6. IsFiniteSet(C) /\ Cardinality(C) = n
  BY <1>3, <1>5, FS_Bijection
<1>7. C \in SUBSET B
  BY <1>1
<1>8. C = B
  BY <1>4, <1>6, <1>7, FS_Subset
<1> QED
  BY <1>1, <1>8

\* A set of ids below all others is an initial part of them.
LEMMA InitialPart ==
  ASSUME NEW n \in Nat, NEW I \in SUBSET (0 .. (n - 1)), I # {}, I # 0 .. (n - 1),
         \A i \in I : \A g \in (0 .. (n - 1)) \ I : i < g
  PROVE  /\ Cardinality(I) \in 1 .. (n - 1)
         /\ \A g \in 0 .. (n - 1) : g \in I <=> g < Cardinality(I)
<1>0. PICK B : B = 0 .. (n - 1)
  OBVIOUS
<1>1. (0 .. (n - 1)) \ I \in SUBSET Nat /\ (0 .. (n - 1)) \ I # {}
  <2>1. B \ I # {}
    <3>1. I \in SUBSET B /\ I # B
      BY <1>0
    <3> QED
      BY ONLY <3>1
  <2>2. B \in SUBSET Nat
    BY <1>0
  <2> QED
    BY <1>0, <2>1, <2>2
<1>2. PICK m \in (0 .. (n - 1)) \ I : \A g \in (0 .. (n - 1)) \ I : m <= g
  BY ONLY <1>1, Least
<1>3. \A g \in 0 .. (n - 1) : g \in I <=> g < m
  <2> SUFFICES ASSUME NEW g \in 0 .. (n - 1) PROVE g \in I <=> g < m
    OBVIOUS
  <2>1. g \in I => g < m
    OBVIOUS
  <2>2. g \notin I => m <= g
    BY <1>2
  <2> QED
    BY <2>1, <2>2
<1>4. m \in Nat /\ m <= n - 1
  OBVIOUS
<1>5. I = 0 .. (m - 1)
  <2>1. \A g \in I : g \in 0 .. (n - 1) /\ g < m
    BY <1>3
  <2>2. \A g \in 0 .. (m - 1) : g \in 0 .. (n - 1) /\ g < m
    BY <1>4
  <2>3. \A g \in I : g \in 0 .. (m - 1)
    BY <1>4, <2>1
  <2>4. \A g \in 0 .. (m - 1) : g \in I
    BY <1>3, <2>2
  <2>5. PICK M : M = 0 .. (m - 1)
    OBVIOUS
  <2>6. (\A g \in I : g \in M) /\ (\A g \in M : g \in I)
    BY <2>3, <2>4, <2>5
  <2>7. I = M
    BY ONLY <2>6
  <2> QED
    BY <2>5, <2>7
<1>6. 0 \in Int /\ m - 1 \in Int
  BY <1>4
<1>7. Cardinality(0 .. (m - 1)) = IF 0 > m - 1 THEN 0 ELSE (m - 1) - 0 + 1
  BY ONLY <1>6, FS_Interval
<1>8. Cardinality(I) = m
  BY <1>4, <1>5, <1>7
<1>9. m # 0
  <2>1. PICK g : g \in I
    OBVIOUS
  <2>2. g \in 0 .. (n - 1) /\ g < m
    BY <1>3, <2>1
  <2> QED
    BY <2>2
<1> QED
  BY <1>3, <1>4, <1>8, <1>9

\* A legal file that is complete has made a well-formed circuit.
LEMMA CompleteIs ==
  ASSUME TypeInv, LegalInv, Legal, Complete
  PROVE  /\ WellFormed(Parsed)
         /\ \A k \in Gates(Parsed) : Len(graph.adj[k]) = n_out_deps(Parsed, k)
<1>1. PICK n : n = Total
  OBVIOUS
<1>2. /\ n \in Nat /\ graph # NULL /\ graph.n_nodes = n /\ Len(seen) = n + 1
      /\ Stored /\ Counted /\ Listed /\ seen \in Seq(Lines)
  BY <1>1 DEF LegalInv, Legal, Complete, TypeInv
<1>3. Gates(Parsed) = 0 .. (n - 1) /\ Parsed.gates = gates /\ Parsed.n_inputs = n_inputs
      /\ Parsed.n_gates = n
  BY <1>2 DEF Gates, Parsed
<1>4. \A m \in 2 .. (n + 1) :
        /\ seen[m] \in Lines /\ LegalLine(seen[m], n)
        /\ gates[seen[m].id] = GateOf(seen[m])
        /\ seen[m].id \in 0 .. (n - 1) /\ seen[m].verb \in NumVerbs \cup GateVerbs
  <2> SUFFICES ASSUME NEW m \in 2 .. (n + 1)
               PROVE  /\ seen[m] \in Lines /\ LegalLine(seen[m], n)
                      /\ gates[seen[m].id] = GateOf(seen[m])
                      /\ seen[m].id \in 0 .. (n - 1)
                      /\ seen[m].verb \in NumVerbs \cup GateVerbs
    OBVIOUS
  <2>1. seen[m] \in Lines
    BY <1>2
  <2>2. LegalLine(seen[m], n)
    BY <1>1, <1>2 DEF Legal
  <2>3. gates[seen[m].id] = GateOf(seen[m])
    BY <1>2 DEF Stored
  <2> QED
    BY <2>1, <2>2, <2>3 DEF LegalLine
<1>5. \A m \in 2 .. (n + 1) :
        /\ IsGate(Parsed, gates[seen[m].id])
        /\ gates[seen[m].id].type \in InputTypes <=> seen[m].verb \in NumVerbs
        /\ DOMAIN gates[seen[m].id].input_ids = 1 .. Arity(gates[seen[m].id].type)
        /\ DOMAIN gates[seen[m].id].input_ids \subseteq {1, 2}
  <2> SUFFICES ASSUME NEW m \in 2 .. (n + 1)
               PROVE  /\ IsGate(Parsed, gates[seen[m].id])
                      /\ gates[seen[m].id].type \in InputTypes <=> seen[m].verb \in NumVerbs
                      /\ DOMAIN gates[seen[m].id].input_ids =
                           1 .. Arity(gates[seen[m].id].type)
                      /\ DOMAIN gates[seen[m].id].input_ids \subseteq {1, 2}
    OBVIOUS
  <2>1. PICK l : l = seen[m]
    OBVIOUS
  <2>2. l \in Lines /\ LegalLine(l, n) /\ gates[seen[m].id] = GateOf(l) /\ n \in Nat
        /\ l.verb \in NumVerbs \cup GateVerbs
    BY <1>2, <1>4, <2>1
  <2>3. /\ Ids(l) \in Seq(0 .. (n - 1)) /\ DOMAIN Ids(l) \subseteq {1, 2}
        /\ Len(Ids(l)) = Arity(TypeOf(l.verb)) /\ TypeOf(l.verb) \in GateTypes
    BY <2>2, LegalLineIs
  <2>4. GateOf(l).type = TypeOf(l.verb) /\ GateOf(l).input_ids = Ids(l)
    BY DEF GateOf
  <2>5. TypeOf(l.verb) \in InputTypes <=> l.verb \in NumVerbs
    BY <2>2 DEF TypeOf, InputTypes, NumVerbs, GateVerbs
  <2>6. DOMAIN Ids(l) = 1 .. Arity(TypeOf(l.verb))
    BY <2>3
  <2>7. IsGate(Parsed, GateOf(l))
    BY <1>3, <2>3, <2>4 DEF IsGate
  <2> QED
    BY <2>1, <2>2, <2>3, <2>4, <2>5, <2>6, <2>7
<1>6. \A g \in 0 .. (n - 1) : \E m \in 2 .. (n + 1) : seen[m].id = g
  <2>1. PICK f : f = [m \in 2 .. (n + 1) |-> seen[m].id]
    OBVIOUS
  <2>2. f \in [2 .. (n + 1) -> 0 .. (n - 1)]
    BY <1>4, <2>1
  <2>3. \A a, b \in 2 .. (n + 1) : f[a] = f[b] => a = b
    BY <1>2, <2>1 DEF Legal
  <2>4. \A g \in 0 .. (n - 1) : \E a \in 2 .. (n + 1) : f[a] = g
    BY ONLY <1>2, <2>2, <2>3, AllIds
  <2> QED
    BY <2>1, <2>4
<1>7. Defined = 0 .. (n - 1)
  BY <1>2, <1>4, <1>6 DEF Defined
<1>8. \A g \in 0 .. (n - 1) : g \in InputIds <=> gates[g].type \in InputTypes
  BY <1>2, <1>5, <1>6 DEF InputIds
<1>9. PICK I : I = InputIds
  OBVIOUS
<1>10. I \in SUBSET (0 .. (n - 1)) /\ I # {} /\ I # 0 .. (n - 1)
  <2>1. \E m \in 2 .. (n + 1) : seen[m].verb \in NumVerbs
    BY <1>2 DEF Complete
  <2>2. PICK m \in 2 .. (n + 1) : seen[m].verb \in GateVerbs
    BY <1>2 DEF Complete
  <2>3. seen[m].verb \notin NumVerbs
    BY <2>2 DEF NumVerbs, GateVerbs
  <2>4. seen[m].id \in 0 .. (n - 1) /\ seen[m].id \notin InputIds
    BY <1>4, <1>5, <1>8, <2>3
  <2>5. InputIds \subseteq 0 .. (n - 1) /\ InputIds # {}
    BY <1>2, <1>4, <2>1 DEF InputIds
  <2> QED
    BY <1>9, <2>4, <2>5
<1>11. \A i \in I : \A g \in (0 .. (n - 1)) \ I : i < g
  <2> SUFFICES ASSUME NEW i \in I, NEW g \in (0 .. (n - 1)) \ I PROVE i < g
    OBVIOUS
  <2>1. PICK a \in 2 .. (n + 1) : seen[a].id = i /\ seen[a].verb \in NumVerbs
    BY <1>2, <1>9 DEF InputIds
  <2>2. PICK b \in 2 .. (n + 1) : seen[b].id = g
    BY <1>6
  <2>3. seen[b].verb \in GateVerbs
    BY <1>2, <1>4, <1>9, <2>2 DEF InputIds
  <2> QED
    BY <1>2, <2>1, <2>2, <2>3 DEF Complete
<1>12. /\ Cardinality(I) \in 1 .. (n - 1)
       /\ \A g \in 0 .. (n - 1) : g \in I <=> g < Cardinality(I)
  BY ONLY <1>2, <1>10, <1>11, InitialPart
<1>13. /\ n_inputs \in 1 .. (n - 1)
       /\ \A g \in 0 .. (n - 1) : g < n_inputs <=> gates[g].type \in InputTypes
  BY <1>2, <1>8, <1>9, <1>12 DEF Counted
<1>14. \A g \in 0 .. (n - 1) :
         /\ IsGate(Parsed, gates[g]) /\ DOMAIN gates[g].input_ids \subseteq {1, 2}
         /\ DOMAIN gates[g].input_ids = 1 .. Arity(gates[g].type)
  BY <1>5, <1>6
<1>15. WellFormed(Parsed)
  BY <1>2, <1>3, <1>13, <1>14 DEF WellFormed
<1>16. ASSUME NEW k \in 0 .. (n - 1)
       PROVE  Uses(Parsed, k) = Positions(k)
  <2>1. Internal(Parsed) = n_inputs .. (n - 1)
    BY <1>3 DEF Internal
  <2>2. \A g \in 0 .. (n - 1) : \A j \in {1, 2} :
          j \in DOMAIN gates[g].input_ids <=>
            g \in Internal(Parsed) /\ j <= Arity(gates[g].type)
    <3> SUFFICES ASSUME NEW g \in 0 .. (n - 1), NEW j \in {1, 2}
                 PROVE  j \in DOMAIN gates[g].input_ids <=>
                          g \in Internal(Parsed) /\ j <= Arity(gates[g].type)
      OBVIOUS
    <3>1. PICK type, d : type = gates[g].type /\ d = DOMAIN gates[g].input_ids
      OBVIOUS
    <3>2. d = 1 .. Arity(type) /\ (g < n_inputs <=> type \in InputTypes)
      BY <1>13, <1>14, <3>1
    <3>3. Arity(type) \in Nat /\ (type \in InputTypes => Arity(type) = 0)
      BY DEF Arity
    <3>4. g \in Internal(Parsed) <=> ~ (g < n_inputs)
      BY <1>13, <2>1
    <3> QED
      BY <3>1, <3>2, <3>3, <3>4
  <2>3. Internal(Parsed) \subseteq 0 .. (n - 1)
    BY <1>13, <2>1
  <2> QED
    BY <1>3, <1>7, <2>2, <2>3 DEF Uses, Positions
<1>17. \A k \in 0 .. (n - 1) : Len(graph.adj[k]) = n_out_deps(Parsed, k)
  BY <1>1, <1>2, <1>16 DEF Listed, n_out_deps
<1> QED
  BY <1>3, <1>15, <1>17

-----------------------------------------------------------------------------
(***************************************************************************)
(* The theorems                                                            *)
(***************************************************************************)
IInv == TypeInv /\ EdgesCoverOperands /\ LegalInv

(***************************************************************************)
(* The invariant: types, the edges of every stored gate, and for a legal   *)
(* file the gates, the count of inputs and the lengths of the lists.       *)
(***************************************************************************)
THEOREM Inductive == Spec => []IInv
<1>1. Init => IInv
  <2>1. Init => EdgesCoverOperands
    BY DEF Init, EdgesCoverOperands
  <2> QED
    BY <2>1, TypeInit, LegalInit DEF IInv
<1>2. IInv /\ [Next]_vars => IInv'
  BY TypeStep, EdgesStep, LegalStep DEF IInv
<1> QED
  BY <1>1, <1>2, PTL DEF Spec

(***************************************************************************)
(* Whatever the lines of a file, every gate the parser stored is one its   *)
(* type allows, with operands inside the circuit.                          *)
(***************************************************************************)
THEOREM TypeCorrect == Spec => []TypeOK
<1>1. IInv => TypeOK
  BY DEF IInv, TypeInv
<1> QED
  BY <1>1, Inductive, PTL

(***************************************************************************)
(* Whatever the file, the adjacency list of a gate has an edge for every   *)
(* operand of every stored gate that reads it.                             *)
(***************************************************************************)
THEOREM EdgesCover == Spec => []EdgesCoverOperands
<1>1. IInv => EdgesCoverOperands
  BY DEF IInv
<1> QED
  BY <1>1, Inductive, PTL

(***************************************************************************)
(* A file that breaks no rule is parsed: the parser neither refuses it nor *)
(* fails an assertion nor crashes, unless the sort fails.                  *)
(***************************************************************************)
THEOREM LegalParse == Spec => []LegalFilesParse
<1>1. IInv => LegalFilesParse
  BY DEF IInv, LegalInv, LegalFilesParse
<1> QED
  BY <1>1, Inductive, PTL

(***************************************************************************)
(* A complete legal file gives a circuit with the layout the evaluators    *)
(* and the sort assume, with lists as long as the gates have readers.      *)
(***************************************************************************)
THEOREM CompleteWellFormed == Spec => []CompleteFilesWellFormed
<1>1. IInv => CompleteFilesWellFormed
  BY CompleteIs DEF IInv, CompleteFilesWellFormed
<1> QED
  BY <1>1, Inductive, PTL
=============================================================================
