------------------------- MODULE CircuitEval_proofs -------------------------
(***************************************************************************)
(* Proofs about CircuitEval, for every set of circuits, every algebra,     *)
(* both evaluators and every counter width: first of the circuits that     *)
(* have a value, then of any; last, that the meaning of a circuit exists.  *)
(***************************************************************************)
EXTENDS CircuitEval, Recursion

USE DEF call

-----------------------------------------------------------------------------
(***************************************************************************)
(* Circuits                                                                *)
(***************************************************************************)
\* What the layout of a circuit gives: typed ids and arities.
LEMMA CircuitShape ==
  ASSUME NEW c \in Circuits
  PROVE  /\ c.n_gates \in Nat /\ c.n_inputs \in Nat
         /\ 1 <= c.n_inputs /\ c.n_inputs < c.n_gates
         /\ Internal(c) \subseteq Gates(c)
         /\ OutputGate(c) \in Internal(c)
         /\ 0 \in Gates(c) \ Internal(c)
         /\ \A g \in Gates(c) :
              /\ g \in Internal(c) <=> c.gates[g].type \notin InputTypes
              /\ g \in Internal(c) <=> g >= c.n_inputs
              /\ g \in Nat
              /\ \A j \in 1 .. Arity(c.gates[g].type) :
                   c.gates[g].input_ids[j] \in Gates(c)
         /\ \A g \in Internal(c) : Arity(c.gates[g].type) \in {1, 2}
<1>1. WellFormed(c)
  BY CircuitsAssumption
<1>2. /\ c.n_gates \in Nat /\ c.n_inputs \in Nat
      /\ 1 <= c.n_inputs /\ c.n_inputs < c.n_gates
  BY <1>1 DEF WellFormed
<1>3. /\ Internal(c) \subseteq Gates(c)
      /\ OutputGate(c) \in Internal(c)
      /\ 0 \in Gates(c) \ Internal(c)
  BY <1>2 DEF Internal, Gates, OutputGate
<1>4. ASSUME NEW g \in Gates(c)
      PROVE  /\ g \in Internal(c) <=> c.gates[g].type \notin InputTypes
             /\ g \in Internal(c) <=> g >= c.n_inputs
             /\ g \in Nat
  BY <1>1, <1>2 DEF WellFormed, Internal, Gates
<1>5. ASSUME NEW g \in Gates(c), NEW j \in 1 .. Arity(c.gates[g].type)
      PROVE  c.gates[g].input_ids[j] \in Gates(c)
  <2>1. IsGate(c, c.gates[g])
    BY <1>1 DEF WellFormed
  <2> DEFINE ids == c.gates[g].input_ids
  <2>2. ids \in Seq(Gates(c)) /\ Len(ids) = Arity(c.gates[g].type)
    BY <2>1 DEF IsGate
  <2> HIDE DEF ids
  <2>3. j \in 1 .. Len(ids)
    BY <2>2
  <2>4. ids[j] \in Gates(c)
    BY <2>2, <2>3
  <2> QED
    BY <2>4 DEF ids
<1>6. ASSUME NEW g \in Internal(c)
      PROVE  Arity(c.gates[g].type) \in {1, 2}
  BY <1>3, <1>4 DEF Arity
<1> QED
  BY <1>2, <1>3, <1>4, <1>5, <1>6

\* A use names an operand position of an internal gate.
LEMMA UseShape ==
  ASSUME NEW c \in Circuits, NEW k, NEW u \in Uses(c, k)
  PROVE  /\ u[1] \in Internal(c)
         /\ u[2] \in 1 .. Arity(c.gates[u[1]].type)
         /\ u = <<u[1], u[2]>>
         /\ c.gates[u[1]].input_ids[u[2]] = k
         /\ Precedes(c, k, u[1])
<1>1. u \in Internal(c) \X {1, 2} /\ u[2] <= Arity(c.gates[u[1]].type)
      /\ c.gates[u[1]].input_ids[u[2]] = k
  BY DEF Uses
<1>2. u[2] \in {1, 2} /\ u = <<u[1], u[2]>>
  BY <1>1
<1>3. Arity(c.gates[u[1]].type) \in {1, 2}
  BY <1>1, CircuitShape
<1>4. Precedes(c, k, u[1])
  BY <1>2 DEF Precedes
<1> QED
  BY <1>1, <1>2, <1>3, <1>4

\* A gate uses each of its operands, and comes after it.
LEMMA UseOfOperand ==
  ASSUME NEW c \in Circuits, NEW g \in Internal(c),
         NEW j \in 1 .. Arity(c.gates[g].type)
  PROVE  /\ <<g, j>> \in Uses(c, c.gates[g].input_ids[j])
         /\ Precedes(c, c.gates[g].input_ids[j], g)
<1>1. j \in {1, 2}
  BY CircuitShape
<1> QED
  BY <1>1 DEF Uses, Precedes

\* A gate has finitely many uses.
LEMMA UsesFinite ==
  ASSUME NEW c \in Circuits, NEW k
  PROVE  IsFiniteSet(Uses(c, k))
<1>1. IsFiniteSet(Internal(c))
  <2>1. c.n_inputs \in Int /\ c.n_gates - 1 \in Int
    BY CircuitShape
  <2> QED
    BY <2>1, FS_Interval DEF Internal
<1>2. IsFiniteSet({1, 2})
  <2>1. IsFiniteSet({1})
    BY FS_Singleton
  <2>2. {1, 2} = {1} \cup {2}
    OBVIOUS
  <2> QED
    BY <2>1, <2>2, FS_AddElement, Zenon
<1>3. IsFiniteSet(Internal(c) \X {1, 2})
  BY <1>1, <1>2, FS_Product
<1> QED
  BY <1>3, FS_Subset DEF Uses

(***************************************************************************)
(* What a topological order gives the traversal: every internal gate has   *)
(* exactly one position, it is not position 0, and operands come first.    *)
(***************************************************************************)
\* The enumeration gives what the predicate describes.
LEMMA TSortsAreTSorts ==
  ASSUME NEW c \in Circuits, NEW s \in TSorts(c)
  PROVE  IsTSort(c, s)
<1>1. PICK p \in Listings(c) :
        /\ s = Padded(c, p)
        /\ IF Acyclic(c) THEN Respects(c, p) ELSE Greedy(c, p)
  BY DEF TSorts
<1>2. PICK k \in 0 .. c.n_gates :
        p \in [0 .. (k - 1) -> Wired(c)] /\ EachOnce(Wired(c), p)
  BY <1>1 DEF Listings
<1>3. k \in Nat /\ k <= c.n_gates /\ c.n_gates \in Nat
  BY CircuitShape
<1>4. p = [a \in 0 .. (k - 1) |-> s[a]]
  BY <1>1, <1>2, <1>3 DEF Padded
<1> QED
  BY <1>1, <1>2, <1>4 DEF IsTSort

\* A sort is a row of gates, as long as the array.
LEMMA SortShape ==
  ASSUME NEW c \in Circuits, NEW s, IsTSort(c, s)
  PROVE  s \in [0 .. c.n_gates -> Gates(c)]
<1>1. PICK k \in 0 .. c.n_gates :
        LET p == [a \in 0 .. (k - 1) |-> s[a]]
        IN  p \in [0 .. (k - 1) -> Wired(c)] /\ s = Padded(c, p)
  BY DEF IsTSort
<1>2. 0 \in Gates(c)
  BY CircuitShape
<1> QED
  BY <1>1, <1>2 DEF Padded, Wired

\* The sort of an acyclic circuit has every internal gate once, after its operands.
LEMMA TopologicalSort ==
  ASSUME NEW c \in Circuits, NEW s, IsTSort(c, s), Acyclic(c)
  PROVE  /\ \A g \in Internal(c) : \E a \in 1 .. (c.n_gates - 1) : s[a] = g
         /\ \A a, b \in 0 .. c.n_gates :
              s[a] = s[b] /\ s[a] \in Internal(c) => a = b
         /\ s[0] \notin Internal(c)
         /\ \A a, b \in 0 .. c.n_gates :
              s[b] \in Internal(c) /\ Precedes(c, s[a], s[b])
              /\ s[a] \in Internal(c) => a < b
<1>1. PICK k \in 0 .. c.n_gates :
        LET p == [a \in 0 .. (k - 1) |-> s[a]]
        IN  /\ p \in [0 .. (k - 1) -> Wired(c)]
            /\ EachOnce(Wired(c), p)
            /\ Respects(c, p)
            /\ s = Padded(c, p)
  BY DEF IsTSort
<1>2. PICK p : /\ p = [a \in 0 .. (k - 1) |-> s[a]]
               /\ p \in [0 .. (k - 1) -> Wired(c)]
               /\ EachOnce(Wired(c), p)
               /\ Respects(c, p)
               /\ s = Padded(c, p)
  BY <1>1
<1>3. /\ p \in [0 .. (k - 1) -> Wired(c)]
      /\ \A a, b \in 0 .. (k - 1) : a # b => p[a] # p[b]
      /\ \A g \in Wired(c) : \E a \in 0 .. (k - 1) : p[a] = g
      /\ k \in Nat /\ k <= c.n_gates /\ c.n_gates \in Nat
  <2>1. c.n_gates \in Nat
    BY CircuitShape
  <2>2. DOMAIN p = 0 .. (k - 1)
    BY <1>2
  <2>3. k \in Nat /\ k <= c.n_gates
    BY <2>1
  <2> QED
    BY <1>2, <2>1, <2>2, <2>3 DEF EachOnce
<1>4. Internal(c) \subseteq Wired(c)
  <2> SUFFICES ASSUME NEW g \in Internal(c) PROVE g \in Wired(c)
    OBVIOUS
  <2>1. g \in Gates(c) /\ Arity(c.gates[g].type) \in {1, 2}
    BY CircuitShape
  <2> QED
    BY <2>1 DEF Wired
<1>5. \A a \in 0 .. c.n_gates :
        s[a] = IF a \in 0 .. (k - 1) THEN p[a] ELSE 0
  BY <1>2, <1>3 DEF Padded
<1>6. 0 \notin Internal(c)
  BY CircuitShape
<1>7. \A a \in 0 .. c.n_gates : s[a] \in Internal(c) => a \in 0 .. (k - 1)
  BY <1>5, <1>6
<1>8. \A a, b \in 0 .. (k - 1) : Precedes(c, p[a], p[b]) => a < b
  BY <1>2, <1>3 DEF Respects
<1>9. ASSUME s[0] \in Internal(c) PROVE FALSE
  <2>1. 0 \in 0 .. (k - 1) /\ s[0] = p[0]
    BY <1>3, <1>5, <1>7, <1>9
  <2>2. PICK g \in Gates(c) : Precedes(c, g, p[0])
    <3>1. 1 \in 1 .. Arity(c.gates[p[0]].type) /\ p[0] \in Gates(c)
      BY <2>1, <1>9, CircuitShape
    <3>2. c.gates[p[0]].input_ids[1] \in Gates(c)
      BY <3>1, CircuitShape
    <3> QED
      BY <3>1, <3>2, <2>1, <1>9, UseOfOperand
  <2>3. g \in Wired(c)
    BY <2>2 DEF Wired, Precedes
  <2>4. PICK a \in 0 .. (k - 1) : p[a] = g
    BY <2>3, <1>3
  <2>5. a < 0
    BY <2>1, <2>2, <2>4, <1>8
  <2> QED
    BY <2>5
<1>10. ASSUME NEW g \in Internal(c)
       PROVE  \E a \in 1 .. (c.n_gates - 1) : s[a] = g
  <2>1. PICK a \in 0 .. (k - 1) : p[a] = g
    BY <1>3, <1>4
  <2>2. a \in 0 .. c.n_gates /\ s[a] = g
    BY <2>1, <1>3, <1>5
  <2>3. a # 0
    BY <2>2, <1>9
  <2> QED
    BY <2>1, <2>2, <2>3, <1>3
<1>11. \A a, b \in 0 .. c.n_gates :
         s[a] = s[b] /\ s[a] \in Internal(c) => a = b
  BY <1>3, <1>5, <1>7
<1>12. \A a, b \in 0 .. c.n_gates :
              s[b] \in Internal(c) /\ Precedes(c, s[a], s[b])
              /\ s[a] \in Internal(c) => a < b
  BY <1>5, <1>7, <1>8
<1> QED
  BY <1>9, <1>10, <1>11, <1>12

-----------------------------------------------------------------------------
(***************************************************************************)
(* The meaning of a circuit                                                *)
(***************************************************************************)
LEMMA MeaningShape ==
  ASSUME NEW c \in Circuits, NEW x \in InputVectors, Acyclic(c), Fits(c, x)
  PROVE  /\ \A g \in Gates(c) : Meaning(c, x)[g] \in Values
         /\ \A g \in Gates(c) \ Internal(c) : Meaning(c, x)[g] = x[g]
         /\ \A g \in Internal(c) :
              Meaning(c, x)[g] =
                Apply(c.gates[g],
                      Meaning(c, x)[c.gates[g].input_ids[1]],
                      Meaning(c, x)[c.gates[g].input_ids[
                                      Arity(c.gates[g].type)]])
<1>1. IsMeaning(c, x, Meaning(c, x))
  BY MeaningAssumption
<1>2. \A g \in Gates(c) : g \in Internal(c) <=> ~ (g < c.n_inputs)
  BY CircuitShape
<1>3. Internal(c) \subseteq Gates(c)
  BY CircuitShape
<1> QED
  BY <1>1, <1>2, <1>3 DEF IsMeaning

\* A gate on values makes a value.
LEMMA ApplyType ==
  ASSUME NEW c \in Circuits, NEW g \in Internal(c),
         NEW a \in Values, NEW b \in Values
  PROVE  Apply(c.gates[g], a, b) \in Values
<1>1. g \in Gates(c) /\ c.gates[g].type \notin InputTypes
  BY CircuitShape
<1>2. c.gates[g].type \in GateTypes
  BY <1>1, CircuitsAssumption DEF WellFormed, IsGate
<1>3. CASE c.gates[g].type = "ADD"
  BY <1>3, AlgebraAssumption DEF Apply
<1>4. CASE c.gates[g].type = "MUL"
  BY <1>4, AlgebraAssumption DEF Apply
<1>5. CASE c.gates[g].type = "CONSTMUL"
  <2>1. c.gates[g].const_val \in Constants
    BY <1>1, <1>5, CircuitsAssumption
  <2> QED
    BY <2>1, <1>5, AlgebraAssumption DEF Apply
<1> QED
  BY <1>1, <1>2, <1>3, <1>4, <1>5 DEF GateTypes, BinaryTypes

-----------------------------------------------------------------------------
(***************************************************************************)
(* Type correctness, with the control invariant                            *)
(***************************************************************************)
BaseInv == TypeOK /\ ControlInv

\* An input that fits the circuit has a value for each input gate.
LEMMA InputType ==
  ASSUME TypeOK, Fits(circ, input), NEW k \in Gates(circ) \ Internal(circ)
  PROVE  input[k] \in Values
<1>1. input \in [DOMAIN input -> Values]
  BY InputVectorsAssumption DEF TypeOK
<1>2. k \in 0 .. (circ.n_inputs - 1)
  BY CircuitShape DEF TypeOK, Gates, Internal
<1> QED
  BY <1>1, <1>2 DEF Fits

\* An operand is a value, or a slot that was released or never set.
LEMMA OperandType ==
  ASSUME TypeOK, Fits(circ, input), NEW j \in 1 .. Arity(gate.type)
  PROVE  Operand(j) \in Values \cup {NULL, GARBAGE}
<1> DEFINE k == gate.input_ids[j]
<1>1. k \in Gates(circ) /\ (k \in Internal(circ) <=> ~ (k < circ.n_inputs))
  BY CircuitShape DEF TypeOK, gate
<1>2. CASE k < circ.n_inputs
  <2>1. input[k] \in Values
    BY <1>1, <1>2, InputType
  <2> QED
    BY <2>1, <1>2 DEF Operand
<1>3. CASE ~ (k < circ.n_inputs)
  BY <1>1, <1>3 DEF Operand, TypeOK
<1> QED
  BY <1>2, <1>3

\* A counter stays in its range when it wraps.
LEMMA DecrementType ==
  ASSUME NEW n \in 0 .. (CounterMod - 1)
  PROVE  Decrement(n) \in 0 .. (CounterMod - 1)
BY CounterAssumption DEF Decrement

\* Releasing an operand keeps the slots and the counters typed.
LEMMA ReleaseType ==
  ASSUME TypeOK, NEW j \in {1, 2}, ReleaseOperand(j)
  PROVE  /\ evals' \in [Internal(circ) -> Values \cup {NULL, GARBAGE}]
         /\ out_deps_not_evaled' \in [Internal(circ) -> 0 .. (CounterMod - 1)]
<1>1. CASE ~ ReadsSlot(j)
  BY <1>1 DEF ReleaseOperand, TypeOK
<1>2. CASE ReadsSlot(j)
  <2> DEFINE k == gate.input_ids[j]
             n == Decrement(out_deps_not_evaled[k])
  <2>1. k \in Internal(circ)
    <3>1. j \in 1 .. Arity(gate.type) /\ k >= circ.n_inputs
      <4>1. gate_id \in Internal(circ)
        BY <1>2, CircuitShape DEF ReadsSlot, TypeOK
      <4>2. Arity(gate.type) \in {1, 2}
        BY <4>1, CircuitShape DEF gate, TypeOK
      <4> QED
        BY <4>2, <1>2 DEF ReadsSlot
    <3>2. k \in Gates(circ)
      BY <3>1, CircuitShape DEF gate, TypeOK
    <3> QED
      BY <3>1, <3>2, CircuitShape DEF TypeOK
  <2>2. n \in 0 .. (CounterMod - 1)
    BY <2>1, DecrementType DEF TypeOK
  <2>3. /\ out_deps_not_evaled' = [out_deps_not_evaled EXCEPT ![k] = n]
        /\ evals' = IF n = 0 THEN [evals EXCEPT ![k] = NULL] ELSE evals
    BY <1>2 DEF ReleaseOperand, Release
  <2> HIDE DEF n, k
  <2> QED
    BY <2>2, <2>3 DEF TypeOK
<1> QED
  BY <1>1, <1>2

\* The types and the control hold at the start.
LEMMA BaseInit == Init => BaseInv
<1> SUFFICES ASSUME Init PROVE BaseInv
  OBVIOUS
<1>1. /\ circ.n_gates \in Nat /\ 0 \in Gates(circ)
  BY CircuitShape DEF Init
<1>2. 0 \in 0 .. (CounterMod - 1)
  BY CounterAssumption
<1>3. TypeOK
  BY <1>1, <1>2, TSortsAreTSorts DEF Init, TypeOK, PCs
<1>4. ControlInv
  BY DEF Init, ControlInv, At
<1> QED
  BY <1>3, <1>4 DEF BaseInv

\* Every step keeps the types and the control.
LEMMA BaseStep == BaseInv /\ [Next]_vars => BaseInv'
<1> SUFFICES ASSUME BaseInv, [Next]_vars PROVE BaseInv'
  OBVIOUS
<1> USE DEF BaseInv
<1>a. /\ circ.n_gates \in Nat
      /\ gate_id \in Internal(circ) <=> gate.type \notin InputTypes
      /\ gate_id \in Internal(circ) => Arity(gate.type) \in {1, 2}
  BY CircuitShape DEF TypeOK, gate
<1>1. CASE RejectInputs
  BY <1>1 DEF RejectInputs, TypeOK, ControlInv, PCs, Final
<1>2. CASE AssertDeps
  BY <1>2 DEF AssertDeps, TypeOK, ControlInv, PCs, Final
<1>3. CASE Initialise
  <2>1. zeroed' \subseteq Internal(circ)
    BY <1>3 DEF Initialise, OverrunZeroes
  <2>2. evals' \in [Internal(circ) -> {NULL, GARBAGE}]
    BY <1>3 DEF Initialise, InitialSlot
  <2>3. out_deps_not_evaled' \in [Internal(circ) -> 0 .. (CounterMod - 1)]
    <3>1. \A k \in Internal(circ) :
            n_out_deps(circ, k) % CounterMod \in 0 .. (CounterMod - 1)
      <4> TAKE k \in Internal(circ)
      <4>1. n_out_deps(circ, k) \in Nat
        BY UsesFinite, FS_CardinalityType DEF n_out_deps, TypeOK
      <4> QED
        BY <4>1, CounterAssumption
    <3>2. 0 \in 0 .. (CounterMod - 1)
      BY CounterAssumption
    <3> QED
      BY <3>1, <3>2, <1>3 DEF Initialise
  <2>4. TypeOK'
    BY <2>1, <2>2, <2>3, <1>3 DEF Initialise, TypeOK, PCs
  <2>5. ControlInv'
    BY <1>3 DEF Initialise, ControlInv, At
  <2> QED
    BY <2>4, <2>5
<1>4. CASE OverrunFrame
  BY <1>4 DEF OverrunFrame, TypeOK, ControlInv, PCs, Final
<1>5. CASE SkipInput
  BY <1>5 DEF SkipInput, TypeOK, ControlInv, PCs, At
<1>6. CASE Compute
  <2>1. Fits(circ, input)
    BY <1>6 DEF Compute, ControlInv
  <2>2. gate_id \in Internal(circ) /\ 1 \in 1 .. Arity(gate.type)
        /\ Arity(gate.type) \in 1 .. Arity(gate.type)
    BY <1>a, <1>6 DEF Compute
  <2>3. /\ Operand(1) \in Values \cup {NULL, GARBAGE}
        /\ Operand(Arity(gate.type)) \in Values \cup {NULL, GARBAGE}
    BY <2>1, <2>2, OperandType
  <2>4. Operand(1) \in Values /\ Operand(Arity(gate.type)) \in Values
    BY <2>2, <2>3, <1>6 DEF Compute, Operands
  <2>5. Apply(gate, Operand(1), Operand(Arity(gate.type))) \in Values
    BY <2>2, <2>4, ApplyType DEF gate, TypeOK
  <2>6. evals' \in [Internal(circ) -> Values \cup {NULL, GARBAGE}]
    BY <2>5, <1>6 DEF Compute, TypeOK
  <2>7. TypeOK'
    BY <2>6, <1>6 DEF Compute, TypeOK, PCs
  <2>8. ControlInv'
    BY <1>6 DEF Compute, ControlInv, At
  <2> QED
    BY <2>7, <2>8
<1>7. CASE OperandMissing
  BY <1>7 DEF OperandMissing, TypeOK, ControlInv, PCs
<1>8. CASE OperandGarbage
  BY <1>8 DEF OperandGarbage, TypeOK, ControlInv, PCs, Final
<1>9. CASE FreeFirst
  <2>1. /\ evals' \in [Internal(circ) -> Values \cup {NULL, GARBAGE}]
        /\ out_deps_not_evaled' \in [Internal(circ) -> 0 .. (CounterMod - 1)]
    BY <1>9, ReleaseType DEF FreeFirst
  <2>2. TypeOK'
    BY <2>1, <1>9 DEF FreeFirst, TypeOK, PCs
  <2>3. ControlInv'
    BY <1>9 DEF FreeFirst, ControlInv, At
  <2> QED
    BY <2>2, <2>3
<1>10. CASE FreeSecond
  <2>1. /\ evals' \in [Internal(circ) -> Values \cup {NULL, GARBAGE}]
        /\ out_deps_not_evaled' \in [Internal(circ) -> 0 .. (CounterMod - 1)]
    BY <1>10, ReleaseType DEF FreeSecond
  <2>2. i \in Nat /\ i < circ.n_gates
    BY <1>10 DEF FreeSecond, ControlInv, TypeOK
  <2>3. t_sort[i + 1] \in Gates(circ) /\ i + 1 \in 0 .. circ.n_gates
    BY <2>2, <1>a, SortShape DEF TypeOK
  <2>4. TypeOK'
    BY <2>1, <2>3, <1>10 DEF FreeSecond, TypeOK, PCs
  <2>5. ControlInv'
    BY <2>2, <1>10 DEF FreeSecond, ControlInv, At
  <2> QED
    BY <2>4, <2>5
<1>11. CASE EndLoop
  <2>1. i = circ.n_gates
    BY <1>11, <1>a DEF EndLoop, TypeOK
  <2> QED
    BY <2>1, <1>11 DEF EndLoop, TypeOK, ControlInv, PCs
<1>12. CASE CopyResult
  BY <1>12 DEF CopyResult, TypeOK, ControlInv, PCs, Final
<1>13. CASE Cleanup
  BY <1>13 DEF Cleanup, TypeOK, ControlInv, PCs, Final
<1>14. CASE Finished
  BY <1>14 DEF Finished, vars, TypeOK, ControlInv, At
<1>15. CASE UNCHANGED vars
  BY <1>15 DEF vars, TypeOK, ControlInv, At
<1> QED
  BY <1>1, <1>2, <1>3, <1>4, <1>5, <1>6, <1>7, <1>8, <1>9, <1>10, <1>11,
     <1>12, <1>13, <1>14, <1>15 DEF Next, Step

\* The state stays well typed: indices, gate ids, slots and counters.
THEOREM TypeCorrect == Spec => []TypeOK
<1>1. BaseInv => TypeOK
  BY DEF BaseInv
<1> QED
  BY <1>1, BaseInit, BaseStep, PTL DEF Spec

-----------------------------------------------------------------------------
(***************************************************************************)
(* Counting                                                                *)
(***************************************************************************)
\* What a counter holds when P is the part of U still to be read.
Count(zero, U, P) ==
  IF zero THEN WrapDown(Cardinality(U) - Cardinality(P)) ELSE Cardinality(P)

\* One decrement follows one read, and reaches zero only at the last read of
\* a counter that was not zeroed.
LEMMA DecrementCount ==
  ASSUME NEW U, IsFiniteSet(U), Cardinality(U) < CounterMod - 1,
         NEW P \in SUBSET U, NEW u \in P, NEW zero \in BOOLEAN
  PROVE  /\ Decrement(Count(zero, U, P)) = Count(zero, U, P \ {u})
         /\ Decrement(Count(zero, U, P)) = 0 <=> ~ zero /\ P \ {u} = {}
<1>1. IsFiniteSet(P) /\ Cardinality(P) <= Cardinality(U)
  BY FS_Subset
<1>2. Cardinality(P) \in Nat /\ Cardinality(U) \in Nat
  BY <1>1, FS_CardinalityType
<1>3. IsFiniteSet(P \ {u}) /\ Cardinality(P \ {u}) = Cardinality(P) - 1
  BY <1>1, FS_RemoveElement
<1>4. Cardinality(P \ {u}) \in Nat
  BY <1>3, FS_CardinalityType
<1>5. Cardinality(P \ {u}) = 0 <=> P \ {u} = {}
  BY <1>3, FS_EmptySet
<1> DEFINE n == Cardinality(P)
           m == Cardinality(U)
           r == Cardinality(P \ {u})
<1>6. n \in Nat /\ m \in Nat /\ r \in Nat /\ r = n - 1 /\ n <= m
      /\ m < CounterMod - 1 /\ CounterMod \in Nat
  BY <1>1, <1>2, <1>3, <1>4, CounterAssumption
<1> HIDE DEF n, m, r
<1>7. CASE zero
  <2>1. Decrement(WrapDown(m - n)) = WrapDown(m - r)
        /\ WrapDown(m - r) # 0
    BY <1>6 DEF Decrement, WrapDown
  <2> QED
    BY <2>1, <1>7 DEF Count, n, m, r
<1>8. CASE ~ zero
  <2>1. Decrement(n) = r
    BY <1>6 DEF Decrement
  <2> QED
    BY <2>1, <1>5, <1>8 DEF Count, n, r
<1> QED
  BY <1>7, <1>8

-----------------------------------------------------------------------------
(***************************************************************************)
(* Where the traversal is                                                  *)
(***************************************************************************)
LEMMA PendingShape ==
  ASSUME TypeOK, NEW k
  PROVE  /\ Pending(k) \subseteq Uses(circ, k)
         /\ IsFiniteSet(Uses(circ, k))
         /\ IsFiniteSet(Pending(k))
<1>1. Pending(k) \subseteq Uses(circ, k)
  BY DEF Pending
<1>2. IsFiniteSet(Uses(circ, k))
  BY UsesFinite DEF TypeOK
<1> QED
  BY <1>1, <1>2, FS_Subset

\* The gate of this iteration is new, its operands are behind it and its
\* readers ahead.
LEMMA Position ==
  ASSUME BaseInv, Acyclic(circ), pc \in {"eval", "free1", "free2"},
         i < circ.n_gates, gate_id \in Internal(circ)
  PROVE  /\ gate_id \notin Visited
         /\ \A k \in Internal(circ) :
              Precedes(circ, k, gate_id) => k \in Visited /\ k # gate_id
         /\ \A u \in Uses(circ, gate_id) :
              u[1] \notin Visited /\ u[1] # gate_id
<1> USE DEF BaseInv
<1>1. /\ circ.n_gates \in Nat /\ 0 \notin Internal(circ)
      /\ i \in 0 .. circ.n_gates
      /\ t_sort \in [0 .. circ.n_gates -> Gates(circ)]
      /\ Internal(circ) \subseteq Gates(circ)
  BY CircuitShape, SortShape DEF TypeOK
<1>2. /\ \A g \in Internal(circ) : \E a \in 1 .. (circ.n_gates - 1) : t_sort[a] = g
      /\ \A a, b \in 0 .. circ.n_gates :
           t_sort[a] = t_sort[b] /\ t_sort[a] \in Internal(circ) => a = b
      /\ \A a, b \in 0 .. circ.n_gates :
           t_sort[b] \in Internal(circ) /\ Precedes(circ, t_sort[a], t_sort[b])
           /\ t_sort[a] \in Internal(circ) => a < b
  BY TopologicalSort DEF TypeOK
<1>3. i # 0 /\ gate_id = t_sort[i]
  BY <1>1 DEF ControlInv, At
<1>4. \A g \in Internal(circ) :
        g \in Visited <=> \E a \in 1 .. (i - 1) : t_sort[a] = g
  BY <1>1 DEF Visited, At
<1>5. gate_id \notin Visited
  BY <1>1, <1>2, <1>3, <1>4
<1>6. ASSUME NEW k \in Internal(circ), Precedes(circ, k, gate_id)
      PROVE  k \in Visited /\ k # gate_id
  <2>1. PICK a \in 1 .. (circ.n_gates - 1) : t_sort[a] = k
    BY <1>2
  <2>2. a < i
    BY <2>1, <1>1, <1>2, <1>3, <1>6
  <2>3. a \in 1 .. (i - 1)
    BY <2>1, <2>2, <1>1
  <2> QED
    BY <2>1, <2>3, <1>4, <1>5
<1>7. ASSUME NEW u \in Uses(circ, gate_id)
      PROVE  u[1] \notin Visited /\ u[1] # gate_id
  <2>1. u[1] \in Internal(circ) /\ Precedes(circ, gate_id, u[1])
    BY UseShape DEF TypeOK
  <2>2. PICK b \in 1 .. (circ.n_gates - 1) : t_sort[b] = u[1]
    BY <2>1, <1>2
  <2>3. i < b
    BY <2>1, <2>2, <1>1, <1>2, <1>3
  <2>4. ~ \E a \in 1 .. (i - 1) : t_sort[a] = u[1]
    BY <2>1, <2>2, <2>3, <1>1, <1>2
  <2>5. u[1] # gate_id
    BY <2>1, <2>2, <2>3, <1>1, <1>2, <1>3
  <2> QED
    BY <2>1, <2>4, <2>5, <1>4
<1> QED
  BY <1>5, <1>6, <1>7

\* After the last iteration every internal gate has been visited.
LEMMA AllVisited ==
  ASSUME TypeOK, Acyclic(circ), i = circ.n_gates
  PROVE  Internal(circ) \subseteq Visited
<1>1. circ.n_gates \in Nat
  BY CircuitShape DEF TypeOK
<1>2. \A g \in Internal(circ) : \E a \in 1 .. (circ.n_gates - 1) : t_sort[a] = g
  BY TopologicalSort DEF TypeOK
<1> QED
  BY <1>1, <1>2 DEF Visited, At

-----------------------------------------------------------------------------
(***************************************************************************)
(* The loop invariant                                                      *)
(***************************************************************************)
LEMMA MeaningValues ==
  ASSUME TypeOK, Acyclic(circ), Fits(circ, input)
  PROVE  \A k \in Gates(circ) : M[k] \in Values /\ M[k] \notin {NULL, GARBAGE}
BY MeaningShape, AlgebraAssumption, GarbageAssumption DEF M, TypeOK

\* The operands of the gate at hand are there, with the right values.
LEMMA Alive == IInv => OperandsAlive
<1> SUFFICES ASSUME IInv, pc = "eval", i < circ.n_gates, circ \in EvaluableCircuits,
                    NEW j \in 1 .. Arity(gate.type)
             PROVE  Operand(j) = M[gate.input_ids[j]]
  BY DEF OperandsAlive
<1> USE DEF IInv
<1> DEFINE k == gate.input_ids[j]
<1>1. /\ circ \in Circuits /\ gate_id \in Gates(circ) /\ gate_id \in Nat
      /\ k \in Gates(circ) /\ k \in Nat
      /\ k \in Internal(circ) <=> ~ (k < circ.n_inputs)
  BY CircuitShape DEF TypeOK, gate
<1>2. gate_id \in Internal(circ)
  <2>1. gate.type \notin InputTypes
    BY DEF Arity
  <2> QED
    BY <2>1, <1>1, CircuitShape DEF gate
<1>3. Fits(circ, input) /\ Acyclic(circ)
  BY DEF ControlInv, EvaluableCircuits, Evaluable
<1>4. CASE k < circ.n_inputs
  <2>1. M[k] = input[k]
    BY <1>1, <1>3, <1>4, MeaningShape DEF M, TypeOK
  <2> QED
    BY <2>1, <1>4 DEF Operand
<1>5. CASE ~ (k < circ.n_inputs)
  <2>1. <<gate_id, j>> \in Uses(circ, k) /\ Precedes(circ, k, gate_id)
    BY <1>1, <1>2, UseOfOperand DEF gate
  <2>2. gate_id \notin Visited /\ k \in Visited
    BY <1>1, <1>2, <1>3, <1>5, <2>1, Position DEF BaseInv
  <2>3. <<gate_id, j>> \in Pending(k)
    BY <2>1, <2>2 DEF Pending
  <2>4. k \in Evaluated
    BY <1>1, <1>5, <2>2 DEF Evaluated
  <2>5. SlotOK(k)
    BY <1>1, <1>5 DEF LoopInv, InLoop
  <2>6. evals[k] = M[k]
    BY <2>3, <2>4, <2>5 DEF SlotOK, Freed
  <2> QED
    BY <2>6, <1>5 DEF Operand
<1> QED
  BY <1>4, <1>5

\* Counting down one operand position keeps counters and slots right.
LEMMA ReleaseInv ==
  ASSUME IInv, circ \in EvaluableCircuits, pc \in {"free1", "free2"},
         NEW j \in {1, 2}, j = 1 <=> pc = "free1", ReleaseOperand(j),
         \A k \in Internal(circ) : Pending(k)' = Pending(k) \ {<<gate_id, j>>},
         Evaluated' = Evaluated,
         circ' = circ, input' = input, zeroed' = zeroed
  PROVE  \A k \in Internal(circ) : CounterOK(k)' /\ SlotOK(k)'
<1> USE DEF IInv
<1>1. /\ circ \in Circuits /\ gate_id \in Gates(circ)
      /\ i < circ.n_gates /\ ~ TooWide(circ) /\ Acyclic(circ) /\ InLoop
      /\ M' = M
  BY DEF TypeOK, ControlInv, EvaluableCircuits, Evaluable, InLoop, M
<1>2. \A k \in Internal(circ) : CounterOK(k) /\ SlotOK(k)
  BY <1>1 DEF LoopInv
<1> DEFINE u == <<gate_id, j>>
<1>3. ASSUME NEW k \in Internal(circ), u \notin Uses(circ, k),
             evals'[k] = evals[k],
             out_deps_not_evaled'[k] = out_deps_not_evaled[k]
      PROVE  CounterOK(k)' /\ SlotOK(k)'
  <2>1. Pending(k)' = Pending(k)
    BY <1>3 DEF Pending
  <2> QED
    BY <1>1, <1>2, <1>3, <2>1 DEF CounterOK, SlotOK, Freed
<1>4. CASE ~ ReadsSlot(j)
  <2>1. ASSUME NEW k \in Internal(circ) PROVE u \notin Uses(circ, k)
    <3> SUFFICES ASSUME u \in Uses(circ, k) PROVE FALSE
      OBVIOUS
    <3>1. /\ gate_id \in Internal(circ) /\ j \in 1 .. Arity(gate.type)
          /\ gate.input_ids[j] = k
      BY <1>1, UseShape DEF gate
    <3>2. gate_id >= circ.n_inputs /\ k >= circ.n_inputs
      BY <3>1, <1>1, CircuitShape DEF gate
    <3> QED
      BY <3>1, <3>2, <1>4 DEF ReadsSlot
  <2>2. evals' = evals /\ out_deps_not_evaled' = out_deps_not_evaled
    BY <1>4 DEF ReleaseOperand
  <2> QED
    BY <2>1, <2>2, <1>3
<1>5. CASE ReadsSlot(j)
  <2>1. gate_id \in Internal(circ) /\ j \in 1 .. Arity(gate.type)
    <3>1. gate_id \in Internal(circ)
      BY <1>1, <1>5, CircuitShape DEF ReadsSlot
    <3>2. Arity(gate.type) \in {1, 2}
      BY <3>1, <1>1, CircuitShape DEF gate
    <3> QED
      BY <3>1, <3>2, <1>5 DEF ReadsSlot
  <2>2. PICK d \in Internal(circ) : d = gate.input_ids[j]
    BY <2>1, <1>1, <1>5, CircuitShape DEF ReadsSlot, gate
  <2> DEFINE n == Decrement(out_deps_not_evaled[d])
  <2>3. u \in Uses(circ, d) /\ Precedes(circ, d, gate_id)
    BY <2>1, <2>2, <1>1, UseOfOperand DEF gate
  <2>4. gate_id \notin Visited /\ d \in Visited
    BY <1>1, <2>1, <2>2, <2>3, Position DEF BaseInv
  <2>5. u \in Pending(d)
    BY <2>3, <2>4 DEF Pending
  <2>6. d \in Evaluated
    BY <2>2, <2>4 DEF Evaluated
  <2>7. /\ out_deps_not_evaled' = [out_deps_not_evaled EXCEPT ![d] = n]
        /\ evals' = IF n = 0 THEN [evals EXCEPT ![d] = NULL] ELSE evals
    BY <1>5, <2>2 DEF ReleaseOperand, Release
  <2> HIDE DEF n
  <2>8. ASSUME NEW k \in Internal(circ), k # d
        PROVE  CounterOK(k)' /\ SlotOK(k)'
    <3>1. u \notin Uses(circ, k)
      BY <2>2, <2>8, <1>1, UseShape DEF gate
    <3>2. /\ evals'[k] = evals[k]
          /\ out_deps_not_evaled'[k] = out_deps_not_evaled[k]
      BY <2>7, <2>8 DEF TypeOK
    <3> QED
      BY <3>1, <3>2, <1>3
  <2>9. CounterOK(d)' /\ SlotOK(d)'
    <3> DEFINE zero == d \in zeroed
    <3>1. out_deps_not_evaled[d] = Count(zero, Uses(circ, d), Pending(d))
      BY <1>2, <2>2 DEF CounterOK, Count
    <3>2. /\ IsFiniteSet(Uses(circ, d))
          /\ Pending(d) \in SUBSET Uses(circ, d)
      BY PendingShape DEF IInv
    <3>3. Cardinality(Uses(circ, d)) < CounterMod - 1
      <4>1. Cardinality(Uses(circ, d)) \in Nat
        BY <3>2, FS_CardinalityType
      <4> QED
        BY <4>1, <1>1, <2>2, CounterAssumption DEF TooWide, n_out_deps
    <3>4. /\ n = Count(zero, Uses(circ, d), Pending(d) \ {u})
          /\ n = 0 <=> ~ zero /\ Pending(d) \ {u} = {}
      <4>1. zero \in BOOLEAN
        OBVIOUS
      <4>2. n = Decrement(Count(zero, Uses(circ, d), Pending(d)))
        BY <3>1 DEF n
      <4> HIDE DEF u, zero
      <4> QED
        BY <4>1, <4>2, <3>2, <3>3, <2>5, DecrementCount
    <3>5. Pending(d)' = Pending(d) \ {u}
      BY <2>2
    <3>6. /\ out_deps_not_evaled'[d] = n
          /\ evals'[d] = IF n = 0 THEN NULL ELSE evals[d]
      BY <2>2, <2>7 DEF TypeOK
    <3>7. CounterOK(d)'
      BY <3>4, <3>5, <3>6 DEF CounterOK, Count
    <3>8. evals[d] = M[d]
      BY <1>2, <2>2, <2>5, <2>6 DEF SlotOK, Freed
    <3>9. Freed(d)' <=> n = 0
      BY <2>3, <3>4, <3>5 DEF Freed
    <3>10. SlotOK(d)'
      BY <3>6, <3>8, <3>9, <2>6, <1>1 DEF SlotOK
    <3> QED
      BY <3>7, <3>10
  <2> QED
    BY <2>8, <2>9
<1> QED
  BY <1>4, <1>5

-----------------------------------------------------------------------------
(***************************************************************************)
(* The inductive invariant                                                 *)
(***************************************************************************)
LEMMA IInit == Init => IInv
<1> SUFFICES ASSUME Init PROVE IInv
  OBVIOUS
<1>1. TypeOK /\ ControlInv
  BY BaseInit DEF BaseInv
<1>2. LoopInv /\ EndInv
  BY DEF Init, LoopInv, InLoop, EndInv
<1> QED
  BY <1>1, <1>2 DEF IInv

\* The initialisation puts counters and slots right.
LEMMA StepInitialise ==
  ASSUME IInv, Initialise, circ \in EvaluableCircuits
  PROVE  \A k \in Internal(circ) : CounterOK(k)' /\ SlotOK(k)'
<1> USE DEF IInv
<1>1. /\ circ' = circ /\ i' = 0 /\ pc' = "eval"
      /\ circ \in Circuits
  BY DEF Initialise, ControlInv, TypeOK
<1>2. Visited' = {}
  BY <1>1 DEF Visited
<1>3. Evaluated' = {}
  BY <1>1, <1>2 DEF Evaluated
<1> SUFFICES ASSUME NEW k \in Internal(circ)
             PROVE  CounterOK(k)' /\ SlotOK(k)'
  OBVIOUS
<1>4. Pending(k)' = Uses(circ, k)
  BY <1>1, <1>2 DEF Pending
<1>5. Cardinality(Uses(circ, k)) \in Nat
  BY UsesFinite, FS_CardinalityType, <1>1
<1>6. Cardinality(Uses(circ, k)) < CounterMod - 1
  BY <1>5, CounterAssumption DEF Initialise, TooWide, n_out_deps
<1>7. Cardinality(Uses(circ, k)) % CounterMod = Cardinality(Uses(circ, k))
  BY <1>5, <1>6, CounterAssumption
<1>8. out_deps_not_evaled'[k] =
        IF k \in zeroed' THEN 0 ELSE Cardinality(Uses(circ, k))
  BY <1>7 DEF Initialise, n_out_deps
<1>9. CounterOK(k)'
  BY <1>1, <1>4, <1>5, <1>8 DEF CounterOK, WrapDown
<1>10. SlotOK(k)'
  BY <1>1, <1>3 DEF Initialise, InitialSlot, SlotOK
<1> QED
  BY <1>9, <1>10

\* Computing a gate keeps counters and slots right.
LEMMA StepCompute ==
  ASSUME IInv, Compute, circ \in EvaluableCircuits
  PROVE  \A k \in Internal(circ) : CounterOK(k)' /\ SlotOK(k)'
<1> USE DEF IInv
<1> DEFINE v == Apply(gate, Operand(1), Operand(Arity(gate.type)))
<1>1. /\ pc = "eval" /\ pc' = "free1" /\ i < circ.n_gates
      /\ evals' = [evals EXCEPT ![gate_id] = v]
      /\ UNCHANGED <<call, i, gate_id, out_deps_not_evaled,
                     zeroed>>
  BY DEF Compute
<1>2. /\ circ \in Circuits /\ gate_id \in Internal(circ)
      /\ Arity(gate.type) \in {1, 2}
  BY CircuitShape DEF Compute, TypeOK, gate
<1>3. Acyclic(circ) /\ Fits(circ, input) /\ InLoop /\ InLoop'
  BY <1>1 DEF EvaluableCircuits, Evaluable, ControlInv, InLoop
<1>4. \A k \in Internal(circ) : CounterOK(k) /\ SlotOK(k)
  BY <1>3 DEF LoopInv
<1>5. v = M[gate_id]
  <2>1. \A j \in 1 .. Arity(gate.type) : Operand(j) = M[gate.input_ids[j]]
    BY <1>1, Alive DEF OperandsAlive
  <2>2. /\ Operand(1) = M[gate.input_ids[1]]
        /\ Operand(Arity(gate.type)) = M[gate.input_ids[Arity(gate.type)]]
    BY <2>1, <1>2
  <2> QED
    BY <2>2, <1>2, <1>3, MeaningShape DEF M, gate, TypeOK
<1> HIDE DEF v
<1>6. /\ gate_id \notin Visited
      /\ \A u \in Uses(circ, gate_id) : u[1] \notin Visited
  BY <1>1, <1>2, <1>3, Position DEF BaseInv
<1>7. Visited' = Visited /\ M' = M
  BY <1>1 DEF Visited, At, M
<1>8. Evaluated' = Evaluated \cup {gate_id} /\ gate_id \notin Evaluated
  BY <1>1, <1>2, <1>6, <1>7 DEF Evaluated
<1> SUFFICES ASSUME NEW k \in Internal(circ)
             PROVE  CounterOK(k)' /\ SlotOK(k)'
  OBVIOUS
<1>9. Pending(k)' = Pending(k)
  BY <1>1, <1>7 DEF Pending
<1>10. CounterOK(k)'
  BY <1>1, <1>4, <1>9 DEF CounterOK
<1>11. CASE k = gate_id
  <2>1. Pending(gate_id) = Uses(circ, gate_id)
    BY <1>1, <1>6 DEF Pending
  <2>2. evals'[k] = M[k]
    BY <1>1, <1>2, <1>5, <1>11 DEF TypeOK
  <2> QED
    BY <2>1, <2>2, <1>1, <1>7, <1>8, <1>9, <1>10, <1>11 DEF SlotOK, Freed
<1>12. CASE k # gate_id
  <2>1. evals'[k] = evals[k]
    BY <1>1, <1>12 DEF TypeOK
  <2> QED
    BY <2>1, <1>1, <1>4, <1>7, <1>8, <1>9, <1>10, <1>12 DEF SlotOK, Freed
<1> QED
  BY <1>11, <1>12

\* Steps that move no slot, no counter and no position.
LEMMA StepSame ==
  ASSUME IInv, circ \in EvaluableCircuits, InLoop,
         UNCHANGED <<circ, input, evals, out_deps_not_evaled, zeroed>>,
         Evaluated' = Evaluated,
         \A k \in Internal(circ) : Pending(k)' = Pending(k)
  PROVE  \A k \in Internal(circ) : CounterOK(k)' /\ SlotOK(k)'
<1>1. \A k \in Internal(circ) : CounterOK(k) /\ SlotOK(k)
  BY DEF IInv, LoopInv
<1>2. M' = M
  BY DEF M
<1> QED
  BY <1>1, <1>2 DEF CounterOK, SlotOK, Freed

\* Releasing the first operand keeps counters and slots right.
LEMMA StepFreeFirst ==
  ASSUME IInv, FreeFirst, circ \in EvaluableCircuits
  PROVE  \A k \in Internal(circ) : CounterOK(k)' /\ SlotOK(k)'
<1>1. /\ pc = "free1" /\ pc' = "free2" /\ ReleaseOperand(1)
      /\ UNCHANGED <<call, i, gate_id, zeroed>>
  BY DEF FreeFirst
<1>2. Visited' = Visited
  BY <1>1 DEF Visited, At
<1>3. Evaluated' = Evaluated
  BY <1>1, <1>2 DEF Evaluated
<1>4. ASSUME NEW k \in Internal(circ)
      PROVE  Pending(k)' = Pending(k) \ {<<gate_id, 1>>}
  BY <1>1, <1>2 DEF Pending
<1> QED
  BY <1>1, <1>3, <1>4, ReleaseInv

\* Releasing the second operand, with the step to the next gate, keeps them right.
LEMMA StepFreeSecond ==
  ASSUME IInv, FreeSecond, circ \in EvaluableCircuits
  PROVE  \A k \in Internal(circ) : CounterOK(k)' /\ SlotOK(k)'
<1>1. /\ pc = "free2" /\ pc' = "eval" /\ ReleaseOperand(2)
      /\ UNCHANGED <<call, zeroed>> /\ i' = i + 1
  BY DEF FreeSecond
<1>2. i \in Nat /\ circ \in Circuits /\ gate_id = At(i)
  BY <1>1, CircuitShape DEF IInv, TypeOK, ControlInv
<1>3. Visited' = Visited \cup {gate_id}
  BY <1>1, <1>2 DEF Visited, At
<1>4. Evaluated' = Evaluated
  BY <1>1, <1>3 DEF Evaluated
<1>5. ASSUME NEW k \in Internal(circ)
      PROVE  Pending(k)' = Pending(k) \ {<<gate_id, 2>>}
  <2>1. \A u \in Uses(circ, k) : u = <<u[1], u[2]>> /\ u[2] \in {1, 2}
    BY <1>2, UseShape DEF Uses
  <2>2. \A u \in Uses(circ, k) :
          u[1] = gate_id <=> u = <<gate_id, 1>> \/ u = <<gate_id, 2>>
    BY <2>1
  <2>3. Pending(k) = {u \in Uses(circ, k) :
                        u[1] \notin Visited /\ u # <<gate_id, 1>>}
    BY <1>1 DEF Pending
  <2>4. Pending(k)' = {u \in Uses(circ, k) :
                         u[1] \notin Visited /\ u[1] # gate_id}
    BY <1>1, <1>3 DEF Pending
  <2> QED
    BY <2>2, <2>3, <2>4
<1> QED
  BY <1>1, <1>4, <1>5, ReleaseInv

\* Every step keeps counters and slots right within the loop.
LEMMA LoopStep == IInv /\ [Next]_vars => LoopInv'
<1> SUFFICES ASSUME IInv, [Next]_vars, (circ \in EvaluableCircuits)', InLoop'
             PROVE  \A k \in Internal(circ)' : CounterOK(k)' /\ SlotOK(k)'
  BY DEF LoopInv
<1>1. circ' = circ /\ circ \in EvaluableCircuits
  BY DEF Next, Step, vars, RejectInputs, AssertDeps, Initialise, OverrunFrame,
         SkipInput, Compute, OperandMissing, OperandGarbage, FreeFirst,
         FreeSecond, EndLoop, CopyResult, Cleanup, Finished
<1>2. CASE Initialise
  BY <1>1, <1>2, StepInitialise
<1>3. CASE SkipInput
  <2>1. /\ pc = "eval" /\ pc' = "free1" /\ InLoop
        /\ UNCHANGED <<call, i, gate_id, evals,
                       out_deps_not_evaled, zeroed>>
    BY <1>3 DEF SkipInput, InLoop
  <2>2. gate_id \notin Internal(circ)
    BY <1>3, CircuitShape DEF SkipInput, gate, IInv, TypeOK
  <2>3. Visited' = Visited
    BY <2>1 DEF Visited, At
  <2>4. Evaluated' = Evaluated
    BY <2>1, <2>2, <2>3 DEF Evaluated
  <2>5. \A k \in Internal(circ) : Pending(k)' = Pending(k)
    BY <2>1, <2>3 DEF Pending
  <2> QED
    BY <1>1, <2>1, <2>4, <2>5, StepSame
<1>4. CASE Compute
  BY <1>1, <1>4, StepCompute
<1>5. CASE FreeFirst
  BY <1>1, <1>5, StepFreeFirst
<1>6. CASE FreeSecond
  BY <1>1, <1>6, StepFreeSecond
<1>7. CASE EndLoop
  <2>1. /\ pc = "eval" /\ pc' = "copy" /\ InLoop
        /\ UNCHANGED <<call, i, gate_id, evals,
                       out_deps_not_evaled, zeroed>>
    BY <1>7 DEF EndLoop, InLoop
  <2>2. Visited' = Visited
    BY <2>1 DEF Visited, At
  <2>3. Evaluated' = Evaluated
    BY <2>1, <2>2 DEF Evaluated
  <2>4. \A k \in Internal(circ) : Pending(k)' = Pending(k)
    BY <2>1, <2>2 DEF Pending
  <2> QED
    BY <1>1, <2>1, <2>3, <2>4, StepSame
<1>8. CASE Finished \/ UNCHANGED vars
  <2>1. UNCHANGED vars
    BY <1>8 DEF Finished
  <2>2. InLoop
    BY <2>1 DEF InLoop, vars
  <2>3. Evaluated' = Evaluated /\ \A k \in Internal(circ) : Pending(k)' = Pending(k)
    BY <2>1 DEF Evaluated, Pending, Visited, At, vars
  <2> QED
    BY <1>1, <2>1, <2>2, <2>3, StepSame DEF vars
<1>9. CASE RejectInputs \/ AssertDeps \/ OverrunFrame \/ OperandMissing
           \/ OperandGarbage \/ CopyResult \/ Cleanup
  BY <1>9 DEF RejectInputs, AssertDeps, OverrunFrame, OperandMissing,
              OperandGarbage, CopyResult, Cleanup, InLoop
<1> QED
  BY <1>2, <1>3, <1>4, <1>5, <1>6, <1>7, <1>8, <1>9 DEF Next, Step

\* At the end of the loop every slot is settled, and the last one holds the
\* result.
LEMMA AtCopy ==
  ASSUME IInv, pc = "copy", circ \in EvaluableCircuits
  PROVE  /\ \A k \in Internal(circ) : evals[k] # GARBAGE
         /\ evals[OutputGate(circ)] = M[OutputGate(circ)]
         /\ M[OutputGate(circ)] \in Values
<1>1. /\ TypeOK /\ i = circ.n_gates /\ Fits(circ, input) /\ Acyclic(circ)
      /\ Uses(circ, OutputGate(circ)) = {} /\ circ \in Circuits
  BY DEF IInv, ControlInv, EvaluableCircuits, Evaluable, TypeOK
<1>2. Internal(circ) \subseteq Evaluated
  BY <1>1, AllVisited DEF Evaluated
<1>3. \A k \in Internal(circ) : evals[k] = IF Freed(k) THEN NULL ELSE M[k]
  BY <1>2 DEF IInv, LoopInv, InLoop, SlotOK
<1>4. \A k \in Internal(circ) : M[k] \in Values /\ M[k] \notin {NULL, GARBAGE}
  BY <1>1, MeaningValues, CircuitShape
<1>5. OutputGate(circ) \in Internal(circ)
  BY <1>1, CircuitShape
<1>6. ~ Freed(OutputGate(circ))
  BY <1>1 DEF Freed
<1> QED
  BY <1>3, <1>4, <1>5, <1>6, GarbageAssumption

\* Every step keeps what holds at the end of a call.
LEMMA EndStep == IInv /\ [Next]_vars => EndInv'
<1> SUFFICES ASSUME IInv, [Next]_vars, (circ \in EvaluableCircuits)'
             PROVE  /\ pc' # "crashed"
                    /\ pc' = "cleanup" =>
                         \A k \in Internal(circ)' : evals'[k] # GARBAGE
                    /\ pc' = "cleanup" \/ (pc' = "done" /\ err' = "E_NOERR")
                         => result' = M[OutputGate(circ)]'
  BY DEF EndInv
<1>1. circ' = circ /\ input' = input /\ circ \in EvaluableCircuits /\ M' = M
  BY DEF Next, Step, vars, RejectInputs, AssertDeps, Initialise, OverrunFrame,
         SkipInput, Compute, OperandMissing, OperandGarbage, FreeFirst,
         FreeSecond, EndLoop, CopyResult, Cleanup, Finished, M
<1>2. CASE RejectInputs
  BY <1>2 DEF RejectInputs
<1>3. CASE AssertDeps \/ Initialise \/ OverrunFrame \/ SkipInput \/ Compute
           \/ FreeFirst \/ FreeSecond \/ EndLoop
  BY <1>3 DEF AssertDeps, Initialise, OverrunFrame, SkipInput, Compute,
              FreeFirst, FreeSecond, EndLoop
<1>4. CASE OperandMissing \/ OperandGarbage
  <2>1. /\ pc = "eval" /\ i < circ.n_gates
        /\ Operands \cap {NULL, GARBAGE} # {}
    BY <1>4 DEF OperandMissing, OperandGarbage
  <2>2. PICK j \in 1 .. Arity(gate.type) : Operand(j) \in {NULL, GARBAGE}
    BY <2>1 DEF Operands
  <2>3. Operand(j) = M[gate.input_ids[j]]
    BY <1>1, <2>1, Alive DEF OperandsAlive
  <2>4. gate.input_ids[j] \in Gates(circ)
    BY CircuitShape DEF gate, IInv, TypeOK
  <2>5. TypeOK /\ Acyclic(circ) /\ Fits(circ, input)
    BY <1>1, <2>1 DEF IInv, ControlInv, EvaluableCircuits, Evaluable
  <2>6. M[gate.input_ids[j]] \notin {NULL, GARBAGE}
    BY <2>4, <2>5, MeaningValues
  <2> QED
    BY <2>2, <2>3, <2>6
<1>5. CASE CopyResult
  <2>1. pc = "copy"
    BY <1>5 DEF CopyResult
  <2>2. /\ \A k \in Internal(circ) : evals[k] # GARBAGE
        /\ evals[OutputGate(circ)] = M[OutputGate(circ)]
        /\ M[OutputGate(circ)] \in Values
    BY <1>1, <2>1, AtCopy
  <2>3. pc' = "cleanup" /\ result' = M[OutputGate(circ)] /\ evals' = evals
    BY <1>5, <2>2, AlgebraAssumption, GarbageAssumption DEF CopyResult
  <2> QED
    BY <1>1, <2>2, <2>3
<1>6. CASE Cleanup
  <2>1. /\ \A k \in Internal(circ) : evals[k] # GARBAGE
        /\ result = M[OutputGate(circ)]
    BY <1>1, <1>6 DEF Cleanup, IInv, EndInv
  <2>2. pc' = "done" /\ result' = result
    BY <2>1, <1>6 DEF Cleanup
  <2> QED
    BY <1>1, <2>1, <2>2
<1>7. CASE Finished \/ UNCHANGED vars
  <2>1. UNCHANGED vars
    BY <1>7 DEF Finished
  <2> QED
    BY <1>1, <2>1 DEF vars, IInv, EndInv
<1> QED
  BY <1>2, <1>3, <1>4, <1>5, <1>6, <1>7 DEF Next, Step

\* Every step keeps the inductive invariant.
LEMMA IStep == IInv /\ [Next]_vars => IInv'
<1>1. IInv => BaseInv
  BY DEF IInv, BaseInv
<1> QED
  BY <1>1, BaseStep, LoopStep, EndStep DEF IInv, BaseInv

\* The inductive invariant holds throughout every call.
THEOREM Inductive == Spec => []IInv
BY IInit, IStep, PTL DEF Spec

-----------------------------------------------------------------------------
(***************************************************************************)
(* The safety properties                                                   *)
(***************************************************************************)
\* No gate is evaluated with an operand that was freed too early or that was
\* never computed.
THEOREM OperandsAliveCorrect == Spec => []OperandsAlive
BY Inductive, Alive, PTL

\* Both evaluators return the value of the output gate.
THEOREM ResultIsMeaning == Spec => []ResultCorrect
<1>1. IInv => ResultCorrect
  BY DEF IInv, EndInv, ResultCorrect
<1> QED
  BY <1>1, Inductive, PTL

\* The mis-indexed initialisation of the tag evaluator is harmless on every
\* evaluable circuit.
THEOREM GarbageIsUntouched == Spec => []GarbageUntouched
<1>1. IInv => GarbageUntouched
  BY DEF IInv, EndInv, GarbageUntouched
<1> QED
  BY <1>1, Inductive, PTL

\* A counter is the number of reads to come.
THEOREM CountersAreExact == Spec => []CountersExact
<1>1. IInv => CountersExact
  BY DEF IInv, LoopInv, CounterOK, CountersExact
<1> QED
  BY <1>1, Inductive, PTL

\* Intermediate results are freed at their last read, no sooner, no later.
THEOREM FreedExactly == Spec => []FreedAtLastRead
<1>1. IInv => FreedAtLastRead
  <2> SUFFICES ASSUME IInv, InLoop, circ \in EvaluableCircuits,
                      NEW k \in Evaluated \ zeroed
               PROVE  evals[k] = NULL <=> (Uses(circ, k) # {} /\ Pending(k) = {})
    BY DEF FreedAtLastRead
  <2>1. k \in Internal(circ)
    BY DEF Evaluated
  <2>2. evals[k] = IF Freed(k) THEN NULL ELSE M[k]
    BY <2>1 DEF IInv, LoopInv, SlotOK
  <2>3. M[k] # NULL
    <3>1. TypeOK /\ Acyclic(circ) /\ pc # "call"
      BY DEF IInv, EvaluableCircuits, Evaluable, InLoop
    <3>2. Fits(circ, input)
      BY DEF IInv, ControlInv, InLoop
    <3> QED
      BY <2>1, <3>1, <3>2, MeaningValues, CircuitShape DEF TypeOK
  <2> QED
    BY <2>2, <2>3 DEF Freed
<1> QED
  BY <1>1, Inductive, PTL

-----------------------------------------------------------------------------
(***************************************************************************)
(* The evaluators implement CircuitFunction                                *)
(***************************************************************************)
\* The instance has its own copies of the operators on circuits.
LEMMA SameCircuits ==
  /\ \A c, x : Function!Fits(c, x) <=> Fits(c, x)
  /\ \A c : Function!Evaluable(c) <=> Evaluable(c)
  /\ \A c : Function!OutputGate(c) = OutputGate(c)
<1>1. \A c : Function!Gates(c) = Gates(c) /\ Function!Internal(c) = Internal(c)
  BY DEF Function!Gates, Gates, Function!Internal, Internal
<1>2. \A t : Function!Arity(t) = Arity(t)
  BY DEF Function!Arity, Arity, Function!InputTypes, InputTypes,
         Function!BinaryTypes, BinaryTypes
<1>3. \A c, k : Function!Uses(c, k) = Uses(c, k)
  BY <1>1, <1>2, Zenon DEF Function!Uses, Uses
<1>4. \A c, k, g : Function!Precedes(c, k, g) <=> Precedes(c, k, g)
  BY <1>3 DEF Function!Precedes, Precedes
<1>5. \A c : Function!Acyclic(c) <=> Acyclic(c)
  BY <1>1, <1>4, Zenon DEF Function!Acyclic, Acyclic
<1>6. \A c : Function!OutputGate(c) = OutputGate(c)
  BY DEF Function!OutputGate, OutputGate
<1> QED
  BY <1>3, <1>5, <1>6 DEF Function!Fits, Fits, Function!Evaluable, Evaluable

\* A call begins as a call of the function.
LEMMA FunctionInit == Init => Function!Init
BY DEF Init, Function!Init, status, Final

\* Every step of the evaluator is one of the function, or none.
LEMMA FunctionStep ==
  IInv /\ IInv' /\ [Next]_vars => [Function!Next]_Function!vars
<1> SUFFICES ASSUME IInv, IInv', [Next]_vars
             PROVE  Function!Next \/ UNCHANGED Function!vars
  OBVIOUS
<1> USE DEF status, Final, Function!vars
<1>1. CASE RejectInputs
  <2>1. result = NULL
    BY <1>1 DEF RejectInputs, IInv, ControlInv
  <2>2. Function!Reject
    BY <1>1, <2>1, SameCircuits DEF RejectInputs, Function!Reject
  <2> QED
    BY <2>2 DEF Function!Next
<1>2. CASE AssertDeps \/ OverrunFrame
  <2>1. MayAbort(variant, circ)
    BY <1>2 DEF AssertDeps, OverrunFrame, MayAbort
  <2>2. result = NULL
    BY <1>2 DEF AssertDeps, OverrunFrame, IInv, ControlInv
  <2>3. Function!Abort
    BY <1>2, <2>1, <2>2, SameCircuits
    DEF AssertDeps, OverrunFrame, Function!Abort
  <2> QED
    BY <2>3 DEF Function!Next
<1>3. CASE Initialise \/ SkipInput \/ Compute \/ OperandMissing \/ FreeFirst
           \/ FreeSecond \/ EndLoop
  BY <1>3 DEF Initialise, SkipInput, Compute, OperandMissing, FreeFirst,
              FreeSecond, EndLoop
<1>4. ASSUME pc \in {"eval", "copy", "cleanup"}, pc' \in {"done", "crashed"},
             UNCHANGED <<call, err>>
      PROVE  Function!Next
  <2>1. Fits(circ, input) /\ err = "E_NOERR"
    BY <1>4 DEF IInv, ControlInv
  <2>2. /\ result' \in Values \cup {NULL}
        /\ circ \in EvaluableCircuits <=> Evaluable(circ)
    BY DEF IInv, TypeOK, EvaluableCircuits
  <2>3. CASE circ \in EvaluableCircuits
    <3>1. pc' = "done" /\ result' = Meaning(circ, input)[OutputGate(circ)]
      BY <1>4, <2>1, <2>3 DEF IInv, EndInv, M
    <3>2. Function!ReturnValue
      BY <1>4, <2>1, <2>2, <2>3, <3>1, SameCircuits DEF Function!ReturnValue
    <3> QED
      BY <3>2 DEF Function!Next
  <2>4. CASE circ \notin EvaluableCircuits
    <3>1. Function!NoPromise
      BY <1>4, <2>1, <2>2, <2>4, SameCircuits DEF Function!NoPromise
    <3> QED
      BY <3>1 DEF Function!Next
  <2> QED
    BY <2>3, <2>4
<1>5. CASE OperandGarbage
  BY <1>4, <1>5 DEF OperandGarbage
<1>6. CASE CopyResult
  <2>1. CASE pc' = "crashed"
    BY <1>4, <1>6, <2>1 DEF CopyResult
  <2>2. CASE pc' = "cleanup"
    BY <1>6, <2>2 DEF CopyResult
  <2> QED
    BY <1>6, <2>1, <2>2 DEF CopyResult
<1>7. CASE Cleanup
  BY <1>4, <1>7 DEF Cleanup
<1>8. CASE Finished \/ UNCHANGED vars
  BY <1>8 DEF Finished, vars
<1> QED
  BY <1>1, <1>2, <1>3, <1>5, <1>6, <1>7, <1>8 DEF Next, Step

\* Seen from the caller, a call is one step that delivers the value of the
\* output gate.
THEOREM Refinement == Spec => ImplementsFunction
<1>1. Spec => Function!Spec
  BY FunctionInit, FunctionStep, Inductive, PTL DEF Spec, Function!Spec
<1> QED
  BY <1>1 DEF ImplementsFunction

-----------------------------------------------------------------------------
(***************************************************************************)
(* Every circuit, those without a value too: on a cycle, or when the last  *)
(* gate has readers, the evaluators may end without a result, but they do  *)
(* not return a wrong one, and no gate stores over an earlier result.      *)
(***************************************************************************)
\* The gate of iteration n has its value.
Over(n) == n < i \/ (n = i /\ pc \in {"free1", "free2"})

\* What may be returned.
Right(v) ==
  IF Acyclic(circ) THEN v = M[OutputGate(circ)] ELSE Precedes(circ, t_sort[0], t_sort[0])

\* A slot has a value only from the iteration of its gate on, and the right
\* one; a gate that was computed had its operands computed before.
SlotsInv ==
  InLoop =>
    /\ \A k \in Internal(circ) :
         evals[k] \in Values =>
           /\ \E n \in 0 .. circ.n_gates : Over(n) /\ At(n) = k
           /\ Acyclic(circ) => evals[k] = M[k]
    /\ \A n \in 0 .. circ.n_gates :
         Over(n) /\ At(n) \in Internal(circ) =>
           \A k \in Internal(circ) :
             Precedes(circ, k, At(n)) => \E m \in 0 .. (n - 1) : At(m) = k

ResultInv ==
  /\ pc = "call" \/ InLoop => result = NULL
  /\ result # NULL => Right(result)

AnyInv == BaseInv /\ SlotsInv /\ ResultInv

-----------------------------------------------------------------------------
(***************************************************************************)
(* The order, of a circuit with cycles as well                             *)
(***************************************************************************)
\* Every gate with an edge has a place in the order.
LEMMA WiredHasPlace ==
  ASSUME NEW c \in Circuits, NEW s, IsTSort(c, s), NEW g \in Wired(c)
  PROVE  \E a \in 0 .. (c.n_gates - 1) : s[a] = g
<1>1. PICK k \in 0 .. c.n_gates :
        LET p == [a \in 0 .. (k - 1) |-> s[a]]
        IN  EachOnce(Wired(c), p)
  BY DEF IsTSort
<1>2. \E a \in 0 .. (k - 1) : s[a] = g
  BY <1>1 DEF EachOnce
<1>3. k \in Nat /\ k <= c.n_gates /\ c.n_gates \in Nat
  BY CircuitShape
<1> QED
  BY <1>2, <1>3

\* An internal gate has one place at most.
LEMMA OnePlace ==
  ASSUME NEW c \in Circuits, NEW s, IsTSort(c, s),
         NEW a \in 0 .. c.n_gates, NEW b \in 0 .. c.n_gates,
         s[a] = s[b], s[a] \in Internal(c)
  PROVE  a = b
<1>1. PICK k \in 0 .. c.n_gates :
        LET p == [n \in 0 .. (k - 1) |-> s[n]]
        IN  EachOnce(Wired(c), p) /\ s = Padded(c, p)
  BY DEF IsTSort
<1>2. /\ \A m, n \in 0 .. (k - 1) : m # n => s[m] # s[n]
      /\ \A n \in 0 .. c.n_gates : n \notin 0 .. (k - 1) => s[n] = 0
  BY <1>1 DEF EachOnce, Padded
<1>3. 0 \notin Internal(c)
  BY CircuitShape
<1> QED
  BY <1>2, <1>3

\* The gate at hand has not been visited.
LEMMA Fresh ==
  ASSUME TypeOK, gate_id = At(i), gate_id \in Internal(circ), NEW n \in 0 .. (i - 1)
  PROVE  At(n) # gate_id
<1>1. /\ circ \in Circuits /\ circ.n_gates \in Nat /\ 0 \notin Internal(circ)
      /\ i \in 0 .. circ.n_gates /\ IsTSort(circ, t_sort)
  BY CircuitShape DEF TypeOK
<1>2. i # 0 /\ gate_id = t_sort[i] /\ n # i /\ n \in 0 .. circ.n_gates
  BY <1>1 DEF At
<1>3. CASE n = 0
  BY <1>1, <1>3 DEF At
<1>4. CASE n # 0
  <2>1. t_sort[n] = t_sort[i] => n = i
    BY <1>1, <1>2, OnePlace
  <2> QED
    BY <2>1, <1>2, <1>4 DEF At
<1> QED
  BY <1>3, <1>4

\* A loop that ran to its end on a circuit with a cycle was on one of a single
\* gate, the one that is never visited: of any other, the first gate in the
\* order has an operand that comes later.
LEMMA CycleIsSeen ==
  ASSUME BaseInv, SlotsInv, pc = "copy", ~ Acyclic(circ)
  PROVE  Precedes(circ, t_sort[0], t_sort[0])
<1>1. /\ circ \in Circuits /\ circ.n_gates \in Nat /\ 0 \notin Internal(circ)
      /\ i = circ.n_gates /\ IsTSort(circ, t_sort)
  BY CircuitShape DEF BaseInv, ControlInv, TypeOK
<1>2. PICK S \in (SUBSET Gates(circ)) \ {{}} :
        \A g \in S : \E k \in S : Precedes(circ, k, g)
  BY DEF Acyclic
<1>3. \A g \in S : g \in Internal(circ) /\ g \in Wired(circ)
  <2> TAKE g \in S
  <2>1. PICK k \in S : Precedes(circ, k, g)
    BY <1>2
  <2>2. PICK j \in {1, 2} : <<g, j>> \in Uses(circ, k)
    BY <2>1 DEF Precedes
  <2>3. g \in Internal(circ)
    BY <2>2 DEF Uses
  <2>4. g \in Gates(circ) /\ Arity(circ.gates[g].type) \in {1, 2}
    BY <2>3, <1>1, CircuitShape
  <2> QED
    BY <2>3, <2>4 DEF Wired
<1>4. \A n \in 1 .. (circ.n_gates - 1) : t_sort[n] \notin S
  <2> DEFINE T == {n \in 1 .. (circ.n_gates - 1) : t_sort[n] \in S}
  <2> SUFFICES ASSUME T # {} PROVE FALSE
    OBVIOUS
  <2>1. T \in SUBSET Nat
    OBVIOUS
  <2>2. PICK n \in T : \A m \in T : n <= m
    BY <2>1, Least
  <2>3. n \in 1 .. (circ.n_gates - 1) /\ t_sort[n] \in S
    OBVIOUS
  <2>5. At(n) = t_sort[n] /\ Over(n) /\ n \in 0 .. circ.n_gates
    BY <2>3, <1>1 DEF At, Over
  <2>6. PICK k \in S : Precedes(circ, k, t_sort[n])
    BY <2>3, <1>2
  <2>7. \E m \in 0 .. (n - 1) : At(m) = k
    BY <2>3, <2>5, <2>6, <1>3 DEF SlotsInv, InLoop
  <2>8. PICK m \in 0 .. (n - 1) : At(m) = k
    BY <2>7
  <2>9. m # 0
    BY <2>6, <2>8, <1>1, <1>3 DEF At
  <2>4. m \in T /\ m < n
    BY <2>3, <2>6, <2>8, <2>9, <1>1 DEF At
  <2> QED
    BY <2>2, <2>3, <2>4
<1>5. \A g \in S : g = t_sort[0]
  <2> TAKE g \in S
  <2>1. PICK a \in 0 .. (circ.n_gates - 1) : t_sort[a] = g
    BY <1>1, <1>3, WiredHasPlace
  <2> QED
    BY <2>1, <1>4, <1>1
<1>6. PICK g \in S : TRUE
  BY <1>2
<1> QED
  BY <1>2, <1>5, <1>6

-----------------------------------------------------------------------------
(***************************************************************************)
(* The invariant                                                           *)
(***************************************************************************)
\* Nothing has been computed before the call.
LEMMA AnyInit == Init => AnyInv
<1> SUFFICES ASSUME Init PROVE AnyInv
  OBVIOUS
<1>1. SlotsInv /\ ResultInv
  BY DEF Init, SlotsInv, ResultInv, InLoop
<1> QED
  BY <1>1, BaseInit DEF AnyInv

\* The slots start without values.
LEMMA AnyInitialise ==
  ASSUME AnyInv, Initialise
  PROVE  SlotsInv'
<1>1. /\ pc' = "eval" /\ i' = 0 /\ circ' = circ /\ circ \in Circuits
      /\ evals' = [k \in Internal(circ) |-> InitialSlot(circ, k)]
  BY DEF Initialise, AnyInv, BaseInv, ControlInv, TypeOK
<1>2. \A k \in Internal(circ) : evals'[k] \notin Values
  BY <1>1, AlgebraAssumption, GarbageAssumption DEF InitialSlot
<1>3. \A n \in 0 .. circ.n_gates : ~ Over(n)'
  BY <1>1, CircuitShape DEF Over
<1> QED
  BY <1>1, <1>2, <1>3 DEF SlotsInv

\* What is computed is computed from values, which are the right ones.
LEMMA AnyCompute ==
  ASSUME AnyInv, Compute
  PROVE  SlotsInv'
<1> DEFINE v == Apply(gate, Operand(1), Operand(Arity(gate.type)))
<1>1. /\ BaseInv /\ TypeOK /\ circ \in Circuits /\ input \in InputVectors
      /\ Fits(circ, input) /\ gate_id = At(i) /\ i \in 0 .. circ.n_gates
      /\ pc = "eval" /\ pc' = "free1" /\ i < circ.n_gates /\ circ.n_gates \in Nat
      /\ gate_id \in Internal(circ) /\ Arity(gate.type) \in {1, 2}
      /\ evals' = [evals EXCEPT ![gate_id] = v]
      /\ UNCHANGED <<circ, input, t_sort, i, gate_id>>
  BY CircuitShape DEF Compute, AnyInv, BaseInv, ControlInv, TypeOK, gate
<1>2. ASSUME NEW k \in Internal(circ), Precedes(circ, k, gate_id)
      PROVE  evals[k] \in Values
  <2>1. PICK j \in {1, 2} : <<gate_id, j>> \in Uses(circ, k)
    BY <1>2 DEF Precedes
  <2>2. j \in 1 .. Arity(gate.type) /\ gate.input_ids[j] = k
    BY <2>1, <1>1, UseShape DEF gate
  <2>3. ~ (k < circ.n_inputs)
    BY <1>1, CircuitShape
  <2>4. Operand(j) = evals[k] /\ Operand(j) \in Operands
    BY <2>2, <2>3 DEF Operand, Operands
  <2>5. Operand(j) \in Values \cup {NULL, GARBAGE}
    BY <2>2, <1>1, OperandType
  <2> QED
    BY <2>4, <2>5 DEF Compute
<1>3. \A n \in 0 .. circ.n_gates : Over(n)' <=> Over(n) \/ n = i
  BY <1>1 DEF Over
<1>4. \A n : At(n)' = At(n)
  BY <1>1 DEF At
<1>5. /\ \A k \in Internal(circ) :
           evals[k] \in Values =>
             /\ \E n \in 0 .. circ.n_gates : Over(n) /\ At(n) = k
             /\ Acyclic(circ) => evals[k] = M[k]
      /\ \A n \in 0 .. circ.n_gates :
           Over(n) /\ At(n) \in Internal(circ) =>
             \A k \in Internal(circ) :
               Precedes(circ, k, At(n)) => \E m \in 0 .. (n - 1) : At(m) = k
  BY <1>1 DEF AnyInv, SlotsInv, InLoop
<1>6. ASSUME NEW k \in Internal(circ), evals'[k] \in Values
      PROVE  \E n \in 0 .. circ.n_gates : Over(n)' /\ At(n)' = k
  <2>1. CASE k = gate_id
    BY <2>1, <1>1, <1>3, <1>4
  <2>2. CASE k # gate_id
    <3>1. evals[k] \in Values
      BY <2>2, <1>1, <1>6 DEF TypeOK
    <3> QED
      BY <3>1, <1>3, <1>4, <1>5
  <2> QED
    BY <2>1, <2>2
<1>7. ASSUME NEW j \in 1 .. Arity(gate.type), Acyclic(circ)
      PROVE  Operand(j) = M[gate.input_ids[j]]
  <2> DEFINE k == gate.input_ids[j]
  <2>1. k \in Gates(circ) /\ (k \in Internal(circ) <=> ~ (k < circ.n_inputs))
    BY <1>1, CircuitShape DEF gate
  <2>2. CASE k < circ.n_inputs
    BY <2>1, <2>2, <1>1, <1>7, MeaningShape DEF Operand, M
  <2>3. CASE ~ (k < circ.n_inputs)
    <3>1. k \in Internal(circ) /\ Precedes(circ, k, gate_id)
      BY <2>1, <2>3, <1>1, UseOfOperand DEF gate
    <3>2. evals[k] \in Values
      BY <3>1, <1>2
    <3>3. evals[k] = M[k]
      BY <3>1, <3>2, <1>5, <1>7
    <3> QED
      BY <3>3, <2>3 DEF Operand
  <2> QED
    BY <2>2, <2>3
<1>8. Acyclic(circ) => v = M[gate_id]
  <2> SUFFICES ASSUME Acyclic(circ) PROVE v = M[gate_id]
    OBVIOUS
  <2>1. /\ Operand(1) = M[gate.input_ids[1]]
        /\ Operand(Arity(gate.type)) = M[gate.input_ids[Arity(gate.type)]]
    BY <1>1, <1>7
  <2>2. M[gate_id] = Apply(gate, M[gate.input_ids[1]], M[gate.input_ids[Arity(gate.type)]])
    BY <1>1, MeaningShape DEF M, gate
  <2> QED
    BY <2>1, <2>2
<1>9. ASSUME NEW k \in Internal(circ), evals'[k] \in Values, Acyclic(circ)
      PROVE  evals'[k] = M[k]
  <2> HIDE DEF v
  <2>1. CASE k = gate_id
    BY <2>1, <1>1, <1>8, <1>9 DEF TypeOK
  <2>2. CASE k # gate_id
    BY <2>2, <1>1, <1>5, <1>9 DEF TypeOK
  <2> QED
    BY <2>1, <2>2
<1>10. ASSUME NEW n \in 0 .. circ.n_gates, Over(n)', At(n) \in Internal(circ),
              NEW k \in Internal(circ), Precedes(circ, k, At(n))
       PROVE  \E m \in 0 .. (n - 1) : At(m) = k
  <2>1. CASE Over(n)
    BY <2>1, <1>5, <1>10
  <2>2. CASE n = i
    <3>1. evals[k] \in Values
      BY <2>2, <1>1, <1>2, <1>10
    <3>2. PICK m \in 0 .. circ.n_gates : Over(m) /\ At(m) = k
      BY <3>1, <1>5
    <3>3. m < i
      BY <3>2, <1>1 DEF Over
    <3> QED
      BY <3>2, <3>3, <2>2, <1>1
  <2> QED
    BY <2>1, <2>2, <1>3, <1>10
<1>11. M' = M
  BY <1>1 DEF M
<1> HIDE DEF v
<1> QED
  BY <1>1, <1>4, <1>6, <1>9, <1>10, <1>11 DEF SlotsInv

\* A step that computes nothing and, at most, frees.
LEMMA SlotsKept ==
  ASSUME SlotsInv, InLoop, UNCHANGED <<circ, input, t_sort>>,
         \A k \in Internal(circ) : evals'[k] \in Values => evals'[k] = evals[k],
         \A n \in 0 .. circ.n_gates : At(n) \in Internal(circ) => (Over(n)' <=> Over(n))
  PROVE  SlotsInv'
<1>1. /\ \A k \in Internal(circ) :
           evals[k] \in Values =>
             /\ \E n \in 0 .. circ.n_gates : Over(n) /\ At(n) = k
             /\ Acyclic(circ) => evals[k] = M[k]
      /\ \A n \in 0 .. circ.n_gates :
           Over(n) /\ At(n) \in Internal(circ) =>
             \A k \in Internal(circ) :
               Precedes(circ, k, At(n)) => \E m \in 0 .. (n - 1) : At(m) = k
  BY DEF SlotsInv
<1>2. M' = M
  BY DEF M
<1>3. \A n : At(n)' = At(n)
  BY DEF At
<1>4. ASSUME NEW k \in Internal(circ), evals'[k] \in Values
      PROVE  /\ \E n \in 0 .. circ.n_gates : Over(n)' /\ At(n)' = k
             /\ Acyclic(circ) => evals'[k] = M[k]
  <2>1. evals'[k] = evals[k]
    BY <1>4
  <2>2. PICK n \in 0 .. circ.n_gates : Over(n) /\ At(n) = k
    BY <2>1, <1>1, <1>4
  <2>3. Over(n)' /\ At(n)' = k
    BY <2>2, <1>3
  <2> QED
    BY <2>1, <2>3, <1>1, <1>4
<1>5. \A n \in 0 .. circ.n_gates :
        Over(n)' /\ At(n)' \in Internal(circ) =>
          \A k \in Internal(circ) :
            Precedes(circ, k, At(n)') => \E m \in 0 .. (n - 1) : At(m)' = k
  BY <1>1, <1>3
<1> QED
  BY <1>2, <1>4, <1>5 DEF SlotsInv

\* Releasing an operand changes a slot to NULL only.
LEMMA ReleaseKeeps ==
  ASSUME TypeOK, NEW j \in {1, 2}, ReleaseOperand(j), NEW k \in Internal(circ),
         evals'[k] \in Values
  PROVE  evals'[k] = evals[k]
<1>1. CASE ~ ReadsSlot(j)
  BY <1>1 DEF ReleaseOperand
<1>2. CASE ReadsSlot(j)
  <2>1. \/ evals' = [evals EXCEPT ![gate.input_ids[j]] = NULL]
        \/ evals' = evals
    BY <1>2 DEF ReleaseOperand, Release
  <2> QED
    BY <2>1, AlgebraAssumption DEF TypeOK
<1> QED
  BY <1>1, <1>2

\* Every step keeps what is known of the slots: one computes, two free.
LEMMA SlotsStep == AnyInv /\ [Next]_vars => SlotsInv'
<1> SUFFICES ASSUME AnyInv, [Next]_vars PROVE SlotsInv'
  OBVIOUS
<1>1. /\ TypeOK /\ ControlInv /\ SlotsInv /\ circ \in Circuits
      /\ circ.n_gates \in Nat /\ i \in 0 .. circ.n_gates
  BY CircuitShape DEF AnyInv, BaseInv, TypeOK
<1>2. CASE Initialise
  BY <1>2, AnyInitialise
<1>3. CASE Compute
  BY <1>3, AnyCompute
<1>4. CASE SkipInput
  <2>1. At(i) \notin Internal(circ)
    BY <1>1, <1>4, CircuitShape DEF SkipInput, ControlInv, TypeOK, gate
  <2>2. \A n \in 0 .. circ.n_gates :
          At(n) \in Internal(circ) => (Over(n)' <=> Over(n))
    BY <2>1, <1>4 DEF SkipInput, Over
  <2>3. InLoop /\ UNCHANGED <<circ, input, t_sort, evals>>
    BY <1>4 DEF SkipInput, InLoop
  <2> QED
    BY <2>2, <2>3, <1>1, SlotsKept
<1>5. CASE FreeFirst
  <2>1. /\ InLoop /\ UNCHANGED <<circ, input, t_sort, i>> /\ ReleaseOperand(1)
        /\ pc = "free1" /\ pc' = "free2"
    BY <1>5 DEF FreeFirst, InLoop
  <2>2. \A n \in 0 .. circ.n_gates : Over(n)' <=> Over(n)
    BY <2>1 DEF Over
  <2>3. \A k \in Internal(circ) : evals'[k] \in Values => evals'[k] = evals[k]
    BY <2>1, <1>1, ReleaseKeeps
  <2> QED
    BY <2>1, <2>2, <2>3, <1>1, SlotsKept
<1>6. CASE FreeSecond
  <2>1. /\ InLoop /\ UNCHANGED <<circ, input, t_sort>> /\ ReleaseOperand(2)
        /\ pc = "free2" /\ pc' = "eval" /\ i' = i + 1
    BY <1>6 DEF FreeSecond, InLoop
  <2>2. \A n \in 0 .. circ.n_gates : Over(n)' <=> Over(n)
    BY <2>1, <1>1 DEF Over
  <2>3. \A k \in Internal(circ) : evals'[k] \in Values => evals'[k] = evals[k]
    BY <2>1, <1>1, ReleaseKeeps
  <2> QED
    BY <2>1, <2>2, <2>3, <1>1, SlotsKept
<1>7. CASE EndLoop
  <2>1. /\ InLoop /\ UNCHANGED <<circ, input, t_sort, i, evals>>
        /\ pc = "eval" /\ pc' = "copy"
    BY <1>7 DEF EndLoop, InLoop
  <2>2. \A n \in 0 .. circ.n_gates : Over(n)' <=> Over(n)
    BY <2>1 DEF Over
  <2> QED
    BY <2>1, <2>2, <1>1, SlotsKept
<1>8. CASE \/ RejectInputs \/ AssertDeps \/ OverrunFrame \/ OperandMissing
           \/ OperandGarbage \/ CopyResult \/ Cleanup
  <2>1. ~ InLoop'
    BY <1>8 DEF RejectInputs, AssertDeps, OverrunFrame, OperandMissing, OperandGarbage,
                CopyResult, Cleanup, InLoop
  <2> QED
    BY <2>1 DEF SlotsInv
<1>9. CASE Finished \/ UNCHANGED vars
  <2>1. UNCHANGED <<circ, input, t_sort, evals, i, pc>>
    BY <1>9 DEF Finished, vars
  <2>2. \A n \in 0 .. circ.n_gates : Over(n)' <=> Over(n)
    BY <2>1 DEF Over
  <2>3. InLoop' <=> InLoop
    BY <2>1 DEF InLoop
  <2>4. CASE InLoop
    BY <2>1, <2>2, <2>4, <1>1, SlotsKept
  <2>5. CASE ~ InLoop
    BY <2>3, <2>5 DEF SlotsInv
  <2> QED
    BY <2>4, <2>5
<1> QED
  BY <1>2, <1>3, <1>4, <1>5, <1>6, <1>7, <1>8, <1>9 DEF Next, Step

\* What is copied is right, and nothing else is returned.
LEMMA ResultStep == AnyInv /\ [Next]_vars => ResultInv'
<1> SUFFICES ASSUME AnyInv, [Next]_vars PROVE ResultInv'
  OBVIOUS
<1>1. \A v : Right(v)' <=> Right(v)
  <2>1. UNCHANGED <<circ, input, t_sort>>
    BY DEF Next, Step, vars, RejectInputs, AssertDeps, Initialise, OverrunFrame,
           SkipInput, Compute, OperandMissing, OperandGarbage, FreeFirst,
           FreeSecond, EndLoop, CopyResult, Cleanup, Finished
  <2> QED
    BY <2>1 DEF Right, M
<1>2. CASE CopyResult
  <2>1. /\ BaseInv /\ SlotsInv /\ ResultInv /\ pc = "copy" /\ circ \in Circuits
        /\ ~ InLoop' /\ pc' # "call" /\ InLoop /\ result = NULL
    BY <1>2 DEF CopyResult, AnyInv, BaseInv, TypeOK, InLoop, ResultInv
  <2>2. CASE result' = result
    BY <2>1, <2>2, <1>1 DEF ResultInv
  <2>3. CASE result' = evals[OutputGate(circ)] /\ evals[OutputGate(circ)] \in Values
    <3>1. Acyclic(circ) => result' = M[OutputGate(circ)]
      BY <2>1, <2>3, CircuitShape DEF SlotsInv
    <3>2. ~ Acyclic(circ) => Precedes(circ, t_sort[0], t_sort[0])
      BY <2>1, CycleIsSeen
    <3>3. Right(result')
      BY <3>1, <3>2 DEF Right
    <3> QED
      BY <3>3, <2>1, <1>1 DEF ResultInv
  <2> QED
    BY <2>2, <2>3, <1>2 DEF CopyResult
<1>3. CASE ~ CopyResult
  <2>1. /\ result' = result /\ ResultInv
        /\ pc' = "call" \/ InLoop' => pc = "call" \/ InLoop
    BY <1>3 DEF AnyInv, Next, Step, vars, RejectInputs, AssertDeps, Initialise, OverrunFrame,
           SkipInput, Compute, OperandMissing, OperandGarbage, FreeFirst,
           FreeSecond, EndLoop, Cleanup, Finished, InLoop
  <2> QED
    BY <2>1, <1>1 DEF ResultInv
<1> QED
  BY <1>2, <1>3

\* The invariant holds on every circuit.
THEOREM AnyInductive == Spec => []AnyInv
<1>1. AnyInv /\ [Next]_vars => AnyInv'
  BY BaseStep, SlotsStep, ResultStep DEF AnyInv
<1> QED
  BY <1>1, AnyInit, PTL DEF Spec

-----------------------------------------------------------------------------
(***************************************************************************)
(* The properties                                                          *)
(***************************************************************************)
\* No circuit yields a wrong value, those with cycles and those whose last
\* gate has readers included.
THEOREM NothingWrong == Spec => []NoWrongResult
<1>1. AnyInv => NoWrongResult
  BY DEF AnyInv, ResultInv, Right, NoWrongResult
<1> QED
  BY <1>1, AnyInductive, PTL

\* No gate stores its result over another: an order has a gate once, and a
\* slot is empty before the iteration of its gate.
THEOREM NothingLeaks == Spec => NoLeak
<1>1. AnyInv => [NoLeakStep]_vars
  <2> SUFFICES ASSUME AnyInv, Compute PROVE evals[gate_id] \notin Values
    BY DEF NoLeakStep
  <2>1. /\ TypeOK /\ SlotsInv /\ pc = "eval" /\ InLoop /\ gate_id = At(i)
        /\ i \in 0 .. circ.n_gates /\ gate_id \in Internal(circ)
    BY CircuitShape DEF AnyInv, BaseInv, ControlInv, Compute, InLoop, TypeOK, gate
  <2>2. SUFFICES ASSUME evals[gate_id] \in Values PROVE FALSE
    OBVIOUS
  <2>3. PICK n \in 0 .. circ.n_gates : Over(n) /\ At(n) = gate_id
    BY <2>1, <2>2 DEF SlotsInv
  <2>4. n \in 0 .. (i - 1)
    BY <2>1, <2>3 DEF Over
  <2> QED
    BY <2>1, <2>3, <2>4, Fresh
<1>2. Spec => [][NoLeakStep]_vars
  BY <1>1, AnyInductive, PTL
<1> QED
  BY <1>2 DEF NoLeak

-----------------------------------------------------------------------------
(***************************************************************************)
(* Meanings                                                                *)
(***************************************************************************)
\* The value of gate k from the inputs and the values m of the gates it reads.
MeaningStep(c, ins, m, k) ==
  IF k < c.n_inputs THEN ins[k]
  ELSE Apply(c.gates[k], m[c.gates[k].input_ids[1]],
             m[c.gates[k].input_ids[Arity(c.gates[k].type)]])

\* What a gate reads, by its type.
LEMMA ReadsOfGate ==
  ASSUME NEW c \in Circuits, NEW k \in Gates(c), ~ (k < c.n_inputs)
  PROVE  /\ c.gates[k].type \in {"ADD", "MUL", "CONSTMUL"}
         /\ c.gates[k].input_ids[1] \in Reads(c, k)
         /\ c.gates[k].input_ids[Arity(c.gates[k].type)] \in Reads(c, k)
<1>1. WellFormed(c)
  BY CircuitsAssumption
<1>2. PICK t, in : t = c.gates[k].type /\ in = c.gates[k].input_ids
  OBVIOUS
<1>3. /\ c.n_inputs \in Nat /\ k \in Nat
      /\ k >= c.n_inputs => t \in {"ADD", "MUL", "CONSTMUL"} /\ in[1] \in Reads(c, k)
      /\ t \in {"ADD", "MUL"} => in[2] \in Reads(c, k)
  BY <1>1, <1>2, GatesAre
<1>4. k >= c.n_inputs
  BY <1>3
<1>5. in[Arity(t)] \in Reads(c, k)
  <2>1. CASE t = "CONSTMUL"
    BY <1>3, <1>4, <2>1 DEF Arity, InputTypes, BinaryTypes
  <2>2. CASE t \in {"ADD", "MUL"}
    BY <1>3, <2>2 DEF Arity, InputTypes, BinaryTypes
  <2> QED
    BY <1>3, <1>4, <2>1, <2>2
<1> QED
  BY <1>2, <1>3, <1>4, <1>5

\* From values it is a value.
LEMMA MeaningStepIsValue ==
  ASSUME NEW c \in Circuits, NEW ins \in InputVectors, Fits(c, ins), NEW k \in Gates(c),
         NEW m, \A a \in Reads(c, k) : m[a] \in Values
  PROVE  MeaningStep(c, ins, m, k) \in Values
<1>1. k \in Nat /\ c.n_inputs \in Nat
  BY CircuitShape
<1>2. CASE k < c.n_inputs
  <2>1. k \in DOMAIN ins
    BY <1>1, <1>2 DEF Fits
  <2>2. ins[k] \in Values
    BY <2>1, InputVectorsAssumption
  <2> QED
    BY <1>2, <2>2 DEF MeaningStep
<1>3. CASE ~ (k < c.n_inputs)
  <2>1. PICK w, a, b : /\ w = c.gates[k] /\ a = m[w.input_ids[1]]
                       /\ b = m[w.input_ids[Arity(w.type)]]
    OBVIOUS
  <2>2. a \in Values /\ b \in Values /\ w.type \in {"ADD", "MUL", "CONSTMUL"}
    BY <1>3, <2>1, ReadsOfGate
  <2>3. w.type = "CONSTMUL" => w.const_val \in Constants
    BY <2>1, CircuitsAssumption
  <2>4. Apply(w, a, b) \in Values
    BY <2>2, <2>3, AlgebraAssumption DEF Apply
  <2> QED
    BY <1>3, <2>1, <2>4 DEF MeaningStep
<1> QED
  BY <1>2, <1>3

(***************************************************************************)
(* Every circuit without cycles has a meaning, on inputs of the right      *)
(* number: what MeaningAssumption asks of the constant Meaning can be had. *)
(***************************************************************************)
THEOREM MeaningExists ==
  ASSUME NEW c \in Circuits, NEW ins \in InputVectors, Acyclic(c), Fits(c, ins)
  PROVE  \E m : IsMeaning(c, ins, m)
<1>1. PICK G : G = Gates(c)
  OBVIOUS
<1>2. PICK F : F = [k \in G |-> [m \in [G -> Values] |-> MeaningStep(c, ins, m, k)]]
  OBVIOUS
<1>3. \A k \in G : k \in Gates(c) /\ Reads(c, k) \subseteq G
  <2>1. WellFormed(c)
    BY CircuitsAssumption
  <2> QED
    BY <1>1, <2>1, GatesAre
<1>4. F \in Equations(G, Values)
  <2>1. ASSUME NEW k \in G, NEW m \in [G -> Values]
        PROVE  MeaningStep(c, ins, m, k) \in Values
    <3>1. \A a \in Reads(c, k) : m[a] \in Values
      BY <1>3
    <3> QED
      BY <1>3, <3>1, MeaningStepIsValue
  <2> QED
    BY <1>2, <2>1 DEF Equations
<1>5. ASSUME NEW k \in G, NEW u \in [G -> Values], NEW v \in [G -> Values],
             \A a \in Reads(c, k) : u[a] = v[a]
      PROVE  F[k][u] = F[k][v]
  <2>1. MeaningStep(c, ins, u, k) = MeaningStep(c, ins, v, k)
    <3>1. CASE k < c.n_inputs
      BY <3>1 DEF MeaningStep
    <3>2. CASE ~ (k < c.n_inputs)
      <4>1. /\ c.gates[k].input_ids[1] \in Reads(c, k)
            /\ c.gates[k].input_ids[Arity(c.gates[k].type)] \in Reads(c, k)
        BY <1>3, <3>2, ReadsOfGate
      <4> QED
        BY <1>5, <3>2, <4>1 DEF MeaningStep
    <3> QED
      BY <3>1, <3>2
  <2> QED
    BY <1>2, <1>5, <2>1
<1>6. ins[0] \in Values
  <2>1. 0 \in DOMAIN ins
    BY CircuitShape DEF Fits
  <2> QED
    BY <2>1, InputVectorsAssumption
<1>7. PICK m : Solves(m, G, Values, F)
  <2>1. WellFormed(c) /\ Acyclic(c)
    BY CircuitsAssumption
  <2>2. F \in Equations(Gates(c), Values)
    BY <1>1, <1>4
  <2>3. \A k \in Gates(c) : \A u, v \in [Gates(c) -> Values] :
           (\A a \in Reads(c, k) : u[a] = v[a]) => F[k][u] = F[k][v]
    BY <1>1, <1>5
  <2>4. \E v : Solves(v, Gates(c), Values, F)
    BY ONLY <1>6, <2>1, <2>2, <2>3, GatesSolved
  <2> QED
    BY <1>1, <2>4
<1>8. m \in [Gates(c) -> Values] /\ \A k \in Gates(c) : m[k] = MeaningStep(c, ins, m, k)
  BY <1>1, <1>2, <1>7 DEF Solves
<1> QED
  BY <1>8 DEF IsMeaning, MeaningStep
=============================================================================
