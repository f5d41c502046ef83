--------------------------- MODULE TopoSort_proofs --------------------------
(***************************************************************************)
(* Proofs about TopoSort: for any circuits, of any size, and whichever     *)
(* calls may fail, the caller gets a complete listing or none.             *)
(***************************************************************************)
EXTENDS TopoSort, FiniteSetTheorems, TLAPS

\* The lines of the edges file.
Edges(c) == {e \in Gates(c) \X Gates(c) : Line(c, e[1], e[2])}

\* What is printed, as t_sort indexes it.
Order == [n \in 0 .. (Len(printed) - 1) |-> printed[n + 1]]

-----------------------------------------------------------------------------
(***************************************************************************)
(* Circuits                                                                *)
(***************************************************************************)
\* The ids of a well-formed circuit are numbers, of which 0 is an input.
LEMMA Shape ==
  ASSUME NEW c, WellFormed(c)
  PROVE  /\ c.n_gates \in Nat /\ c.n_inputs \in Nat
         /\ 0 \in Gates(c) /\ c.gates[0].type \in InputTypes
         /\ Gates(c) \subseteq Nat
BY DEF WellFormed, Gates

\* A gate that is no input has an operand, and so a predecessor.
LEMMA HasPredecessor ==
  ASSUME NEW c, WellFormed(c), NEW g \in Gates(c), c.gates[g].type \notin InputTypes
  PROVE  \E k \in Gates(c) : Precedes(c, k, g)
<1>1. IsGate(c, c.gates[g]) /\ g \in Internal(c)
  BY DEF WellFormed, Gates, Internal
<1>2. Arity(c.gates[g].type) \in {1, 2}
  BY <1>1 DEF IsGate, Arity, GateTypes
<1>3. c.gates[g].input_ids[1] \in Gates(c)
  BY <1>1, <1>2 DEF IsGate
<1>4. <<g, 1>> \in Uses(c, c.gates[g].input_ids[1])
  BY <1>1, <1>2 DEF Uses
<1> QED
  BY <1>3, <1>4 DEF Precedes

\* Both ends of an edge are wired.
LEMMA EndsWired ==
  ASSUME NEW c, WellFormed(c), NEW k \in Gates(c), NEW g \in Gates(c), Precedes(c, k, g)
  PROVE  k \in Wired(c) /\ g \in Wired(c)
<1>1. PICK j \in {1, 2} : <<g, j>> \in Uses(c, k)
  BY DEF Precedes
<1>2. j <= Arity(c.gates[g].type)
  BY <1>1 DEF Uses
<1>3. c.gates[g].type \in GateTypes
  BY DEF WellFormed, IsGate
<1>4. Arity(c.gates[g].type) > 0
  BY <1>2, <1>3 DEF Arity
<1> QED
  BY <1>1, <1>4 DEF Wired

\* tsort knows exactly the wired gates.
LEMMA EdgesEnds ==
  ASSUME NEW c, WellFormed(c)
  PROVE  (UNION {Ends(e) : e \in Edges(c)}) = Wired(c)
<1>1. ASSUME NEW e \in Edges(c), NEW g \in Ends(e) PROVE g \in Wired(c)
  BY <1>1, EndsWired DEF Edges, Ends, Line
<1>2. ASSUME NEW g \in Wired(c) PROVE \E e \in Edges(c) : g \in Ends(e)
  <2>1. g \in Gates(c)
    BY <1>2 DEF Wired
  <2>2. CASE Uses(c, g) # {}
    <3>1. PICK u \in Uses(c, g) : TRUE
      BY <2>2
    <3>2. u \in Internal(c) \X {1, 2}
      BY <3>1 DEF Uses
    <3>3. u[1] \in Gates(c) /\ u = <<u[1], u[2]>> /\ u[2] \in {1, 2}
      BY <3>2, Shape DEF Internal, Gates, WellFormed
    <3>4. Precedes(c, g, u[1])
      BY <3>1, <3>3 DEF Precedes
    <3>5. <<g, u[1]>> \in Edges(c)
      BY <2>1, <3>3, <3>4 DEF Edges, Line
    <3> QED
      BY <3>5 DEF Ends
  <2>3. CASE Arity(c.gates[g].type) > 0
    <3>1. c.gates[g].type \notin InputTypes
      BY <2>3 DEF Arity
    <3>2. PICK k \in Gates(c) : Precedes(c, k, g)
      BY <2>1, <3>1, HasPredecessor
    <3>3. <<k, g>> \in Edges(c)
      BY <2>1, <3>2 DEF Edges, Line
    <3> QED
      BY <3>3 DEF Ends
  <2> QED
    BY <1>2, <2>2, <2>3 DEF Wired
<1> QED
  BY <1>1, <1>2

-----------------------------------------------------------------------------
(***************************************************************************)
(* Listings.  Before(p, b) is what a listing p has before position b.      *)
(***************************************************************************)
Before(p, b) == {p[a] : a \in 0 .. (b - 1)}

Ready(c, S, g) == \A k \in Gates(c) : Precedes(c, k, g) => k \in S \/ k = g

\* Greedy in these words.
LEMMA GreedyAt ==
  ASSUME NEW c, NEW p
  PROVE  Greedy(c, p) <=>
           \A b \in DOMAIN p :
             \/ Ready(c, Before(p, b), p[b])
             \/ \A g \in Wired(c) \ Before(p, b) : ~ Ready(c, Before(p, b), g)
<1>1. \A b, g : Ready(c, Before(p, b), g) <=>
        {k \in Gates(c) : Precedes(c, k, g)} \subseteq Before(p, b) \cup {g}
  BY DEF Ready
<1>2. \A b : Before(p, b) = {p[a] : a \in 0 .. (b - 1)}
  BY DEF Before
<1> QED
  BY <1>1, <1>2 DEF Greedy

\* Without a cycle there is always a gate that is ready, so all that are
\* printed are: no gate comes before one it depends on, or depends on itself.
LEMMA GreedyReady ==
  ASSUME NEW c, WellFormed(c), Acyclic(c), NEW m \in Nat,
         NEW p \in [0 .. (m - 1) -> Wired(c)], EachOnce({}, p), Greedy(c, p),
         NEW b \in 0 .. (m - 1), NEW k \in Gates(c), Precedes(c, k, p[b])
  PROVE  k \in Before(p, b)
<1> DEFINE S == Wired(c) \ Before(p, b)
<1>0. Wired(c) \subseteq Gates(c) /\ b \in DOMAIN p
  BY DEF Wired
<1>1. p[b] \in S
  BY DEF EachOnce, Before
<1>2. PICK g \in S : \A h \in S : ~ Precedes(c, h, g)
  <2>1. S \in (SUBSET Gates(c)) \ {{}}
    BY <1>0, <1>1
  <2> QED
    BY <2>1 DEF Acyclic
<1>3. Ready(c, Before(p, b), g)
  BY <1>0, <1>2, EndsWired DEF Ready
<1>4. Ready(c, Before(p, b), p[b])
  BY <1>0, <1>2, <1>3, GreedyAt
<1>5. ~ Precedes(c, p[b], p[b])
  <2>1. {p[b]} \in (SUBSET Gates(c)) \ {{}}
    BY <1>0, <1>1
  <2> QED
    BY <2>1 DEF Acyclic
<1> QED
  BY <1>4, <1>5 DEF Ready

\* A listing has no more entries than there are gates.
LEMMA ListingLength ==
  ASSUME NEW c, WellFormed(c), NEW m \in Nat,
         NEW p \in [0 .. (m - 1) -> Wired(c)], EachOnce({}, p)
  PROVE  m <= c.n_gates
<1>1. p \in Injection(0 .. (m - 1), Gates(c))
  BY DEF EachOnce, Injection, IsInjective, Wired
<1>2. IsFiniteSet(Gates(c)) /\ Cardinality(Gates(c)) = c.n_gates
  BY Shape, FS_Interval DEF Gates
<1>3. Cardinality(0 .. (m - 1)) = m
  BY FS_Interval
<1> QED
  BY <1>1, <1>2, <1>3, FS_Injection

\* A complete greedy listing is one of those the evaluators are prepared for.
LEMMA CompleteListing ==
  ASSUME NEW c, WellFormed(c), NEW m \in Nat,
         NEW p \in [0 .. (m - 1) -> Wired(c)], EachOnce(Wired(c), p), Greedy(c, p)
  PROVE  /\ Padded(c, p) \in TSorts(c)
         /\ Acyclic(c) => c.gates[Padded(c, p)[0]].type \in InputTypes
<1>0. EachOnce({}, p) /\ Wired(c) \subseteq Gates(c) /\ c.n_gates \in Nat
  BY Shape DEF EachOnce, Wired
<1>1. m \in 0 .. c.n_gates
  BY <1>0, ListingLength
<1>2. p \in Listings(c)
  BY <1>1 DEF Listings
<1>3. Acyclic(c) => Respects(c, p)
  <2> SUFFICES ASSUME Acyclic(c), NEW a \in DOMAIN p, NEW b \in DOMAIN p,
                      Precedes(c, p[a], p[b])
               PROVE  a < b
    BY DEF Respects
  <2>1. p[a] \in Gates(c) /\ b \in 0 .. (m - 1) /\ a \in 0 .. (m - 1)
    BY <1>0
  <2>2. p[a] \in Before(p, b)
    BY <2>1, <1>0, GreedyReady
  <2>3. PICK a2 \in 0 .. (b - 1) : p[a2] = p[a]
    BY <2>2 DEF Before
  <2>4. a2 = a
    BY <2>1, <2>3 DEF EachOnce
  <2> QED
    BY <2>1, <2>3, <2>4
<1>4. Padded(c, p) \in TSorts(c)
  BY <1>2, <1>3 DEF TSorts
<1>5. Acyclic(c) => c.gates[Padded(c, p)[0]].type \in InputTypes
  <2>1. CASE m = 0
    <3>1. Padded(c, p)[0] = 0
      BY <2>1, <1>0 DEF Padded
    <3> QED
      BY <3>1, Shape
  <2>2. CASE m > 0
    <3>1. Padded(c, p)[0] = p[0] /\ p[0] \in Gates(c)
      BY <2>2, <1>0 DEF Padded
    <3> SUFFICES ASSUME Acyclic(c), c.gates[p[0]].type \notin InputTypes
                 PROVE  FALSE
      BY <3>1
    <3>2. PICK k \in Gates(c) : Precedes(c, k, p[0])
      BY <3>1, HasPredecessor
    <3>3. k \in Before(p, 0)
      BY <2>2, <3>2, <1>0, GreedyReady
    <3> QED
      BY <3>3 DEF Before
  <2> QED
    BY <2>1, <2>2
<1> QED
  BY <1>4, <1>5

-----------------------------------------------------------------------------
(***************************************************************************)
(* The inductive invariant.                                                *)
(*                                                                         *)
(* Control: who may be where, so that the listing is not read before tsort *)
(* has ended, or tsort has never run.  Printed: what is on the disk so far *)
(* is the beginning of a greedy listing.  Kept: what a process has read.   *)
(***************************************************************************)
Over == {"none", "exited", "aborted"}

Complete == failed = {} /\ Unprinted = {}
Failed == failed \in {{"fork"}, {"exec"}} /\ printed = <<>>

Control ==
  /\ pc.parent \in {"call", "write", "fork", "wait", "read", "remove", "done", "aborted"}
  /\ pc.child \in {"none", "exec", "tsort", "wait", "read", "remove", "done", "exited",
                   "aborted"}
  /\ pc.parent \in {"call", "write", "fork"} => pc.child = "none" /\ failed = {}
  /\ pc.child \notin Over => pc.parent = "wait"
  /\ pc.parent \in {"call", "write", "fork"} \/ pc.child = "exec" => printed = <<>>
  /\ pc.parent \in {"wait", "read", "remove"} /\ pc.child \in Over => Complete \/ Failed
  /\ pc.child \in {"wait", "read", "remove", "done"} => Failed
  /\ pc.child \in {"exec", "tsort"} => failed = {}
  /\ pc.parent \in {"write", "fork", "wait", "read", "remove"} => circ \in Circuits
  /\ pc.parent \in {"fork", "wait", "read", "remove"} => pairs = Edges(circ)

Temps ==
  /\ pc.parent = "call" => temps = {}
  /\ pc.parent \in {"write", "fork", "wait", "read", "remove"} =>
       temps \in {{}, {"edges", "sorted"}}
  /\ pc.parent \in {"done", "aborted"} => err.parent = "E_ERRNO_ERROR" \/ temps = {}

Printed ==
  circ \in Circuits =>
    /\ printed \in Seq(Wired(circ))
    /\ EachOnce({}, Order)
    /\ Greedy(circ, Order)

Kept ==
  \A p \in Procs :
    t_sort[p] # <<>> =>
      /\ pc[p] \in {"remove", "done", "exited"} /\ circ \in Circuits
      /\ pc.child # "tsort"
      /\ pairs = Edges(circ) /\ t_sort[p] = Padded(circ, Order) /\ (Complete \/ Failed)

IInv == TypeOK /\ Control /\ Temps /\ Printed /\ Kept

\* Nothing has been done before the call.
LEMMA InvInit == Init => IInv
<1> SUFFICES ASSUME Init PROVE IInv
  OBVIOUS
<1> USE DEF Init, Procs
<1>1. pc.parent = "call" /\ pc.child = "none"
  OBVIOUS
<1>2. TypeOK
  BY DEF TypeOK
<1>3. Control /\ Temps
  BY <1>1 DEF Control, Temps, Over
<1>4. Order = <<>> /\ DOMAIN Order = {}
  BY DEF Order
<1>5. Printed
  BY <1>4 DEF Printed, EachOnce, Greedy
<1>6. Kept
  BY DEF Kept
<1> QED
  BY <1>2, <1>3, <1>5, <1>6 DEF IInv

\* Every step keeps to the order of the two processes.
LEMMA ControlStep ==
  ASSUME IInv, [Next]_vars
  PROVE  Control'
<1> USE DEF IInv, Control, Complete, Failed, TypeOK, Procs, Return, Over
<1>1. CASE RejectArgument BY <1>1 DEF RejectArgument
<1>2. CASE MakeTemps BY <1>2 DEF MakeTemps
<1>3. CASE MakeTempsFails BY <1>3 DEF MakeTempsFails
<1>4. CASE OpenEdgesFails BY <1>4 DEF OpenEdgesFails
<1>5. CASE WriteEdges BY <1>5 DEF WriteEdges, Edges
<1>6. CASE Fork BY <1>6 DEF Fork
<1>7. CASE ForkFails BY <1>7 DEF ForkFails
<1>8. CASE Exec BY <1>8 DEF Exec
<1>9. CASE ExecFails BY <1>9 DEF ExecFails
<1>10. CASE TsortPrints BY <1>10 DEF TsortPrints
<1>11. CASE TsortExits BY <1>11 DEF TsortExits, Unprinted
<1>12. CASE ChildExits BY <1>12 DEF ChildExits
<1>13. ASSUME NEW p \in Procs, Wait(p) PROVE Control'
  BY <1>13 DEF Wait, Reaped, Unprinted
<1>14. ASSUME NEW p \in Procs, ResultGone(p) PROVE Control'
  BY <1>14 DEF ResultGone
<1>15. ASSUME NEW p \in Procs, ReadResult(p) PROVE Control'
  BY <1>15 DEF ReadResult, Unprinted
<1>16. ASSUME NEW p \in Procs, RemoveTemps(p) PROVE Control'
  BY <1>16 DEF RemoveTemps
<1>17. CASE ParentFinished \/ UNCHANGED vars BY <1>17 DEF ParentFinished, vars, Unprinted
<1> HIDE DEF IInv, Control, Complete, Failed, TypeOK, Procs, Return, Over
<1> QED
  BY <1>1, <1>2, <1>3, <1>4, <1>5, <1>6, <1>7, <1>8, <1>9, <1>10, <1>11, <1>12,
     <1>13, <1>14, <1>15, <1>16, <1>17 DEF Next, Step

\* The files are made together and removed together.
LEMMA TempsStep ==
  ASSUME IInv, [Next]_vars
  PROVE  Temps'
<1> USE DEF IInv, Control, Temps, TypeOK, Procs, Return, Over
<1>1. CASE RejectArgument BY <1>1 DEF RejectArgument
<1>2. CASE MakeTemps BY <1>2 DEF MakeTemps
<1>3. CASE MakeTempsFails BY <1>3 DEF MakeTempsFails
<1>4. CASE OpenEdgesFails BY <1>4 DEF OpenEdgesFails
<1>5. CASE WriteEdges BY <1>5 DEF WriteEdges
<1>6. CASE Fork BY <1>6 DEF Fork
<1>7. CASE ForkFails BY <1>7 DEF ForkFails
<1>8. CASE Exec BY <1>8 DEF Exec
<1>9. CASE ExecFails BY <1>9 DEF ExecFails
<1>10. CASE TsortPrints BY <1>10 DEF TsortPrints
<1>11. CASE TsortExits BY <1>11 DEF TsortExits
<1>12. CASE ChildExits BY <1>12 DEF ChildExits
<1>13. ASSUME NEW p \in Procs, Wait(p) PROVE Temps'
  BY <1>13 DEF Wait, Reaped
<1>14. ASSUME NEW p \in Procs, ResultGone(p) PROVE Temps'
  BY <1>14 DEF ResultGone
<1>15. ASSUME NEW p \in Procs, ReadResult(p) PROVE Temps'
  BY <1>15 DEF ReadResult
<1>16. ASSUME NEW p \in Procs, RemoveTemps(p) PROVE Temps'
  BY <1>16 DEF RemoveTemps
<1>17. CASE ParentFinished \/ UNCHANGED vars BY <1>17 DEF ParentFinished, vars
<1> HIDE DEF IInv, Control, Temps, TypeOK, Procs, Return, Over
<1> QED
  BY <1>1, <1>2, <1>3, <1>4, <1>5, <1>6, <1>7, <1>8, <1>9, <1>10, <1>11, <1>12,
     <1>13, <1>14, <1>15, <1>16, <1>17 DEF Next, Step

\* What tsort prints next continues a greedy listing.
LEMMA PrintsStep ==
  ASSUME IInv, TsortPrints
  PROVE  Printed'
<1>0. /\ circ \in Circuits /\ WellFormed(circ) /\ pairs = Edges(circ) /\ circ' = circ
      /\ Wired(circ) \subseteq Gates(circ)
  BY CircuitsAssumption DEF IInv, Control, Over, TsortPrints, Wired
<1>1. /\ printed \in Seq(Wired(circ)) /\ EachOnce({}, Order) /\ Greedy(circ, Order)
  BY <1>0 DEF IInv, Printed
<1>2. PICK g \in IF Unblocked # {} THEN Unblocked ELSE Unprinted :
        printed' = Append(printed, g)
  BY DEF TsortPrints
<1> DEFINE m == Len(printed)
<1>3. m \in Nat
  BY <1>1
<1>4. Unprinted = Wired(circ) \ {printed[n] : n \in DOMAIN printed}
  BY <1>0, EdgesEnds DEF Unprinted
<1>5. g \in Unprinted
  BY <1>2 DEF Unblocked
<1>6. printed' \in Seq(Wired(circ))
  BY <1>1, <1>2, <1>4, <1>5
<1>7. /\ DOMAIN Order = 0 .. (m - 1) /\ DOMAIN Order' = 0 .. m
      /\ \A n \in 0 .. (m - 1) : Order[n] = printed[n + 1] /\ Order'[n] = Order[n]
      /\ Order'[m] = g
  <2>1. Len(printed') = m + 1
    BY <1>1, <1>2, <1>4, <1>5
  <2>2. \A n \in 0 .. (m - 1) : printed'[n + 1] = printed[n + 1]
    BY <1>1, <1>2, <1>4, <1>5
  <2>3. printed'[m + 1] = g
    BY <1>1, <1>2, <1>4, <1>5
  <2> QED
    BY <1>3, <2>1, <2>2, <2>3 DEF Order
<1>8. \A b \in 0 .. m : Before(Order', b) = Before(Order, b)
  BY <1>3, <1>7 DEF Before
<1>9. Before(Order, m) = {printed[n] : n \in DOMAIN printed}
  <2>1. DOMAIN printed = 1 .. m
    BY <1>1
  <2>2. \A n \in DOMAIN printed : n - 1 \in 0 .. (m - 1) /\ Order[n - 1] = printed[n]
    BY <1>3, <1>7, <2>1
  <2>3. \A n \in 0 .. (m - 1) : n + 1 \in DOMAIN printed /\ Order[n] = printed[n + 1]
    BY <1>3, <1>7, <2>1
  <2> QED
    BY <2>2, <2>3 DEF Before
<1> HIDE DEF m
<1>10. EachOnce({}, Order')
  <2>1. \A n \in 0 .. (m - 1) : Order[n] # g
    BY <1>4, <1>5, <1>9 DEF Before
  <2> QED
    BY <1>1, <1>3, <1>7, <2>1 DEF EachOnce
<1>11. Greedy(circ, Order')
  <2> SUFFICES ASSUME NEW b \in 0 .. m
               PROVE  \/ Ready(circ, Before(Order, b), Order'[b])
                      \/ \A h \in Wired(circ) \ Before(Order, b) :
                           ~ Ready(circ, Before(Order, b), h)
    <3>1. DOMAIN (Order') = 0 .. m
      BY <1>7
    <3> QED
      BY <1>8, <3>1, GreedyAt
  <2>1. CASE b < m
    BY <1>1, <1>3, <1>7, <2>1, GreedyAt
  <2>2. CASE b = m /\ g \in Unblocked
    <3>1. ASSUME NEW k \in Gates(circ), Precedes(circ, k, g), k # g
          PROVE  k \in Before(Order, m)
      <4>1. g \in Gates(circ)
        BY <1>0, <1>4, <1>5
      <4>2. <<k, g>> \in pairs /\ k \in Wired(circ)
        BY <1>0, <3>1, <4>1, EndsWired DEF Edges, Line
      <4> QED
        BY <1>4, <1>9, <2>2, <3>1, <4>2 DEF Unblocked
    <3> QED
      BY <1>7, <2>2, <3>1 DEF Ready
  <2>3. CASE b = m /\ Unblocked = {}
    <3>1. ASSUME NEW h \in Wired(circ) \ Before(Order, m)
          PROVE  ~ Ready(circ, Before(Order, m), h)
      <4>1. h \in Unprinted
        BY <1>4, <1>9
      <4>2. PICK k \in Unprinted \ {h} : <<k, h>> \in pairs
        BY <2>3, <4>1 DEF Unblocked
      <4>3. k \in Gates(circ) /\ Precedes(circ, k, h)
        BY <1>0, <4>2 DEF Edges, Line
      <4> QED
        BY <1>4, <1>9, <4>2, <4>3 DEF Ready
    <3> QED
      BY <2>3, <3>1
  <2> QED
    BY <1>2, <1>3, <2>1, <2>2, <2>3
<1> QED
  BY <1>0, <1>6, <1>10, <1>11 DEF Printed

\* No other step prints.
LEMMA PrintedStep ==
  ASSUME IInv, [Next]_vars
  PROVE  Printed'
<1>1. CASE UNCHANGED <<circ, printed>>
  BY <1>1 DEF IInv, Printed, Order
<1>2. TsortPrints \/ UNCHANGED <<circ, printed>>
  BY DEF Next, Step, vars, RejectArgument, MakeTemps, MakeTempsFails, OpenEdgesFails,
         WriteEdges, Fork, ForkFails, Exec, ExecFails, TsortExits, ChildExits, Wait,
         ResultGone, ReadResult, RemoveTemps, ParentFinished
<1> QED
  BY <1>1, <1>2, PrintsStep

\* What has been read stays what is on the disk: nobody writes any more.
LEMMA KeptStep ==
  ASSUME IInv, [Next]_vars
  PROVE  Kept'
<1>0. Order' = [n \in 0 .. (Len(printed') - 1) |-> printed'[n + 1]]
  BY DEF Order
<1> USE DEF IInv, Control, Kept, Complete, Failed, TypeOK, Procs, Return, Over, Unprinted,
            Order
<1>1. CASE RejectArgument BY <1>1 DEF RejectArgument
<1>2. CASE MakeTemps BY <1>2 DEF MakeTemps
<1>3. CASE MakeTempsFails BY <1>3 DEF MakeTempsFails
<1>4. CASE OpenEdgesFails BY <1>4 DEF OpenEdgesFails
<1>5. CASE WriteEdges BY <1>5 DEF WriteEdges
<1>6. CASE Fork BY <1>6 DEF Fork
<1>7. CASE ForkFails BY <1>7 DEF ForkFails
<1>8. CASE Exec BY <1>8 DEF Exec
<1>9. CASE ExecFails BY <1>9 DEF ExecFails
<1>10. CASE TsortPrints BY <1>10 DEF TsortPrints
<1>11. CASE TsortExits BY <1>11 DEF TsortExits
<1>12. CASE ChildExits BY <1>12 DEF ChildExits
<1>13. ASSUME NEW p \in Procs, Wait(p) PROVE Kept'
  BY <1>13 DEF Wait
<1>14. ASSUME NEW p \in Procs, ResultGone(p) PROVE Kept'
  BY <1>14 DEF ResultGone
<1>15. ASSUME NEW p \in Procs, ReadResult(p) PROVE Kept'
  BY <1>15 DEF ReadResult
<1>16. ASSUME NEW p \in Procs, RemoveTemps(p) PROVE Kept'
  BY <1>16 DEF RemoveTemps
<1>17. CASE UNCHANGED vars
  <2>1. UNCHANGED <<circ, pc, temps, pairs, printed, t_sort, err, failed>>
    BY <1>17 DEF vars
  <2>2. Order' = Order /\ Complete' = Complete /\ Failed' = Failed
    BY <2>1
  <2> QED
    BY <2>1, <2>2
<1> HIDE DEF IInv, Control, Kept, Complete, Failed, TypeOK, Procs, Return, Over, Unprinted,
             Order
<1> QED
  BY <1>1, <1>2, <1>3, <1>4, <1>5, <1>6, <1>7, <1>8, <1>9, <1>10, <1>11, <1>12,
     <1>13, <1>14, <1>15, <1>16, <1>17 DEF Next, Step, ParentFinished

\* The types of a step, from what is printed and what is kept after it.
LEMMA TypeStep ==
  ASSUME IInv, [Next]_vars, Printed', Kept'
  PROVE  TypeOK'
<1>0. /\ circ' = circ
      /\ circ \in Circuits => WellFormed(circ) /\ Wired(circ) \subseteq Gates(circ)
  BY CircuitsAssumption
     DEF Next, Step, vars, RejectArgument, MakeTemps, MakeTempsFails, OpenEdgesFails,
         WriteEdges, Fork, ForkFails, Exec, ExecFails, TsortPrints, TsortExits, ChildExits,
         Wait, ResultGone, ReadResult, RemoveTemps, ParentFinished, Wired
<1>1. /\ circ' \in Circuits \cup {NoArith, NoGraph}
      /\ temps' \subseteq {"edges", "sorted"}
      /\ failed' \subseteq Faults
  BY <1>0 DEF IInv, TypeOK, Next, Step, vars, RejectArgument, MakeTemps, MakeTempsFails,
         OpenEdgesFails, WriteEdges, Fork, ForkFails, Exec, ExecFails, TsortPrints,
         TsortExits, ChildExits, Wait, ResultGone, ReadResult, RemoveTemps, ParentFinished
<1>2. /\ pc' \in [Procs -> {"none", "call", "write", "fork", "exec", "tsort", "wait",
                            "read", "remove", "done", "exited", "aborted"}]
      /\ err' \in [Procs -> {"E_NOERR", "E_NO_ARITH", "E_INVAL_ARITH", "E_ERRNO_ERROR"}]
  BY DEF IInv, TypeOK, Next, Step, vars, RejectArgument, MakeTemps, MakeTempsFails,
         OpenEdgesFails, WriteEdges, Fork, ForkFails, Exec, ExecFails, TsortPrints,
         TsortExits, ChildExits, Wait, ResultGone, ReadResult, RemoveTemps, ParentFinished,
         Return, Procs
<1>3. ASSUME circ \in Circuits
      PROVE  pairs' \subseteq Gates(circ) \X Gates(circ)
  BY <1>3 DEF IInv, TypeOK, Next, Step, vars, RejectArgument, MakeTemps, MakeTempsFails,
         OpenEdgesFails, WriteEdges, Fork, ForkFails, Exec, ExecFails, TsortPrints,
         TsortExits, ChildExits, Wait, ResultGone, ReadResult, RemoveTemps, ParentFinished
<1>4. ASSUME circ \in Circuits
      PROVE  printed' \in Seq(Gates(circ))
  BY <1>0, <1>4 DEF Printed
<1>5. ASSUME circ \in Circuits
      PROVE  t_sort' \in [Procs -> {<<>>} \cup [0 .. circ.n_gates -> Gates(circ)]]
  <2>1. CASE UNCHANGED t_sort
    BY <1>5, <2>1 DEF IInv, TypeOK
  <2>2. ASSUME NEW p \in Procs, ReadResult(p)
        PROVE  Padded(circ, Order) \in [0 .. circ.n_gates -> Gates(circ)]
    <3>1. 0 \in Gates(circ)
      BY <1>0, <1>5, Shape
    <3>2. \A i \in DOMAIN Order : Order[i] \in Gates(circ)
      BY <1>0, <1>5 DEF Order, IInv, Printed
    <3> QED
      BY <3>1, <3>2 DEF Padded
  <2>3. ASSUME NEW p \in Procs, ReadResult(p)
        PROVE  t_sort' = [t_sort EXCEPT ![p] = Padded(circ, Order)]
    BY <2>3 DEF ReadResult, Order
  <2>4. \/ UNCHANGED t_sort
        \/ \E p \in Procs : ReadResult(p)
    BY DEF Next, Step, vars, RejectArgument, MakeTemps, MakeTempsFails, OpenEdgesFails,
         WriteEdges, Fork, ForkFails, Exec, ExecFails, TsortPrints, TsortExits, ChildExits,
         Wait, ResultGone, RemoveTemps, ParentFinished
  <2> QED
    BY <1>5, <2>1, <2>2, <2>3, <2>4 DEF IInv, TypeOK
<1> QED
  BY <1>0, <1>1, <1>2, <1>3, <1>4, <1>5 DEF TypeOK

\* Every step preserves the invariant.
LEMMA InvNext == IInv /\ [Next]_vars => IInv'
<1> SUFFICES ASSUME IInv, [Next]_vars PROVE IInv'
  OBVIOUS
<1>1. Control' /\ Temps' /\ Printed' /\ Kept'
  BY ControlStep, TempsStep, PrintedStep, KeptStep
<1>2. TypeOK'
  BY <1>1, TypeStep
<1> QED
  BY <1>1, <1>2 DEF IInv

-----------------------------------------------------------------------------
(***************************************************************************)
(* The theorems                                                            *)
(***************************************************************************)
\* The invariant holds in every reachable state, for any circuits and faults.
THEOREM Inductive == Spec => []IInv
BY InvInit, InvNext, PTL DEF Spec

\* arith_circ_topology_sort keeps to the types of its variables.
THEOREM TypeCorrect == Spec => []TypeOK
<1>1. IInv => TypeOK
  BY DEF IInv
<1> QED
  BY Inductive, <1>1, PTL

\* What tsort leaves for a circuit without a listing: every gate 0.
LEMMA EmptyListing ==
  ASSUME NEW c, WellFormed(c), printed = <<>>
  PROVE  /\ Padded(c, Order) = [n \in 0 .. c.n_gates |-> 0]
         /\ c.gates[Padded(c, Order)[0]].type \in InputTypes
<1>1. DOMAIN Order = {}
  BY DEF Order
<1>2. Padded(c, Order) = [n \in 0 .. c.n_gates |-> 0]
  BY <1>1 DEF Padded
<1> QED
  BY <1>2, Shape

\* A t_sort is complete or all zeros, and starts with an input: the caller
\* reads the result file only when tsort has written all of it or none.
THEOREM SortIsComplete == Spec => []SortComplete
<1>1. ASSUME IInv PROVE SortComplete
  <2> SUFFICES ASSUME NEW p \in Procs, Sorted(p)
               PROVE  /\ \/ t_sort[p] \in TSorts(circ)
                         \/ /\ failed \in {{"fork"}, {"exec"}}
                            /\ t_sort[p] = [n \in 0 .. circ.n_gates |-> 0]
                      /\ Acyclic(circ) => circ.gates[t_sort[p][0]].type \in InputTypes
    BY DEF SortComplete
  <2>1. /\ circ \in Circuits /\ WellFormed(circ) /\ pairs = Edges(circ)
        /\ t_sort[p] = Padded(circ, Order) /\ (Complete \/ Failed)
    BY <1>1, CircuitsAssumption DEF Sorted, IInv, Kept
  <2>2. CASE Failed
    BY <2>1, <2>2, EmptyListing DEF Failed
  <2>3. CASE Complete
    <3>1. /\ printed \in Seq(Wired(circ)) /\ EachOnce({}, Order) /\ Greedy(circ, Order)
      BY <1>1, <2>1 DEF IInv, Printed
    <3>2. Wired(circ) \subseteq {printed[n] : n \in DOMAIN printed}
      BY <2>1, <2>3, EdgesEnds DEF Complete, Unprinted
    <3>3. PICK m \in Nat : m = Len(printed)
      BY <3>1
    <3>4. Order \in [0 .. (m - 1) -> Wired(circ)]
      BY <3>1, <3>3 DEF Order
    <3>5. \A n \in DOMAIN printed : n - 1 \in DOMAIN Order /\ Order[n - 1] = printed[n]
      BY <3>1, <3>3 DEF Order
    <3>6. EachOnce(Wired(circ), Order)
      BY <3>1, <3>2, <3>5 DEF EachOnce
    <3> QED
      BY <2>1, <3>1, <3>4, <3>6, CompleteListing
  <2> QED
    BY <2>1, <2>2, <2>3
<1> QED
  BY Inductive, <1>1, PTL

\* The temporary files are gone when the call is over, unless it failed to
\* make or to open them.
THEOREM TempsAreRemoved == Spec => []TempsRemoved
<1>1. IInv => TempsRemoved
  BY DEF IInv, Temps, TempsRemoved
<1> QED
  BY Inductive, <1>1, PTL
=============================================================================
