---------------------------- MODULE CircuitEval ----------------------------
(***************************************************************************)
(* The two circuit evaluators, arith_circ_eval (aritheval.c) and           *)
(* _cf_eval_tags (tageval.c).  They share the traversal: intermediate      *)
(* results live in the slots evals[], a 16-bit counter per slot holds how  *)
(* many operand positions still have to read it, and the read that brings  *)
(* the counter to zero frees the slot.  They differ in how the slots start *)
(* and in what copying a missing result does (variant).                    *)
(*                                                                         *)
(* Slots and counters are indexed by gate id (the code subtracts n_inputs  *)
(* on every access).                                                       *)
(***************************************************************************)
EXTENDS CircuitSemantics

CONSTANTS
  CounterMod,  \* 2^16: out_deps_not_evaled is an array of uint16_t
  GARBAGE      \* content of an uninitialised slot

ASSUME CounterAssumption == CounterMod \in Nat \ {0, 1, 2}
ASSUME GarbageAssumption == GARBAGE \notin Values \cup {NULL}

VARIABLES
  \* The call: these never change.
  variant,  \* which evaluator: "msg" (aritheval.c) or "tag" (tageval.c)
  circ,     \* a
  input,    \* inputs / tags
  t_sort,   \* a->t_sort, as topology_sort left it
  \* The evaluation.
  pc,
  i,        \* traversal index
  gate_id,  \* gate of this iteration
  evals,    \* slots of the internal gates
  out_deps_not_evaled,
  zeroed,   \* counters the overrun of evals[] set to zero (tag variant)
  result,
  err
call == <<variant, circ, input, t_sort>>
vars == <<call, pc, i, gate_id, evals, out_deps_not_evaled, zeroed, result, err>>

Final == {"done", "aborted", "crashed", "corrupted"}
PCs == {"call", "eval", "free1", "free2", "copy", "cleanup"} \cup Final

gate == circ.gates[gate_id]

Init ==
  /\ circ \in Circuits
  /\ t_sort \in TSorts(circ)
  /\ variant \in {"msg", "tag"}
  /\ input \in InputVectors
  /\ pc = "call"
  /\ i = 0
  /\ gate_id = 0
  /\ evals = [k \in Internal(circ) |-> GARBAGE]
  /\ out_deps_not_evaled = [k \in Internal(circ) |-> 0]
  /\ zeroed = {}
  /\ result = NULL
  /\ err = "E_NOERR"

-----------------------------------------------------------------------------
(***************************************************************************)
(* Entry: the argument check and the initialisation loop.                  *)
(***************************************************************************)
RejectInputs ==
  /\ pc = "call"
  /\ ~ Fits(circ, input)
  /\ pc' = "done"
  /\ err' = "E_INVAL_N_INPUTS"
  /\ UNCHANGED <<call, i, gate_id, evals, out_deps_not_evaled, zeroed, result>>

\* Mutant of TooWide: no assertion.
NeverTooWide(c) == FALSE

\* assert(n_deps < UINT16_MAX) in graph_al_get_gate_n_out_deps.
TooWide(c) == \E k \in Internal(c) : n_out_deps(c, k) >= CounterMod - 1

AssertDeps ==
  /\ pc = "call"
  /\ Fits(circ, input)
  /\ TooWide(circ)
  /\ pc' = "aborted"
  /\ UNCHANGED <<call, i, gate_id, evals, out_deps_not_evaled, zeroed, result,
                 err>>

\* Mutant of InitialSlot: a zero value instead of NULL.
ZeroSlot(c, k) == 0

(***************************************************************************)
(* aritheval.c writes NULL to evals[i]; tageval.c writes it to             *)
(* evals[i + n_inputs], so the slots with index below n_inputs (gates      *)
(* below 2 * n_inputs) keep what the stack held.                           *)
(***************************************************************************)
InitialSlot(c, k) ==
  IF variant = "tag" /\ k - c.n_inputs < c.n_inputs THEN GARBAGE ELSE NULL

\* The n_inputs NULLs past the end of evals[] land on the counter array, the
\* VLA above it: any of the counters may end up zero.
OverrunZeroes(c) ==
  IF variant = "tag" THEN SUBSET Internal(c) ELSE {{}}

Initialise ==
  /\ pc = "call"
  /\ Fits(circ, input)
  /\ ~ TooWide(circ)
  /\ zeroed' \in OverrunZeroes(circ)
  /\ evals' = [k \in Internal(circ) |-> InitialSlot(circ, k)]
  /\ out_deps_not_evaled' =
       [k \in Internal(circ) |->
          IF k \in zeroed' THEN 0 ELSE n_out_deps(circ, k) % CounterMod]
  /\ pc' = "eval"
  /\ UNCHANGED <<call, i, gate_id, result, err>>

\* With enough inputs the overrun passes the counters and reaches the frame.
OverrunFrame ==
  /\ pc = "call"
  /\ Fits(circ, input)
  /\ ~ TooWide(circ)
  /\ variant = "tag"
  /\ pc' = "corrupted"
  /\ UNCHANGED <<call, i, gate_id, evals, out_deps_not_evaled, zeroed, result,
                 err>>

-----------------------------------------------------------------------------
(***************************************************************************)
(* The traversal.  Iteration 0 is on gate 0, iteration i > 0 on t_sort[i]: *)
(* t_sort[0] is never visited (it is an input, since sources come first).  *)
(***************************************************************************)
\* Mutant of Operand: both operands are the first.
FirstOperand(j) ==
  LET id == gate.input_ids[1]
  IN  IF id < circ.n_inputs THEN input[id] ELSE evals[id]

\* _get_input1_gate, _get_input2_gate
Operand(j) ==
  LET id == gate.input_ids[j]
  IN  IF id < circ.n_inputs THEN input[id] ELSE evals[id]

Operands == {Operand(j) : j \in 1 .. Arity(gate.type)}

SkipInput ==
  /\ pc = "eval"
  /\ i < circ.n_gates
  /\ gate.type \in InputTypes
  /\ pc' = "free1"
  /\ UNCHANGED <<call, i, gate_id, evals, out_deps_not_evaled, zeroed, result,
                 err>>

Compute ==
  /\ pc = "eval"
  /\ i < circ.n_gates
  /\ gate.type \notin InputTypes
  /\ {NULL, GARBAGE} \cap Operands = {}
  /\ evals' = [evals EXCEPT ![gate_id] =
                 Apply(gate, Operand(1), Operand(Arity(gate.type)))]
  /\ pc' = "free1"
  /\ UNCHANGED <<call, i, gate_id, out_deps_not_evaled, zeroed, result, err>>

\* "wrong number of inputs": goto cleanup, with cf_err still E_NOERR.
OperandMissing ==
  /\ pc = "eval"
  /\ i < circ.n_gates
  /\ gate.type \notin InputTypes
  /\ NULL \in Operands
  /\ pc' = "cleanup"
  /\ UNCHANGED <<call, i, gate_id, evals, out_deps_not_evaled, zeroed, result,
                 err>>

\* An uninitialised slot is not NULL, and is used as a pointer.
OperandGarbage ==
  /\ pc = "eval"
  /\ i < circ.n_gates
  /\ gate.type \notin InputTypes
  /\ GARBAGE \in Operands
  /\ NULL \notin Operands
  /\ pc' = "crashed"
  /\ UNCHANGED <<call, i, gate_id, evals, out_deps_not_evaled, zeroed, result,
                 err>>

-----------------------------------------------------------------------------
(***************************************************************************)
(* Freeing operands after their last read.                                 *)
(***************************************************************************)
\* Mutant of Decrement: a counter without width.
DecrementUnbounded(n) == n - 1

\* --n on a uint16_t
Decrement(n) == IF n = 0 THEN CounterMod - 1 ELSE n - 1

\* Mutant of Release: the slot is freed one read too early.
ReleaseEarly(k) ==
  LET n == Decrement(out_deps_not_evaled[k])
  IN  /\ out_deps_not_evaled' = [out_deps_not_evaled EXCEPT ![k] = n]
      /\ evals' = IF n <= 1 THEN [evals EXCEPT ![k] = NULL] ELSE evals

Release(k) ==
  LET n == Decrement(out_deps_not_evaled[k])
  IN  /\ out_deps_not_evaled' = [out_deps_not_evaled EXCEPT ![k] = n]
      /\ evals' = IF n = 0 THEN [evals EXCEPT ![k] = NULL] ELSE evals

\* The j-th operand of this gate is an intermediate result.
ReadsSlot(j) ==
  /\ gate_id >= circ.n_inputs
  /\ j <= Arity(gate.type)
  /\ gate.input_ids[j] >= circ.n_inputs

ReleaseOperand(j) ==
  IF ReadsSlot(j) THEN Release(gate.input_ids[j])
                  ELSE UNCHANGED <<evals, out_deps_not_evaled>>

FreeFirst ==
  /\ pc = "free1"
  /\ ReleaseOperand(1)
  /\ pc' = "free2"
  /\ UNCHANGED <<call, i, gate_id, zeroed, result, err>>

\* Mutant of FreeSecond: the traversal index does not advance.
FreeSecondInPlace ==
  /\ pc = "free2"
  /\ ReleaseOperand(2)
  /\ pc' = "eval"
  /\ UNCHANGED <<call, i, gate_id, zeroed, result, err>>

\* t_sort has n_gates + 1 entries: the last iteration reads the extra one.
FreeSecond ==
  /\ pc = "free2"
  /\ ReleaseOperand(2)
  /\ i' = i + 1
  /\ gate_id' = t_sort[i + 1]
  /\ pc' = "eval"
  /\ UNCHANGED <<call, zeroed, result, err>>

EndLoop ==
  /\ pc = "eval"
  /\ i >= circ.n_gates
  /\ pc' = "copy"
  /\ UNCHANGED <<call, i, gate_id, evals, out_deps_not_evaled, zeroed, result,
                 err>>

-----------------------------------------------------------------------------
\* Mutant of CopyResult: copies the gate the traversal ended on.
CopyLastVisited ==
  /\ pc = "copy"
  /\ LET g   == t_sort[circ.n_gates - 1]
         out == IF g \in Internal(circ) THEN evals[g] ELSE NULL
     IN  result' = IF out \in Values THEN out ELSE NULL
  /\ pc' = "cleanup"
  /\ UNCHANGED <<call, i, gate_id, evals, out_deps_not_evaled, zeroed, err>>

(***************************************************************************)
(* The result is the last slot.  cf_mpi_copy ignores a NULL source,        *)
(* cf_tag_copy dereferences it; either of them dereferences garbage.       *)
(***************************************************************************)
CopyResult ==
  /\ pc = "copy"
  /\ LET out == evals[OutputGate(circ)]
     IN  \/ /\ out \in Values
            /\ result' = out
            /\ pc' = "cleanup"
         \/ /\ out = NULL /\ variant = "msg"
            /\ pc' = "cleanup"
            /\ UNCHANGED result
         \/ /\ out = GARBAGE \/ (out = NULL /\ variant = "tag")
            /\ pc' = "crashed"
            /\ UNCHANGED result
  /\ UNCHANGED <<call, i, gate_id, evals, out_deps_not_evaled, zeroed, err>>

\* Every slot that is not NULL is freed, an uninitialised one included.
Cleanup ==
  /\ pc = "cleanup"
  /\ IF \E k \in Internal(circ) : evals[k] = GARBAGE
     THEN pc' = "crashed" /\ UNCHANGED evals
     ELSE /\ evals' = [k \in Internal(circ) |-> NULL]
          /\ pc' = "done"
  /\ UNCHANGED <<call, i, gate_id, out_deps_not_evaled, zeroed, result, err>>

\* The call is over.
Finished == pc \in Final /\ UNCHANGED vars

Step ==
  \/ RejectInputs \/ AssertDeps \/ Initialise \/ OverrunFrame
  \/ SkipInput \/ Compute \/ OperandMissing \/ OperandGarbage
  \/ FreeFirst \/ FreeSecond \/ EndLoop \/ CopyResult \/ Cleanup

Next == Step \/ Finished

Spec == Init /\ [][Next]_vars

\* A single thread that never waits: it is not preempted forever.
FairSpec == Spec /\ WF_vars(Step)

-----------------------------------------------------------------------------
(***************************************************************************)
(* What the traversal has done so far, from its index.                     *)
(***************************************************************************)
\* The gate of iteration n.
At(n) == IF n = 0 THEN 0 ELSE t_sort[n]

\* Gates whose iteration is over.
Visited == {At(n) : n \in 0 .. (i - 1)}

\* Gates that have been given a value.
Evaluated ==
  Internal(circ) \cap
    (Visited \cup (IF pc \in {"free1", "free2"} THEN {gate_id} ELSE {}))

\* Operand positions that hold k and have not been counted down yet.
Pending(k) ==
  {u \in Uses(circ, k) :
     /\ u[1] \notin Visited
     /\ ~ (pc = "free2" /\ u = <<gate_id, 1>>)}

InLoop == pc \in {"eval", "free1", "free2", "copy"}

M == Meaning(circ, input)

-----------------------------------------------------------------------------
(***************************************************************************)
(* Properties                                                              *)
(***************************************************************************)
TypeOK ==
  /\ variant \in {"msg", "tag"}
  /\ circ \in Circuits
  /\ input \in InputVectors
  /\ IsTSort(circ, t_sort)
  /\ pc \in PCs
  /\ i \in 0 .. circ.n_gates
  /\ gate_id \in Gates(circ)
  /\ evals \in [Internal(circ) -> Values \cup {NULL, GARBAGE}]
  /\ out_deps_not_evaled \in [Internal(circ) -> 0 .. (CounterMod - 1)]
  /\ zeroed \subseteq Internal(circ)
  /\ result \in Values \cup {NULL}
  /\ err \in {"E_NOERR", "E_INVAL_N_INPUTS"}

(***************************************************************************)
(* When a gate is about to be evaluated, each operand that is an           *)
(* intermediate result holds the value of its gate: it has been computed,  *)
(* has not been freed by an earlier reader, and is not stack content, in   *)
(* whatever order tsort listed the gates.                                  *)
(***************************************************************************)
OperandsAlive ==
  pc = "eval" /\ i < circ.n_gates /\ circ \in EvaluableCircuits =>
    \A j \in 1 .. Arity(gate.type) : Operand(j) = M[gate.input_ids[j]]

(***************************************************************************)
(* A call that returns E_NOERR on an evaluable circuit returned the value  *)
(* of the last gate, for both evaluators and whatever the overrun zeroed.  *)
(***************************************************************************)
ResultCorrect ==
  pc = "done" /\ err = "E_NOERR" /\ circ \in EvaluableCircuits =>
    result = M[OutputGate(circ)]

(***************************************************************************)
(* No circuit, cyclic ones included, yields a wrong value: a gate on a     *)
(* cycle finds an operand missing and ends the call, and a last gate that  *)
(* has readers is freed, so a value that is returned is the right one.     *)
(* One kind of cycle goes unnoticed: a gate that reads only itself can be  *)
(* the first tsort prints, and the traversal never visits t_sort[0].       *)
(***************************************************************************)
NoWrongResult ==
  pc = "done" /\ result # NULL =>
    IF Acyclic(circ) THEN result = M[OutputGate(circ)]
                     ELSE Precedes(circ, t_sort[0], t_sort[0])

(***************************************************************************)
(* Neither a missing result nor the content of an uninitialised slot is    *)
(* ever dereferenced or freed on an evaluable circuit: this is what makes  *)
(* the mis-indexed initialisation of tageval.c harmless there.             *)
(***************************************************************************)
GarbageUntouched == circ \in EvaluableCircuits => pc # "crashed"

(***************************************************************************)
(* A counter the overrun left alone is the number of reads still to come,  *)
(* a gate that reads the same operand twice counting twice.                *)
(***************************************************************************)
CountersExact ==
  InLoop /\ circ \in EvaluableCircuits =>
    \A k \in Internal(circ) \ zeroed :
      out_deps_not_evaled[k] = Cardinality(Pending(k))

(***************************************************************************)
(* Memory is given back as soon as it can be: an intermediate result is    *)
(* held from its computation until exactly its last read, and for good     *)
(* when nobody reads it.                                                   *)
(***************************************************************************)
FreedAtLastRead ==
  InLoop /\ circ \in EvaluableCircuits =>
    \A k \in Evaluated \ zeroed :
      (evals[k] = NULL) <=> (Uses(circ, k) # {} /\ Pending(k) = {})

(***************************************************************************)
(* A slot holds nothing when a gate stores its result in it: storing over  *)
(* an earlier result would leak it.                                        *)
(***************************************************************************)
NoLeakStep == Compute => evals[gate_id] \notin Values
NoLeak == [][NoLeakStep]_vars

(***************************************************************************)
(* The evaluator returns (or dies): the loop is bounded by n_gates and     *)
(* nothing in it waits.                                                    *)
(***************************************************************************)
Terminates == <>(pc \in Final)

(***************************************************************************)
(* E_NOERR means everything is OK: the caller has a result.                *)
(***************************************************************************)
OkMeansResult == pc = "done" /\ err = "E_NOERR" => result # NULL

-----------------------------------------------------------------------------
(***************************************************************************)
(* The evaluators implement the one-step function.                         *)
(***************************************************************************)
status == IF pc = "done" THEN "returned"
          ELSE IF pc \in Final THEN "undefined" ELSE "called"

MayAbort(v, c) == TooWide(c) \/ v = "tag"

Function == INSTANCE CircuitFunction
              WITH result <- IF pc \in Final THEN result ELSE NULL

ImplementsFunction == Function!Spec

-----------------------------------------------------------------------------
(***************************************************************************)
(* The inductive invariant of the proofs.  A counter the overrun zeroed    *)
(* wraps at its first decrement and cannot come back to zero, because the  *)
(* assertion keeps fan-outs below CounterMod - 1: its slot is only freed   *)
(* by the cleanup.                                                         *)
(***************************************************************************)
\* A counter that started at 0 after r decrements.
WrapDown(r) == IF r = 0 THEN 0 ELSE CounterMod - r

CounterOK(k) ==
  out_deps_not_evaled[k] =
    IF k \in zeroed
    THEN WrapDown(Cardinality(Uses(circ, k)) - Cardinality(Pending(k)))
    ELSE Cardinality(Pending(k))

\* k has been read for the last time, and its counter has seen it.
Freed(k) == Uses(circ, k) # {} /\ Pending(k) = {} /\ k \notin zeroed

SlotOK(k) ==
  IF k \notin Evaluated THEN evals[k] \in {NULL, GARBAGE}
  ELSE evals[k] = IF Freed(k) THEN NULL ELSE M[k]

ControlInv ==
  /\ pc = "call" => i = 0 /\ result = NULL /\ err = "E_NOERR"
  /\ pc \in {"eval", "free1", "free2", "copy", "cleanup"} =>
       Fits(circ, input) /\ ~ TooWide(circ) /\ err = "E_NOERR"
  /\ pc \in {"call", "eval", "free1", "free2"} => gate_id = At(i)
  /\ pc \in {"free1", "free2"} => i < circ.n_gates
  /\ pc = "copy" => i = circ.n_gates
  /\ pc = "done" => (err = "E_NOERR" <=> Fits(circ, input))
  /\ pc = "done" /\ err # "E_NOERR" => result = NULL

LoopInv ==
  InLoop /\ circ \in EvaluableCircuits =>
    \A k \in Internal(circ) : CounterOK(k) /\ SlotOK(k)

EndInv ==
  circ \in EvaluableCircuits =>
    /\ pc # "crashed"
    /\ pc = "cleanup" => \A k \in Internal(circ) : evals[k] # GARBAGE
    /\ pc = "cleanup" \/ (pc = "done" /\ err = "E_NOERR") =>
         result = M[OutputGate(circ)]

IInv == TypeOK /\ ControlInv /\ LoopInv /\ EndInv
=============================================================================
