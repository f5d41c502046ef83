-------------------------- MODULE CircuitFunction --------------------------
(***************************************************************************)
(* What the evaluators promise, without slots, counters or an order: one   *)
(* step from the call to the return, that delivers the value of the output *)
(* gate, or the error code of a call with the wrong number of inputs.  On  *)
(* a circuit that is not Evaluable the promise is void.                    *)
(***************************************************************************)
EXTENDS CircuitSemantics

CONSTANT MayAbort(_, _)  \* the evaluators and circuits that are allowed to die

VARIABLES
  variant, \* the evaluator that is called
  circ,    \* the circuit of this call
  input,   \* the inputs of this call
  status,  \* "called", "returned", or "undefined" after undefined behaviour
  result,  \* *result
  err      \* the returned cf_errno
vars == <<variant, circ, input, status, result, err>>

Init ==
  /\ variant \in {"msg", "tag"}
  /\ circ \in Circuits
  /\ input \in InputVectors
  /\ status = "called"
  /\ result = NULL
  /\ err = "E_NOERR"

ReturnValue ==
  /\ status = "called"
  /\ Fits(circ, input)
  /\ Evaluable(circ)
  /\ status' = "returned"
  /\ result' = Meaning(circ, input)[OutputGate(circ)]
  /\ UNCHANGED <<variant, circ, input, err>>

Reject ==
  /\ status = "called"
  /\ ~ Fits(circ, input)
  /\ status' = "returned"
  /\ err' = "E_INVAL_N_INPUTS"
  /\ UNCHANGED <<variant, circ, input, result>>

Abort ==
  /\ status = "called"
  /\ Fits(circ, input)
  /\ MayAbort(variant, circ)
  /\ status' = "undefined"
  /\ UNCHANGED <<variant, circ, input, result, err>>

NoPromise ==
  /\ status = "called"
  /\ Fits(circ, input)
  /\ ~ Evaluable(circ)
  /\ status' \in {"returned", "undefined"}
  /\ result' \in Values \cup {NULL}
  /\ UNCHANGED <<variant, circ, input, err>>

Next == ReturnValue \/ Reject \/ Abort \/ NoPromise

Spec == Init /\ [][Next]_vars
=============================================================================
