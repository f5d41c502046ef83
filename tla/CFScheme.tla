------------------------------ MODULE CFScheme ------------------------------
(***************************************************************************)
(* The two homomorphic MACs, over a prime P small enough to enumerate: key *)
(* generation (keys.c), authentication, evaluation and verification (cf.c, *)
(* prf.c).  One behaviour is one session: keys, a tag for each input, an   *)
(* evaluation, and the verification of a message the verifier is given.    *)
(*                                                                         *)
(* AES is external; what the scheme sees of it is a value modulo P per     *)
(* label, any value.  Circuits are evaluated gate by gate in CircuitEval;  *)
(* here an evaluation is one step, the value of the output gate.           *)
(***************************************************************************)
EXTENDS TagAlgebra, Circuit

CONSTANTS
  Circuits,  \* evaluable circuits
  Messages,  \* messages to authenticate, in 0 .. P + 1
  Claims,    \* messages handed to the verifier, in 0 .. P + 1
  RandomTs,  \* what the search for a generator may draw, in 0 .. Q - 1
  Degrees    \* degree bounds keygen is asked for

Q == 2 * P + 1

ASSUME CircuitsAssumption ==
  \A c \in Circuits :
    /\ WellFormed(c) /\ Evaluable(c)
    /\ \A k \in Gates(c) : c.gates[k].type = "CONSTMUL" => c.gates[k].const_val \in Int
ASSUME SchemeAssumption ==
  /\ \A d \in 2 .. (Q - 1) : Q % d # 0
  /\ Messages \cup Claims \subseteq 0 .. (P + 1)
  /\ RandomTs \subseteq 0 .. (Q - 1)
  /\ Degrees \subseteq Nat

VARIABLES
  pc,
  circ,      \* the program: circuit, with one label per input
  scheme,    \* keys are for CF_1 or CF_2
  d,         \* degree bound of the evaluation key
  use_fft,   \* which product of tags
  x, g, h,   \* keys (g = 0 and h = <<>> stand for NULL)
  r,         \* r_tau of each label
  messages,  \* history: the message of each label
  tags,      \* tags made so far, by input
  result,    \* what cf_eval returned
  compact,   \* whether cf_eval compressed it
  verdict,   \* what cf_vrfy returned
  claim,     \* the message it was asked about
  err
session == <<circ, scheme, d, use_fft>>
vars == <<pc, session, x, g, h, r, messages, tags, result, compact, verdict,
          claim, err>>

Schemes == {"CF_1", "CF_2"}
Inputs == 0 .. (circ.n_inputs - 1)

Init ==
  /\ pc = "keygen"
  /\ circ \in Circuits
  /\ scheme \in Schemes
  /\ d \in Degrees
  /\ use_fft \in BOOLEAN
  /\ x = 0 /\ g = 0 /\ h = <<>>
  /\ r = <<>>
  /\ messages = <<>>
  /\ tags = <<>>
  /\ result = ABORT
  /\ compact = FALSE
  /\ verdict = "E_NO_VRFY"
  /\ claim = 0
  /\ err = "E_NOERR"

Die ==
  /\ pc' = "aborted"
  /\ UNCHANGED <<session, x, g, h, r, messages, tags, result, compact, verdict,
                 claim, err>>

-----------------------------------------------------------------------------
(***************************************************************************)
(* cf_key_gen                                                              *)
(***************************************************************************)
ZeroDegree ==
  /\ pc = "keygen"
  /\ scheme = "CF_2" /\ d = 0
  /\ err' = "E_INVAL_DEGREE"
  /\ pc' = "failed"
  /\ UNCHANGED <<session, x, g, h, r, messages, tags, result, compact, verdict,
                 claim>>

Generator(t) == PowMod(t, 2, Q)

\* assert(t > 2): the draw of a small t is fatal.
DrawSmallT ==
  /\ pc = "keygen"
  /\ scheme = "CF_2" /\ d > 0
  /\ \E t \in RandomTs : t <= 2
  /\ Die

\* Mutant of Power: h_i is g^(i x) instead of g^(x^i).
PowerMultiple(b, e, i) == PowMod(b, e * i, Q)

\* cf_mpi_pow_ui: the power is not reduced.
IntPower(e, i) ==
  LET pow[n \in 0 .. i] == IF n = 0 THEN 1 ELSE pow[n - 1] * e
  IN  pow[i]

\* h_i
Power(b, e, i) == PowMod(b, IntPower(e, i), Q)

\* t with t^2 = 1 is drawn again.
KeyGen ==
  /\ pc = "keygen"
  /\ x' \in 0 .. (P - 1)
  /\ IF scheme = "CF_2"
     THEN /\ d > 0
          /\ \E t \in RandomTs : t > 2 /\ Generator(t) # 1 /\ g' = Generator(t)
          /\ h' = [i \in 1 .. d |-> Power(g', x', i)]
     ELSE UNCHANGED <<g, h>>
  /\ pc' = "auth"
  /\ UNCHANGED <<session, r, messages, tags, result, compact, verdict, claim,
                 err>>

-----------------------------------------------------------------------------
(***************************************************************************)
(* cf_auth, one label after the other.                                     *)
(***************************************************************************)
NextInput == Cardinality(DOMAIN tags)

Authenticating(m) == pc = "auth" /\ NextInput \in Inputs /\ m \in Messages

\* A message may be P itself.
RefuseMessage(m) ==
  /\ Authenticating(m)
  /\ m > P
  /\ err' = "E_INVAL_MSG"
  /\ pc' = "failed"
  /\ UNCHANGED <<session, x, g, h, r, messages, tags, result, compact, verdict,
                 claim>>

\* assert(y[1] != NULL): 0 has no inverse.
NoInverse(m) ==
  /\ Authenticating(m)
  /\ m <= P
  /\ x = 0
  /\ Die

InverseModP(a) == CHOOSE b \in 1 .. (P - 1) : (a * b) % P = 1

\* Mutant of TagOf: the message is added to the mask.
TagOfSum(m, r_tau) ==
  [k \in 0 .. 1 |-> IF k = 0 THEN m ELSE (InverseModP(x) * ((r_tau + m) % P)) % P]

\* y(0) = m and y(x) = r_tau.
TagOf(m, r_tau) ==
  [k \in 0 .. 1 |-> IF k = 0 THEN m ELSE (InverseModP(x) * ((r_tau - m) % P)) % P]

Extend(f, v) ==
  [k \in DOMAIN f \cup {NextInput} |-> IF k = NextInput THEN v ELSE f[k]]

Authenticate(m) ==
  /\ Authenticating(m)
  /\ m <= P
  /\ x # 0
  /\ \E r_tau \in 0 .. (P - 1) :
       /\ r' = Extend(r, r_tau)
       /\ tags' = Extend(tags, TagOf(m, r_tau))
  /\ messages' = Extend(messages, m)
  /\ UNCHANGED <<pc, session, x, g, h, result, compact, verdict, claim, err>>

-----------------------------------------------------------------------------
(***************************************************************************)
(* Circuits, on numbers (arith_circ_eval) and on tags (_cf_eval_tags).     *)
(***************************************************************************)
MessageValues(inputs) ==
  LET value[k \in Gates(circ)] ==
        LET gate == circ.gates[k]
        IN  IF k < circ.n_inputs THEN inputs[k]
            ELSE CASE gate.type = "ADD" ->
                        (value[gate.input_ids[1]] + value[gate.input_ids[2]]) % P
                   [] gate.type = "MUL" ->
                        (value[gate.input_ids[1]] * value[gate.input_ids[2]]) % P
                   [] OTHER ->
                        (value[gate.input_ids[1]] * gate.const_val) % P
  IN  value

ApplyTags(gate, a, b) ==
  IF ABORT \in {a, b} THEN ABORT
  ELSE CASE gate.type = "ADD" -> tag_addition(a, b)
         [] gate.type = "MUL" -> tag_product(use_fft, a, b)
         [] OTHER             -> tag_constant_product(a, gate.const_val)

TagValues ==
  LET value[k \in Gates(circ)] ==
        LET gate == circ.gates[k]
        IN  IF k < circ.n_inputs THEN tags[k]
            ELSE ApplyTags(gate, value[gate.input_ids[1]],
                           value[gate.input_ids[Arity(gate.type)]])
  IN  value

-----------------------------------------------------------------------------
(***************************************************************************)
(* cf_eval, with the scheme of the evaluator's command line.               *)
(***************************************************************************)
Evaluating == pc = "auth" /\ NextInput \notin Inputs

NoHs(cf) ==
  /\ Evaluating
  /\ cf = "CF_2" /\ h = <<>>
  /\ err' = "E_INVAL_EK_KEY"
  /\ pc' = "failed"
  /\ UNCHANGED <<session, x, g, h, r, messages, tags, result, compact, verdict,
                 claim>>

\* A product of the evaluation died.
EvalAborts(cf) ==
  /\ Evaluating
  /\ cf = "CF_2" => h # <<>>
  /\ LET value == TagValues IN \E k \in Gates(circ) : value[k] = ABORT
  /\ Die

\* Mutant of TooHigh: a tag of degree d is refused.
TooHighOrEqual(t) == Degree(t) >= d

TooHigh(t) == Degree(t) > d

\* _cf_compress_tag
Compress(t) ==
  LET product[k \in 0 .. Degree(t)] ==
        IF k = 0 THEN 1 ELSE (product[k - 1] * PowMod(h[k], t[k], Q)) % Q
  IN  product[Degree(t)]

RefuseDegree(cf) ==
  /\ Evaluating
  /\ cf = "CF_2" /\ h # <<>>
  /\ LET value == TagValues
     IN  /\ \A k \in Gates(circ) : value[k] # ABORT
         /\ TooHigh(value[OutputGate(circ)])
  /\ err' = "E_INVAL_DEGREE"
  /\ pc' = "failed"
  /\ UNCHANGED <<session, x, g, h, r, messages, tags, result, compact, verdict,
                 claim>>

Evaluate(cf) ==
  /\ Evaluating
  /\ cf = "CF_2" => h # <<>>
  /\ LET value == TagValues
         out   == value[OutputGate(circ)]
     IN  /\ \A k \in Gates(circ) : value[k] # ABORT
         /\ cf = "CF_2" => ~ TooHigh(out)
         /\ result' = IF cf = "CF_2" THEN [k \in {0} |-> Compress(out)] ELSE out
  /\ compact' = (cf = "CF_2")
  /\ pc' = "vrfy"
  /\ UNCHANGED <<session, x, g, h, r, messages, tags, verdict, claim, err>>

-----------------------------------------------------------------------------
(***************************************************************************)
(* cf_vrfy, with prf = NULL as the command line calls it: making the PRF   *)
(* handler overwrites the initial E_NO_VRFY with E_NOERR.                  *)
(***************************************************************************)
\* The verifier takes a tag of degree 0 for an element of G.
TakenForCF2 == Degree(result) = 0

rho_eval == MessageValues(r)[OutputGate(circ)]

\* Mutant of Verify1: y[0] is not compared with the message.
VerifyAnyMessage(m) == IF rho(result, x) = rho_eval THEN "E_VRFY" ELSE "E_NOERR"

Verify1(m) ==
  IF result[0] = m /\ rho(result, x) = rho_eval THEN "E_VRFY" ELSE "E_NOERR"

Verify2(m) ==
  IF PowMod(g, rho_eval, Q) = (PowMod(g, m, Q) * result[0]) % Q
  THEN "E_VRFY" ELSE "E_NO_VRFY"

ClaimRefused(m) ==
  /\ pc = "vrfy"
  /\ m > P
  /\ claim' = m
  /\ verdict' = "E_INVAL_MSG"
  /\ pc' = "verified"
  /\ UNCHANGED <<session, x, g, h, r, messages, tags, result, compact, err>>

\* A key of CF_1 has no g.
NoG(m) ==
  /\ pc = "vrfy"
  /\ m <= P
  /\ TakenForCF2 /\ g = 0
  /\ Die

Vrfy(m) ==
  /\ pc = "vrfy"
  /\ m <= P
  /\ TakenForCF2 => g # 0
  /\ claim' = m
  /\ verdict' = IF TakenForCF2 THEN Verify2(m) ELSE Verify1(m)
  /\ pc' = "verified"
  /\ UNCHANGED <<session, x, g, h, r, messages, tags, result, compact, err>>

Over == pc \in {"verified", "failed", "aborted"} /\ UNCHANGED vars

Next ==
  \/ ZeroDegree \/ DrawSmallT \/ KeyGen
  \/ \E m \in Messages : RefuseMessage(m) \/ NoInverse(m) \/ Authenticate(m)
  \/ \E cf \in Schemes :
       NoHs(cf) \/ EvalAborts(cf) \/ RefuseDegree(cf) \/ Evaluate(cf)
  \/ \E m \in Claims : ClaimRefused(m) \/ NoG(m) \/ Vrfy(m)
  \/ Over

Spec == Init /\ [][Next]_vars

-----------------------------------------------------------------------------
(***************************************************************************)
(* Properties                                                              *)
(***************************************************************************)
\* What msgeval makes of the messages.
TrueMessage == MessageValues(messages)[OutputGate(circ)]

\* An output that came out constant, which cf_vrfy takes for an element of G: only the FFT
\* drops leading zeros, and the constant then is both the message and its mask.
LostDegree ==
  /\ ~ compact /\ Degree(result) = 0
  /\ use_fft /\ rho_eval = TrueMessage

\* Degree of the polynomial the program computes, read off its gates.
ProgramDegree ==
  LET degree[k \in Gates(circ)] ==
        LET gate == circ.gates[k]
            of(j) == degree[gate.input_ids[j]]
        IN  IF gate.type \in InputTypes THEN 1
            ELSE IF gate.type = "MUL" THEN of(1) + of(2)
            ELSE Max({of(j) : j \in 1 .. Arity(gate.type)})
  IN  degree[OutputGate(circ)]

(***************************************************************************)
(* Every gate of an evaluation has a tag that is the message at 0 and the  *)
(* mask of the labels at x: the scheme's correctness, gate by gate, with   *)
(* both products, shared operands and constants.                           *)
(***************************************************************************)
TagsHomomorphic ==
  pc = "auth" /\ Evaluating =>
    LET value == TagValues
    IN  \A k \in Gates(circ) :
          value[k] # ABORT =>
            /\ rho(value[k], x) = MessageValues(r)[k] % P
            /\ value[k][0] % P = MessageValues(messages)[k] % P

(***************************************************************************)
(* An honest result verifies: the evaluated message is accepted with the   *)
(* evaluated tag, by both schemes, for every x, generator, message and     *)
(* mask, with one exception.  An output of the FFT whose mask happens to   *)
(* be its message can lose its degree and be taken for one of CF_2: the    *)
(* verifier then dies of a key without g, or checks g^(c - m) = c, which   *)
(* the message m = c only passes if it is 1.  No other inputs make an      *)
(* honest claim fail or a verification die.                                *)
(***************************************************************************)
HonestAccepted ==
  /\ pc = "verified" /\ claim = TrueMessage /\ verdict # "E_VRFY" =>
       LostDegree /\ TrueMessage # 1
  /\ pc = "aborted" /\ result # ABORT => LostDegree /\ g = 0

(***************************************************************************)
(* No other message is accepted with an honest tag.  The second scheme     *)
(* sees messages modulo P, and lets P itself pass for 0.  The exception is *)
(* the same: of a constant c that is taken for an element of G, what is    *)
(* accepted is the m with g^c = g^m c, and no other.                       *)
(***************************************************************************)
OthersRejected ==
  pc = "verified" /\ verdict = "E_VRFY" =>
    \/ compact /\ claim % P = TrueMessage % P
    \/ ~ compact /\ claim = TrueMessage
    \/ /\ LostDegree
       /\ PowMod(g, TrueMessage, Q) = (PowMod(g, claim, Q) * TrueMessage) % Q

(***************************************************************************)
(* Evaluation correctness as the thesis states it: what eval makes of      *)
(* honest tags, the verifier accepts with the evaluated message, whatever  *)
(* the tags are; it certainly does not die of them.                        *)
(***************************************************************************)
EvaluationCorrect ==
  result # ABORT =>
    /\ pc # "aborted"
    /\ pc = "verified" /\ claim = TrueMessage => verdict = "E_VRFY"

(***************************************************************************)
(* The degree bound is about the program, not about how its tags came out: *)
(* CF_2 refuses no program of degree at most d, and with the naive product *)
(* it lets none of a higher degree through to the powers h lacks.          *)
(***************************************************************************)
DegreeBoundExact ==
  /\ err = "E_INVAL_DEGREE" => d = 0 \/ ProgramDegree > d
  /\ compact /\ ~ use_fft => ProgramDegree <= d

(***************************************************************************)
(* The evaluation of authenticated messages delivers a tag, as the README  *)
(* says of the command, unless the degree bound forbids it.                *)
(***************************************************************************)
HonestEvalDelivers == pc = "aborted" => Cardinality(DOMAIN tags) < circ.n_inputs
=============================================================================
