------------------------------- MODULE MacOps -------------------------------
(***************************************************************************)
(* The two MACs as the command line sees them: what cf_auth, cf_eval and   *)
(* cf_vrfy (cf.c) make of keys, labels, messages and tags of any session.  *)
(*                                                                         *)
(* A tag is a record [run, y0, mask, deg]: the polynomial with value y0 at *)
(* 0 and mask at the x of the keys of that run, of degree deg; degree 0    *)
(* means compressed (an element of the group of CF_2).  Tags that are no   *)
(* such polynomial for any key have run 0.  CFScheme checks that tags of   *)
(* one run behave so: an evaluation acts on y0 and mask as the circuit     *)
(* does on messages and on masks, and compression keeps both.              *)
(*                                                                         *)
(* The masks stand for pseudorandom numbers: they are not reduced, and     *)
(* programs agree on them only if they agree as polynomials; products that *)
(* lose their degree by a coincidence modulo p are left to CFScheme.  The  *)
(* keys of a file are a sequence: <<>> for a file without keys, as an      *)
(* interrupted keygen leaves it, and then p, k and x are NULL.             *)
(***************************************************************************)
EXTENDS Circuit

CONSTANTS
  P,          \* the modulus of messages, one number for the p of all keys
  PRF(_, _),  \* PRF(r, l): the mask of label l under the keys of run r
  LongLabel,  \* labels from here on have more bits than k
  NULL

Schemes == {"CF_1", "CF_2"}

\* A key of CF_2 has h (and g).
HasH(key) == key # <<>> /\ key[1].cf = "CF_2"

Modulo(v, key) == IF key = <<>> THEN v ELSE v % P

\* arith_circ_eval of an evaluable circuit on a sequence of inputs.
Value(c, inputs) ==
  LET value[k \in Gates(c)] ==
        LET gate == c.gates[k]
            in(j) == value[gate.input_ids[j]]
        IN  IF k < c.n_inputs THEN inputs[k + 1]
            ELSE IF gate.type = "ADD" THEN in(1) + in(2)
            ELSE IF gate.type = "MUL" THEN in(1) * in(2)
            ELSE in(1) * gate.const_val
  IN  value[OutputGate(c)]

DegreeOf(c, degs) ==
  LET degree[k \in Gates(c)] ==
        LET gate == c.gates[k]
            in(j) == degree[gate.input_ids[j]]
        IN  IF k < c.n_inputs THEN degs[k + 1]
            ELSE IF gate.type = "MUL" THEN in(1) + in(2)
            ELSE IF gate.type = "ADD" /\ in(2) > in(1) THEN in(2)
            ELSE in(1)
  IN  degree[OutputGate(c)]

HasProduct(c) == \E k \in Internal(c) : c.gates[k].type = "MUL"

Masks(r, labels) == [i \in DOMAIN labels |-> PRF(r, labels[i])]

-----------------------------------------------------------------------------
(***************************************************************************)
(* cf_auth                                                                 *)
(***************************************************************************)
AuthError(label, m) ==
  IF label = NULL THEN "E_INVAL_LBL"
  ELSE IF m > P THEN "E_INVAL_MSG"
  ELSE IF label >= LongLabel THEN "E_INVAL_LBL"
  ELSE "E_NOERR"

\* assert(n_words == *dest_len): a zero is exported to no byte at all.
AuthDies(label) == label = 0

FreshTag(r, label, m) == [run |-> r, y0 |-> m, mask |-> PRF(r, label), deg |-> 1]

-----------------------------------------------------------------------------
(***************************************************************************)
(* cf_eval                                                                 *)
(***************************************************************************)
Column(tags, f) == [i \in DOMAIN tags |-> tags[i][f]]

\* The run the tags and the modulus belong to, if they do to one.
CommonRun(ek, tags) ==
  LET runs == {tags[i].run : i \in DOMAIN tags} \cup {ek[i].run : i \in DOMAIN ek}
  IN  IF Cardinality(runs) = 1 /\ \A i \in DOMAIN tags : tags[i].deg > 0
      THEN CHOOSE r \in runs : TRUE ELSE 0

EvalError(ek, c, tags, cf) ==
  IF c.n_inputs # Len(tags) THEN "E_INVAL_N_INPUTS"
  ELSE IF cf = "CF_2" /\ ~ HasH(ek) THEN "E_INVAL_EK_KEY"
  ELSE IF /\ cf = "CF_2" /\ Evaluable(c)
          /\ DegreeOf(c, Column(tags, "deg")) > ek[1].d
       THEN "E_INVAL_DEGREE"
  ELSE "E_NOERR"

\* The product needs a modulus, and dies on a zero coefficient; the degree of
\* a tag that is NULL is read before it is compressed.
EvalMayDie(c) == HasProduct(c) \/ ~ Evaluable(c)
EvalMustDie(ek, c, cf) ==
  \/ HasProduct(c) /\ ek = <<>>
  \/ ~ Evaluable(c) /\ cf = "CF_2"

Evaluated(ek, c, tags) ==
  [run  |-> CommonRun(ek, tags),
   y0   |-> Modulo(Value(c, Column(tags, "y0")), ek),
   mask |-> Value(c, Column(tags, "mask")),
   deg  |-> DegreeOf(c, Column(tags, "deg"))]

\* Without a result, in a circuit that is not evaluable, nothing.
EvalResult(ek, c, tags) ==
  IF Evaluable(c) THEN <<Evaluated(ek, c, tags)>> ELSE <<>>

Compressed(t) == [t EXCEPT !.deg = 0]

-----------------------------------------------------------------------------
(***************************************************************************)
(* cf_vrfy, with prf = NULL.                                               *)
(***************************************************************************)
MessageRefused(m) == m > P

\* Only when the masks of the labels are computed.
ComparesMasks(m, t) == t.deg = 0 \/ t.y0 = m

\* A key without p; labels the PRF cannot take; a program without a value; a
\* compressed tag and a key without g.
VrfyDies(sk, c, labels, m, t) ==
  \/ sk = <<>>
  \/ /\ ~ MessageRefused(m)
     /\ ComparesMasks(m, t)
     /\ \/ \E i \in DOMAIN labels : labels[i] = 0 \/ labels[i] >= LongLabel
        \/ ~ Evaluable(c)
        \/ t.deg = 0 /\ ~ HasH(sk)

SameMask(sk, c, labels, t) ==
  t.run = sk[1].run /\ t.mask = Value(c, Masks(sk[1].run, labels))

\* Mutant of Matches: the group element is not compared with the message.
MatchesMaskOnly(sk, c, labels, m, t) ==
  SameMask(sk, c, labels, t) /\ (t.deg = 0 \/ t.y0 = m)

Matches(sk, c, labels, m, t) ==
  /\ SameMask(sk, c, labels, t)
  /\ IF t.deg = 0 THEN t.y0 % P = m % P ELSE t.y0 = m

\* Mutant of Verdict: no refusal is an error.
VerdictSilent(sk, c, labels, m, t) ==
  IF MessageRefused(m) THEN "E_INVAL_MSG"
  ELSE IF Matches(sk, c, labels, m, t) THEN "E_VRFY" ELSE "E_NOERR"

\* A message that is refused with a tag of CF_1 gets E_NOERR.
Verdict(sk, c, labels, m, t) ==
  IF MessageRefused(m) THEN "E_INVAL_MSG"
  ELSE IF Matches(sk, c, labels, m, t) THEN "E_VRFY"
  ELSE IF t.deg = 0 THEN "E_NO_VRFY" ELSE "E_NOERR"
=============================================================================
