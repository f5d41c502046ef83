----------------------------- MODULE MacService -----------------------------
(***************************************************************************)
(* What the program promises its user, without files, tags or processes:   *)
(* messages are authenticated under labels with the keys of one keygen,    *)
(* and "Verification ok" is said of a message only if it is the result of  *)
(* the program in question on messages authenticated under its labels,     *)
(* with those keys and before.                                             *)
(***************************************************************************)
EXTENDS MacOps

VARIABLES
  authenticated,  \* triples <<run, label, message>>
  accepted        \* claims [run, arith, labels, message] that were confirmed

Init == authenticated = {} /\ accepted = {}

Authenticate ==
  /\ authenticated \subseteq authenticated'
  /\ UNCHANGED accepted

\* Some authenticated messages of the labels have this result.
Justified(claim) ==
  \E ms \in [DOMAIN claim.labels -> {a[3] : a \in authenticated}] :
    /\ \A i \in DOMAIN ms : <<claim.run, claim.labels[i], ms[i]>> \in authenticated
    /\ claim.message % P = Value(claim.arith, ms) % P

Accept ==
  /\ \E claim \in accepted' :
       /\ accepted' = accepted \cup {claim}
       /\ Justified(claim)
  /\ UNCHANGED authenticated

Next == Authenticate \/ Accept

Spec == Init /\ [][Next]_<<authenticated, accepted>>
=============================================================================
