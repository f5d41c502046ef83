------------------------------ MODULE MCTagOps ------------------------------
(***************************************************************************)
(* Instances of TagOps.                                                    *)
(***************************************************************************)
EXTENDS TagOps

\* All tags of degree at most 1, coefficients up to P (a message may be P).
MCOperands == TagsUpTo(1, 0 .. P)
MCConstants == {0, 2, P}
=============================================================================
