---------------------------- MODULE MCKeyFiles -----------------------------
(***************************************************************************)
(* Instances of KeyFiles.                                                  *)
(***************************************************************************)
EXTENDS KeyFiles

MCDegrees == {0, 1, 3}

Foreign(v) == [of |-> <<v, 0>>, run |-> 0, cut |-> FALSE]
MCForeignLines ==
  [verb : {"h d:"}, num : {0, 1, 2, BadNum, NoNum}] \cup
  [verb : {"p", "k", "value"}, num : {Foreign("p"), BadNum}] \cup
  [verb : {"z"}, num : {Foreign("p")}] \cup
  [verb : {"#", "blank", "text"}, num : {BadNum}]
=============================================================================
