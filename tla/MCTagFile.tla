----------------------------- MODULE MCTagFile -----------------------------
(***************************************************************************)
(* Instances of TagFile.                                                   *)
(***************************************************************************)
EXTENDS TagFile

\* Tags of "auth" (degree 1), of a product (2), of a CF_2 result (0).
MCTags == {<<5, 3>>, <<4, 0, 2>>, <<6>>}
FromZero(s) == [k \in 0 .. (Len(s) - 1) |-> s[k + 1]]
MCBatches ==
  {[n \in DOMAIN b |-> FromZero(b[n])] : b \in UNION {[1 .. n -> MCTags] : n \in 0 .. 3}}

MCForeignLines ==
  [verb : {"tag d:"}, num : {0, 1, 2, BadNum, HugeNum, NoNum}] \cup
  [verb : {"value"}, num : {7, BadNum}] \cup
  [verb : {"blank"}, num : {BadNum}]
=============================================================================
