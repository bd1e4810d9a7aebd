----------------------------- MODULE MCFolding -----------------------------
(***************************************************************************)
(* Folding for TLC: three columns, two possible column contents, two      *)
(* calls on one sponge (the second call's challenges depend on the       *)
(* first's transcript).  A commitment is two chunks, distinct per column  *)
(* content: the domain is larger than the SRS, the case in which the      *)
(* instance keeps only part of what the sponge absorbed.                  *)
(***************************************************************************)
EXTENDS Folding

MCCommit(col) == <<[committed |-> col, chunk |-> 1], [committed |-> col, chunk |-> 2]>>
=============================================================================
