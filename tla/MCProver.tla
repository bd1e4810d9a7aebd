------------------------------ MODULE MCProver ------------------------------
(***************************************************************************)
(* The prover loop for TLC, over the selectors, rows and column layout of *)
(* MCDecomposedTrace.                                                      *)
(***************************************************************************)
EXTENDS Prover, MCDecomposedTrace
=============================================================================
