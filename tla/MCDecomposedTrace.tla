------------------------- MODULE MCDecomposedTrace -------------------------
(***************************************************************************)
(* Model of DecomposedTrace for TLC: two selectors, two relation columns, *)
(* two selector columns; the cfgs take domain size 3 (so a sub-trace can  *)
(* be empty, partly filled and full, and a clone of two rows can grow).   *)
(***************************************************************************)
EXTENDS DecomposedTrace

CONSTANTS s1, s2

MCSelectors == {s1, s2}

\* A relation row written as a tuple, indexed from column 0.
MCRelRow(t) == [c \in 0 .. 1 |-> t[c + 1]]

\* Rows the interpreter emits: s1 has two distinct valid rows, so dummy
\* padding can tell row 0 from a later row; s2 has one.
MCRowsOf(s) ==
  IF s = s1 THEN {MCRelRow(<<2, 3>>), MCRelRow(<<3, 3>>)}
           ELSE {MCRelRow(<<3, 2>>)}

MCDenseIndex(s) == IF s = s1 THEN 0 ELSE 1

\* usize::from(selector) as the VM column modules define it: the selector
\* column index, i.e. offset by N_REL.
MCSelIndexOffset(s) == NRel + MCDenseIndex(s)

\* usize::from(selector) as spec 3 describes it: a dense index in [0, N_SEL).
MCSelIndexDense(s) == MCDenseIndex(s)
=============================================================================
