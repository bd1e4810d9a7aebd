-------------------------- MODULE SubTraceCounter --------------------------
(***************************************************************************)
(* What the row bookkeeping of a decomposed trace promises, with the      *)
(* columns abstracted away: each selector has a row count in              *)
(* 0 .. DomainSize.  Pushing a row adds one unless the sub-trace is full  *)
(* (the row is then dropped), padding takes a non-empty sub-trace to      *)
(* DomainSize and leaves an empty one empty, and a reset empties it.      *)
(* DecomposedTrace implements this under rows = number_of_rows.           *)
(***************************************************************************)
EXTENDS Naturals

CONSTANTS Selectors, DomainSize

VARIABLE rows

Init == rows = [s \in Selectors |-> 0]

Push(s) ==
  rows' = [rows EXCEPT ![s] = IF @ < DomainSize THEN @ + 1 ELSE @]

Pad(s) ==
  /\ rows[s] # 0
  /\ rows' = [rows EXCEPT ![s] = DomainSize]

PadAll ==
  rows' = [s \in Selectors |-> IF rows[s] = 0 THEN 0 ELSE DomainSize]

Clear(s) ==
  rows' = [rows EXCEPT ![s] = 0]

Next ==
  \/ \E s \in Selectors : Push(s) \/ Pad(s) \/ Clear(s)
  \/ PadAll

Spec == Init /\ [][Next]_rows
=============================================================================
