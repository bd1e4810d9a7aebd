---------------------------- MODULE FoldingAtomic ----------------------------
(***************************************************************************)
(* What to_folding_pair promises its caller, with the parallel maps and   *)
(* their barriers gone: one atomic call that, from the caller's sponge,   *)
(* absorbs every chunk of every column's commitment in column order,      *)
(* squeezes exactly four challenges (beta, gamma, joint_combiner, alpha)  *)
(* and returns the instance and the witness.  The sponge is its           *)
(* transcript and a challenge the record of the transcript it was drawn   *)
(* from, as in Folding.  Folding implements this specification.           *)
(***************************************************************************)
EXTENDS Naturals, Sequences, SequencesExt

CONSTANTS NCols, Columns, Commit(_), MaxCalls, NoValue

VARIABLES sponge, instance, foldWitness, calls

Cols == 0 .. NCols - 1

Squeezed == "squeeze"
ChallengeOf(st) == [transcript |-> st]

\* The sponge after absorbing the commitments of w, column by column.
Transcript(st, w) == st \o FlattenSeq([i \in 1 .. NCols |-> Commit(w[i - 1])])

\* The k-th challenge drawn after those absorptions.
Challenge(st, w, k) ==
  ChallengeOf(Transcript(st, w) \o [i \in 1 .. k - 1 |-> Squeezed])

Init ==
  /\ sponge = <<>> /\ instance = NoValue /\ foldWitness = NoValue /\ calls = 0

\* One whole call on the witness w.
Fold(w) ==
  /\ calls < MaxCalls
  /\ sponge' = Transcript(sponge, w) \o [i \in 1 .. 4 |-> Squeezed]
  /\ instance' = [commitments |-> [c \in Cols |-> Commit(w[c])[1]],
                  challenges  |-> [k \in 1 .. 3 |-> Challenge(sponge, w, k)],
                  alphas      |-> Challenge(sponge, w, 4),
                  blinder     |-> 1]
  /\ foldWitness' = w
  /\ calls' = calls + 1

Next == \E w \in [Cols -> Columns] : Fold(w)

Spec == Init /\ [][Next]_<<sponge, instance, foldWitness, calls>>
=============================================================================
