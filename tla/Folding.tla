------------------------------ MODULE Folding ------------------------------
(***************************************************************************)
(* Foldable::to_folding_pair for DecomposedTrace (o1vm/src/legacy/       *)
(* trace.rs 153-202): turn the N witness columns of one selector into a   *)
(* folding instance and witness, absorbing the commitments into the       *)
(* caller's Fq sponge and squeezing four challenges.                      *)
(*                                                                         *)
(* The two rayon maps (evaluations, then commitments) run their per-      *)
(* column tasks in any order; each map ends with a collect, a barrier.    *)
(* The sponge is kept as the sequence of everything absorbed and squeezed *)
(* into it; a challenge is a value determined by that sequence (a random  *)
(* oracle), so two transcripts give equal challenges only if equal.       *)
(* A commitment is a sequence of chunks, the result of the external       *)
(* commit_evaluations_non_hiding.                                         *)
(***************************************************************************)
EXTENDS Naturals, Sequences, SequencesExt

CONSTANTS
  NCols,       \* N, the number of witness columns
  Columns,     \* the column contents a selector's witness can hold
  Commit(_),   \* commit_evaluations_non_hiding: column -> chunks
  MaxCalls,    \* bound on to_folding_pair calls on one sponge
  NoValue

Cols == 0 .. NCols - 1

ASSUME NCols >= 1 /\ MaxCalls >= 1 /\ NoValue \notin Columns

VARIABLES
  wit,         \* the selector's witness columns, read by the call
  evals,       \* folding_witness.witness, filled per column
  coms,        \* commitments, filled per column
  finished,    \* the order in which the commitment tasks completed
  absorbed,    \* number of commitments absorbed so far
  sponge,      \* fq_sponge: everything absorbed and squeezed, in order
  squeezed,    \* the challenges drawn by this call, in order
  instance,    \* the FoldingInstance returned by the last call
  foldWitness, \* the FoldingWitness returned by the last call
  calls,       \* number of calls made
  pc,          \* "idle" or the step of the call in progress
  spongeAtCall \* history: the sponge when the last call began

vars == <<wit, evals, coms, finished, absorbed, sponge, squeezed, instance,
          foldWitness, calls, pc, spongeAtCall>>

\* fq_sponge.challenge(): the challenge is a function of the transcript,
\* and squeezing is itself recorded in the transcript.
Squeezed == "squeeze"
ChallengeOf(st) == [transcript |-> st]

AllSet(f) == \A c \in Cols : f[c] # NoValue

----------------------------------------------------------------------------
\* The caller invokes to_folding_pair(selector, fq_sponge, ...) on the
\* witness w of the selector.
Call(w) ==
  /\ pc = "idle" /\ calls < MaxCalls
  /\ wit' = w
  /\ evals' = [c \in Cols |-> NoValue]
  /\ coms' = [c \in Cols |-> NoValue]
  /\ finished' = <<>>
  /\ absorbed' = 0
  /\ squeezed' = <<>>
  /\ calls' = calls + 1
  /\ pc' = "evaluate"
  /\ spongeAtCall' = sponge
  /\ UNCHANGED <<sponge, instance, foldWitness>>

\* One task of the first parallel map: Evaluations::from_vec_and_domain
\* wraps the column's values over the domain, unchanged.
Evaluate(c) ==
  /\ pc = "evaluate" /\ evals[c] = NoValue
  /\ evals' = [evals EXCEPT ![c] = wit[c]]
  /\ pc' = IF AllSet(evals') THEN "commit" ELSE pc
  /\ UNCHANGED <<wit, coms, finished, absorbed, sponge, squeezed, instance,
                 foldWitness, calls, spongeAtCall>>

\* One task of the second parallel map: srs.commit_evaluations_non_hiding.
\* The collect into a Witness stores each result at its column index.
CommitColumn(c) ==
  /\ pc = "commit" /\ coms[c] = NoValue
  /\ coms' = [coms EXCEPT ![c] = Commit(evals[c])]
  /\ finished' = Append(finished, c)
  /\ pc' = IF AllSet(coms') THEN "absorb" ELSE pc
  /\ UNCHANGED <<wit, evals, absorbed, sponge, squeezed, instance,
                 foldWitness, calls, spongeAtCall>>

\* Mutant: absorb the commitment of the task that finished absorbed-th.
AbsorbCompletionOrder ==
  /\ pc = "absorb" /\ absorbed < NCols
  /\ sponge' = sponge \o coms[finished[absorbed + 1]]
  /\ absorbed' = absorbed + 1
  /\ pc' = IF absorbed' = NCols THEN "squeeze" ELSE pc
  /\ UNCHANGED <<wit, evals, coms, finished, squeezed, instance,
                 foldWitness, calls, spongeAtCall>>

\* Mutant: only the first chunk of each commitment absorbed.
AbsorbFirstChunk ==
  /\ pc = "absorb" /\ absorbed < NCols
  /\ sponge' = Append(sponge, coms[absorbed][1])
  /\ absorbed' = absorbed + 1
  /\ pc' = IF absorbed' = NCols THEN "squeeze" ELSE pc
  /\ UNCHANGED <<wit, evals, coms, finished, squeezed, instance,
                 foldWitness, calls, spongeAtCall>>

\* for_each(|c| absorb_commitment(fq_sponge, c)) over the collected
\* commitments, in column order; every chunk is absorbed.
Absorb ==
  /\ pc = "absorb" /\ absorbed < NCols
  /\ sponge' = sponge \o coms[absorbed]
  /\ absorbed' = absorbed + 1
  /\ pc' = IF absorbed' = NCols THEN "squeeze" ELSE pc
  /\ UNCHANGED <<wit, evals, coms, finished, squeezed, instance,
                 foldWitness, calls, spongeAtCall>>

\* Mutant: one challenge() call too many before the instance is built.
SqueezeFive ==
  /\ pc = "squeeze" /\ Len(squeezed) < 5
  /\ squeezed' = Append(squeezed, ChallengeOf(sponge))
  /\ sponge' = Append(sponge, Squeezed)
  /\ pc' = IF Len(squeezed') = 5 THEN "return" ELSE pc
  /\ UNCHANGED <<wit, evals, coms, finished, absorbed, instance,
                 foldWitness, calls, spongeAtCall>>

\* Mutant: alpha drawn from a clone of the sponge, which then stays behind.
SqueezeAlphaOnClone ==
  /\ pc = "squeeze" /\ Len(squeezed) < 4
  /\ squeezed' = Append(squeezed, ChallengeOf(sponge))
  /\ sponge' = IF Len(squeezed) = 3 THEN sponge ELSE Append(sponge, Squeezed)
  /\ pc' = IF Len(squeezed') = 4 THEN "return" ELSE pc
  /\ UNCHANGED <<wit, evals, coms, finished, absorbed, instance,
                 foldWitness, calls, spongeAtCall>>

\* beta, gamma, joint_combiner, alpha = fq_sponge.challenge(), in order.
Squeeze ==
  /\ pc = "squeeze" /\ Len(squeezed) < 4
  /\ squeezed' = Append(squeezed, ChallengeOf(sponge))
  /\ sponge' = Append(sponge, Squeezed)
  /\ pc' = IF Len(squeezed') = 4 THEN "return" ELSE pc
  /\ UNCHANGED <<wit, evals, coms, finished, absorbed, instance,
                 foldWitness, calls, spongeAtCall>>

\* The instance keeps the first chunk of each commitment, the challenges
\* [beta, gamma, joint_combiner], Alphas::new(alpha) and blinder one().
Return ==
  /\ pc = "return"
  /\ instance' = [commitments |-> [c \in Cols |-> coms[c][1]],
                  challenges  |-> <<squeezed[1], squeezed[2], squeezed[3]>>,
                  alphas      |-> squeezed[4],
                  blinder     |-> 1]
  /\ foldWitness' = evals
  /\ pc' = "idle"
  /\ UNCHANGED <<wit, evals, coms, finished, absorbed, sponge, squeezed,
                 calls, spongeAtCall>>

Init ==
  /\ wit = [c \in Cols |-> NoValue]
  /\ evals = [c \in Cols |-> NoValue]
  /\ coms = [c \in Cols |-> NoValue]
  /\ finished = <<>>
  /\ absorbed = 0
  /\ sponge = <<>>
  /\ squeezed = <<>>
  /\ instance = NoValue
  /\ foldWitness = NoValue
  /\ calls = 0
  /\ pc = "idle"
  /\ spongeAtCall = <<>>

Next ==
  \/ \E w \in [Cols -> Columns] : Call(w)
  \/ \E c \in Cols : Evaluate(c) \/ CommitColumn(c)
  \/ Absorb
  \/ Squeeze
  \/ Return

Spec == Init /\ [][Next]_vars

----------------------------------------------------------------------------
(* Properties.                                                             *)

\* Type: the call's counters stay within the N columns and four challenges.
TypeOK ==
  /\ pc \in {"idle", "evaluate", "commit", "absorb", "squeeze", "return"}
  /\ absorbed \in 0 .. NCols /\ calls \in 0 .. MaxCalls
  /\ Len(squeezed) <= 4
  /\ finished \in Seq(Cols)

\* The abstract call: the caller sees the sponge of before the call until
\* the call returns, and the call counted once it has returned.
Atomic == INSTANCE FoldingAtomic
            WITH sponge <- IF pc = "idle" THEN sponge ELSE spongeAtCall,
                 calls <- IF pc = "idle" THEN calls ELSE calls - 1

\* Round trip (spec 8): whatever order the parallel tasks finished in, the
\* returned instance carries exactly the challenges the verifier recomputes
\* from the returned witness (beta, gamma, joint_combiner, then alpha), the
\* first chunk of each column's commitment, and the witness is the
\* selector's columns.
RoundTrip ==
  pc = "idle" /\ instance # NoValue =>
    /\ foldWitness = wit
    /\ instance.challenges = [k \in 1 .. 3 |-> Atomic!Challenge(spongeAtCall, foldWitness, k)]
    /\ instance.alphas = Atomic!Challenge(spongeAtCall, foldWitness, 4)
    /\ instance.commitments = [c \in Cols |-> Commit(foldWitness[c])[1]]

\* Refinement: to_folding_pair, with its parallel tasks in any order,
\* behaves to its caller as one atomic call; in particular the sponge the
\* caller continues with holds exactly the absorbed chunks and four
\* squeezes, so the next call's challenges are the right ones.
RefinesAtomic == Atomic!Spec
=============================================================================
