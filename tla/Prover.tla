------------------------------- MODULE Prover -------------------------------
(***************************************************************************)
(* The prover loop around a DecomposedTrace and to_folding_pair.  The loop *)
(* itself is not under src/; it is modelled from spec.md 3, 4.3, 4.4 and  *)
(* 9: each executed step pushes one row to its selector; a selector that  *)
(* becomes full gets its selector columns, is folded on the shared sponge *)
(* and reset; when the program halts, pad_witnesses pads what is left and *)
(* every selector in the circuit is folded the same way.  The operations  *)
(* it calls are those of DecomposedTrace and Folding.                     *)
(***************************************************************************)
EXTENDS DecomposedTrace, SequencesExt

CONSTANTS
  MaxSteps,    \* bound on the program steps executed
  MaxFolds,    \* bound on to_folding_pair calls (MaxSteps \div DomainSize
               \* folds of full selectors, plus one per selector at the end)
  NoSel

ASSUME MaxSteps >= 1 /\ MaxFolds >= 1 /\ NoSel \notin Selectors

VARIABLES
  wit, evals, coms, finished, absorbed, sponge, squeezed, instance,
  foldWitness, calls, pc, spongeAtCall,   \* to_folding_pair (Folding)
  phase,       \* "run" while the program executes, "finish", "done"
  steps,       \* program steps executed so far
  executed,    \* history: steps executed per selector
  pending,     \* history: executed rows held in the selector's current block
  foldedRows,  \* history: executed rows that went into a folded witness
  foldingSel   \* the selector being folded, or NoSel

\* commit_evaluations_non_hiding, binding, two chunks (a domain larger
\* than the SRS).
ColumnCommit(col) == <<[committed |-> col, chunk |-> 1], [committed |-> col, chunk |-> 2]>>

F == INSTANCE Folding
       WITH NCols <- N, Columns <- BoundedSeq(Field, MaxColumnLen),
            Commit <- ColumnCommit, MaxCalls <- MaxFolds, NoValue <- NoSel

traceVars == <<cols, panicked, selectorSet, cap>>
foldVars == <<wit, evals, coms, finished, absorbed, sponge, squeezed, instance,
              foldWitness, calls, pc, spongeAtCall>>
loopVars == <<phase, steps, executed, pending, foldedRows, foldingSel>>
allVars == <<traceVars, foldVars, loopVars>>

Idle == pc = "idle" /\ foldingSel = NoSel

----------------------------------------------------------------------------
\* One program step of selector s: the interpreter emits row and the loop
\* pushes it.  The loop folds a full selector before the next step.
Step(s, row) ==
  /\ phase = "run" /\ steps < MaxSteps /\ Idle
  /\ \A t \in Selectors : ~is_full(t)
  /\ PushRow(s, row)
  /\ steps' = steps + 1
  /\ executed' = [executed EXCEPT ![s] = @ + 1]
  /\ pending' = [pending EXCEPT ![s] =
                   IF Len(cols'[s][0]) > Len(cols[s][0]) THEN @ + 1 ELSE @]
  /\ UNCHANGED <<foldVars, phase, foldedRows, foldingSel>>

\* Selector columns of a full selector, before folding it.
SetSelector(s) ==
  /\ phase \in {"run", "finish"} /\ Idle
  /\ SetSelectorColumn(s)
  /\ UNCHANGED <<foldVars, loopVars>>

\* to_folding_pair(s, fq_sponge, ...) on the selector's whole witness.
StartFold(s) ==
  /\ phase \in {"run", "finish"} /\ Idle
  /\ selectorSet[s]
  /\ F!Call(cols[s])
  /\ foldingSel' = s
  /\ UNCHANGED <<traceVars, phase, steps, executed, pending, foldedRows>>

\* A step inside to_folding_pair.
FoldStep ==
  /\ \/ \E c \in Cols : F!Evaluate(c) \/ F!CommitColumn(c)
     \/ F!Absorb \/ F!Squeeze \/ F!Return
  /\ UNCHANGED <<traceVars, loopVars>>

\* The pair is handed to the accumulation prover and the selector reset.
EndFold ==
  /\ foldingSel # NoSel /\ pc = "idle"
  /\ Reset(foldingSel)
  /\ foldedRows' = [foldedRows EXCEPT ![foldingSel] = @ + pending[foldingSel]]
  /\ pending' = [pending EXCEPT ![foldingSel] = 0]
  /\ foldingSel' = NoSel
  /\ UNCHANGED <<foldVars, phase, steps, executed>>

\* The program halts: pad_witnesses pads every selector in the circuit.
Halt ==
  /\ phase = "run" /\ Idle
  /\ \A t \in Selectors : ~is_full(t)
  /\ pad_witnesses
  /\ phase' = "finish"
  /\ UNCHANGED <<foldVars, steps, executed, pending, foldedRows, foldingSel>>

\* Nothing left in the circuit: the proving pass is over.
Finish ==
  /\ phase = "finish" /\ Idle /\ ~panicked
  /\ \A t \in Selectors : ~in_circuit(t)
  /\ phase' = "done"
  /\ UNCHANGED <<traceVars, foldVars, steps, executed, pending, foldedRows,
                 foldingSel>>

ProverInit ==
  /\ Init
  /\ F!Init
  /\ phase = "run" /\ steps = 0
  /\ executed = [s \in Selectors |-> 0]
  /\ pending = [s \in Selectors |-> 0]
  /\ foldedRows = [s \in Selectors |-> 0]
  /\ foldingSel = NoSel

ProverNext ==
  \/ \E s \in Selectors :
       \/ \E row \in RowsOf(s) : Step(s, row)
       \/ SetSelector(s)
       \/ StartFold(s)
  \/ FoldStep
  \/ EndFold
  \/ Halt
  \/ Finish

\* One thread runs the loop and to_folding_pair's tasks always complete, so
\* whatever step is enabled is eventually taken.
ProverSpec == ProverInit /\ [][ProverNext]_allVars /\ WF_allVars(ProverNext)

----------------------------------------------------------------------------
(* Properties.                                                             *)

\* Liveness: the proving pass ends, and by then every executed row of every
\* selector has gone into a folded witness (none is left unfolded because
\* its selector was never full, and none is lost to a panic).
AllRowsFolded ==
  <>(phase = "done" /\ \A s \in Selectors : foldedRows[s] = executed[s])
=============================================================================
