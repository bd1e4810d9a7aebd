# TLA+ models of the decomposable trace builder and folding converter

This directory holds TLA+ models of the witness-trace code of `o1vm`
(`src/o1vm/src/legacy/trace.rs`) and of its neighbours in this repository
(the saffron storage proof, the RISC-V test encoders), with the TLC
configurations that check them. `PROJECT.json` lists every component, every
run, the mutant that shows each checked property can fail, the source lines
each definition models, the findings and the hazards.

## 1. Inventory

### Components

| Component | Source | State | Operations |
|---|---|---|---|
| Sub-trace (`Trace<N, C>`) | trace.rs 27-39 | `domain_size`, `witness` (N columns, `Vec` of capacity `domain_size`), `constraints`, `lookups` | `init`, `push_row`, `pad_with_row`, `pad_with_zeros`, `pad_dummy` (Keccak impl 376-441, MIPS impl 490-564, identical apart from `init`) |
| Decomposed trace (`DecomposedTrace<N, C>`) | trace.rs 41-118 | `BTreeMap<Selector, Trace>`, shared `domain_size` | `number_of_rows`, `in_circuit`, `is_full`, `reset`, `set_selector_column`; the generic `Tracer` impl (284-327) that delegates to the sub-trace after an `in_circuit` check |
| Trace-building protocol (`DecomposableTracer`) | trace.rs 262-278, 353-374, 466-488 | as above | `new` (one `init` per selector), `pad_witnesses` (Keccak: pads selectors in the circuit; MIPS: pads every selector) |
| Folding converter (`Foldable`) | trace.rs 120-219 | reads a sub-trace; mutates the caller's Fq sponge | `to_folding_pair`: parallel evaluation and commitment of the N columns, ordered absorption, four squeezes (beta, gamma, joint_combiner, alpha); `folding_constraints` |
| Storage proof (saffron) | storage_proof.rs 42-174 | none kept; sponges local to a call | `prove` (Horner combination of chunks, evaluation point, sponge snapshot, opening), `verify_wrt_combined_data_commitment`, `verify` |
| RISC-V test encoders | riscv32im/tests.rs | none | `generate_random_*_instruction` (R-type bit packing into 4 little-endian bytes), decoding tests |
| kimchi lazy-cache benchmark | kimchi/tests/lazy_cache.rs | none of its own | builds an XOR circuit, proves it twice |

External collaborators (spec 6, not under `src/`): the per-opcode
interpreters, the polynomial commitment scheme, the Fiat-Shamir sponge, and
the prover loop that drives the trace builder.

### Interaction

The prover loop (not under `src/`) creates a `DecomposedTrace` with `new`,
then for each executed step calls `push_row` on the step's selector. When a
selector is full it sets the selector columns, calls `to_folding_pair` with
the shared sponge and resets the selector; at the end it pads
(`pad_witnesses`), sets selector columns and folds what is left. All calls
are synchronous on one thread; the only concurrency is the rayon parallel map
inside `to_folding_pair` (and inside the storage-proof Horner loop), whose
results are collected in index order before the sequential absorption.

### What is hard

* Call order: padding, `set_selector_column`, folding and `reset` must happen
  in one order; the code checks none of it (no state machine, no errors).
* Silent clamping: `push_row` drops rows past the capacity, and its budget
  is the `Vec`'s `capacity()`, not `domain_size`: the two differ after a
  clone (both structs derive `Clone`) or after an `extend` grew the `Vec`.
* Panics on edge cases: `pad_dummy` indexes row 0; `pad_with_row` asserts
  `len <= domain_size`; `prove` subtracts 1 from `len / SRS_SIZE`.
* Index arithmetic between selectors and columns in `set_selector_column`.
* Ordering of parallel results before the order-sensitive absorption, and
  the fixed squeeze order.

### What makes each component correct

* Decomposed trace: relation columns of a sub-trace always share one length
  at most `domain_size`; every row satisfies the selector's constraints after
  padding; no call sequence panics; once padded and given selector columns a
  sub-trace has N columns of `domain_size` rows with one-hot selector
  columns; `reset` leaves nothing behind.
* Protocol: every row of every selector that was executed is eventually
  folded, across resets and refills of the same selector.
* Folding: the instance's challenges are those a verifier recomputes from
  the witness columns absorbed in column order, whatever order the parallel
  commitments finish in.
* Storage proof: the Horner combination equals the power sum
  `sum_j chal^j data[j*S + i]`; prover and verifier draw the same evaluation
  point from the same snapshot.

## 2. Plan

Modules, in the order they are (to be) written:

1. `DecomposedTrace` (done): the sub-trace and decomposed-trace operations,
   both `pad_witnesses` impls, with the caller's obligations from the spec.
   `MCDecomposedTrace` instantiates it.
2. `Folding` (done): `to_folding_pair` with per-column parallel steps, an
   abstract sponge, and a sequential reference transcript as the verifier.
3. `SubTraceCounter` + refinement (done): an abstract per-selector row counter
   (`push` increments below capacity, `pad` jumps to `domain_size`, `reset`
   to 0) that `DecomposedTrace` implements under `rows = number_of_rows`.
4. `Prover` (done): composes `DecomposedTrace` and `Folding` with a spec-modelled
   prover loop; checks (under weak fairness of the loop) that every
   executed row is eventually folded.
5. `StorageProof` (done): Horner combination as a RECURSIVE operator checked against
   the power-sum reference over small moduli; prover/verifier sponge
   snapshots; the `final_chunk` underflow with `% 2^w` arithmetic.
6. `RiscvEncoding` (done): the test encoders as bit-packing operators, checked
   against field extraction (opcode, rd, funct3, rs1, rs2, funct7).

7. `FoldingAtomic` + refinement (done): `to_folding_pair` as one atomic call,
   which `Folding` (parallel tasks, barriers, ordered absorption) implements;
   commitments of two chunks in `MCFolding`.
8. `Vec` capacity in `DecomposedTrace` (done): `cap[s][c]`, `Clone`, growth
   on `extend`; `push_row` checked against spec 4.1.

Left for later work: the prover loop over the MIPS tracer (its
`pad_witnesses` panics, shown so far on `DecomposedTrace` alone); the
return values of the pad operations (no caller in `src/` reads them).

## 3. Modules and runs

### DecomposedTrace (`DecomposedTrace.tla`, `MCDecomposedTrace.tla`)

State: `cols[s][c]`, the column `c` of selector `s` as a sequence of field
elements (0 and 1 are the identities, 2 and 3 stand for witness data);
`panicked`, set when the code would panic (failed assert, index out of
bounds), after which nothing runs; `selectorSet`, the caller's record that it
already called `set_selector_column` since the last reset; `cap[s][c]`, the
`capacity()` of relation column `c`, which `push_row` compares the length
with. `new` allocates `Vec::with_capacity(domain_size)`; `Vec::clear` (in
`reset`) keeps the capacity; an `extend` past it (only `pad_with_zeros` can)
grows it to `max(2 * cap, len, 4)` (`Grown`, `RawVec::grow_amortized` with
the minimum capacity 4 for 32-byte elements). Selector-column capacities
are not modelled: nothing reads them.

Actions: `PushRow`, `PadWithRow`, `PadWithZeros`, `PadDummy` (the generic
`Tracer` impl for `DecomposedTrace`, each composed with the sub-trace impl it
delegates to: `TracePushRow`, `TracePadWithRow` as a RECURSIVE repetition of
`push_row`, `TracePadWithZeros`, `TracePadDummy`), `pad_witnesses` (Keccak or
MIPS by the constant `Tracer`), `Reset`, `SetSelectorColumn`, and `Clone`:
the caller continues with `trace.clone()` (`#[derive(Clone)]`, trace.rs 33
and 49), whose `Vec`s have capacity equal to their length; the constant
`Cloning` says whether the caller does this. Inputs: rows
from `RowsOf(s)`, the rows the interpreter emits for `s`.

Caller obligations taken from spec.md (the prover loop is not under `src/`):
`pad_with_zeros` only on selectors in `ZeroPadSafe` (constraints vanish at
zero); `set_selector_column(s, number_of_rows(s))` once, on a full sub-trace.

Bounds: 2 selectors, 2 relation and 2 selector columns, `domain_size` 3 (a
sub-trace can be empty, partly filled, full), two data rows for one selector
so that `pad_dummy` copying row 0 differs from copying a later row. Every
column is bounded by the code itself (capacity, padding to `domain_size`),
so no state constraint is needed.

| Run | Expect | Checks | Shows |
|---|---|---|---|
| `trace_keccak` | pass | TypeOK, RelationRectangular, RowsSatisfiable, NoPanic, FoldReady | The production path (dummy padding, Keccak `pad_witnesses`) keeps every invariant for any call order, clones included: without `pad_with_zeros` nothing grows a `Vec`, so a clone can only lose rows, never exceed `domain_size`. |
| `trace_zero` | pass | RelationRectangular, RowsSatisfiable, NoPanic, RefinesCounter | `pad_with_zeros` on zero-safe selectors keeps the relation invariants (padding with ones is caught), its assert never fails, and the row counts implement `SubTraceCounter` (a `pad_with_row` without its `in_circuit` check is caught). |
| `trace_clone` | violation | PushRowAppends | After a clone, `push_row` on a sub-trace below `domain_size` stores nothing (trace.rs:404); TLC's trace is `Clone` on the fresh trace. |
| `trace_clone_overflow` | violation | RelationRectangular | Push two rows, clone (capacity 2), `pad_with_zeros` (capacity grows to max(2*2, 3, 4) = 4), push: the sub-trace holds 4 rows with `domain_size` 3. |
| `trace_mips_panic` | violation | NoPanic | MIPS `pad_witnesses` panics as soon as one instruction was never executed (trace.rs:485). |
| `trace_zero_selector` | violation | FoldReady | `pad_with_zeros` writes zeros into the selector columns (trace.rs:430), so after `set_selector_column` they are too long and zero-hot. |
| `trace_dense_index` | violation | FoldReady | With the spec's dense `usize::from(selector)`, `set_selector_column` never writes a one (trace.rs:109). |

`SelIndex` is `usize::from(selector)`, which the code compares with column
indices; the passing runs give it the offset form (`N_REL + index`) the
comparison requires, and `trace_dense_index` the dense form of spec 3.

No fairness: the runs check safety only.

### SubTraceCounter and the refinement (`SubTraceCounter.tla`)

The abstract promise of the row bookkeeping: one counter per selector in
`0 .. domain_size`; `Push` adds one below capacity (a row past it is
dropped), `Pad` takes a non-empty counter to `domain_size`, `PadAll` does so
for every non-empty one, `Clear` empties one. `DecomposedTrace` defines
`Abstract == INSTANCE SubTraceCounter WITH rows <- [s |-> number_of_rows(s)]`
and the run `trace_zero` checks `RefinesCounter == Abstract!Spec` as a
PROPERTY: every step of the detailed model (including the panics, which stop
it, and `set_selector_column`, which only touches selector columns) is a
step of the counter or a stutter. The mutant `PadWithRowNoCheck` (padding an
empty sub-trace) breaks it.

### Folding (`Folding.tla`, `MCFolding.tla`, `Folding.cfg`)

`to_folding_pair` (trace.rs 153-202) as a call with internal steps: `Call(w)`
takes the selector's witness and snapshots the sponge; `Evaluate(c)` and
`CommitColumn(c)` are the tasks of the two rayon maps, one per column, in
any order, with the `collect` of each map as a barrier (`pc` moves on when
every column is done; `finished` records completion order); `Absorb` absorbs
the collected commitments in column order, every chunk; `Squeeze` draws
beta, gamma, joint_combiner, alpha; `Return` builds the instance from first
chunks, the three challenges, `Alphas::new(alpha)` and blinder one. The
sponge is its transcript, and a challenge is the record of the transcript it
was squeezed from (a random oracle: equal only for equal transcripts);
`Commit` is an injective constant giving two chunks per column
(`MCCommit`), the case of a domain larger than the SRS, where the instance
keeps less than the sponge absorbed.

`FoldingAtomic.tla` is what the call promises: one step `Fold(w)` that
absorbs every chunk of every column's commitment in column order
(`Transcript`), squeezes four challenges (`Challenge`) and returns the
instance and witness. `Folding` maps onto it as the barriers example of the
TLA+ examples maps a multi-step barrier onto an atomic one: while a call is
in progress the abstract sponge is the one at the call (`spongeAtCall`) and
the call is not yet counted; `Return` is the abstract step. `RefinesAtomic`
checks `Atomic!Spec`; it fails if the last challenge is drawn from a clone
of the sponge (`SqueezeAlphaOnClone`: the next call's transcript misses a
squeeze), which `RoundTrip` alone does not see.

`RoundTrip` compares the instance with the sequential verifier of
`FoldingAtomic` (`Challenge`): from the sponge at the call, absorb the
commitments of the returned witness in column order and squeeze. Bounds: 3
columns (so completion orders genuinely differ from column order), 2 column
contents, 2 calls on the same sponge (the second call starts from a non-empty
transcript). `CHECK_DEADLOCK FALSE`: after `MaxCalls` calls nothing is left
to do. 5113 distinct states.

No fairness: the run checks safety and refinement only. That a call
returns holds by the shape of the steps (each enables the next, and the
collects are rayon's) and is not checked.

| Run | Expect | Checks | Shows |
|---|---|---|---|
| `folding` | pass | TypeOK, RoundTrip, RefinesAtomic | Whatever order the parallel commitments complete in, the challenges are those the verifier recomputes and the call refines the atomic one; absorbing in completion order or only first chunks (mutants) breaks `RoundTrip`, a squeeze on a clone breaks `RefinesAtomic`, a fifth squeeze `TypeOK`. |

### Prover (`Prover.tla`, `MCProver.tla`, `Prover.cfg`)

The prover loop is not under `src/`; it is modelled from spec 3, 4.3, 4.4
and 9 (its definitions are marked `spec_modelled` in `PROJECT.json`) and
composes the code's operations: `Prover` EXTENDS `DecomposedTrace` and
instantiates `Folding` with `NCols <- N` and the selector's columns as
witness. `Step(s, row)` runs `PushRow` while no selector is full;
`SetSelector`, `StartFold`, `FoldStep` (the internal Folding steps) and
`EndFold` (`Reset` of the folded selector) fold a full selector; `Halt` runs
`pad_witnesses`; the selectors still in the circuit are then folded the same
way and `Finish` ends the pass. History variables count rows executed,
pending in the current block and folded.

Bounds: `domain_size` 2, five steps, five folds: enough for a selector to
fill, be folded and reset twice, then be refilled partly and padded at the
end (a third fold of the same selector, each on the sponge the previous one
left), and for the other selector to be folded only at the end. A column
commits to two chunks, as in `MCFolding`. Fairness: weak fairness on the whole next-state relation.
The loop runs on one thread and the rayon tasks always complete, so any
enabled step is eventually taken; no step of the loop waits on anything
outside it. `CHECK_DEADLOCK FALSE`: the pass terminates in `done` by design.
87668 distinct states.

| Run | Expect | Checks | Shows |
|---|---|---|---|
| `prover` | pass | AllRowsFolded | Through halt, Keccak `pad_witnesses`, selector columns, folds and resets across refills, every executed row is eventually folded (an `in_circuit` that ignores one-row selectors leaves rows unproved). |

### StorageProof (`StorageProof.tla`, `MCStorageProof.tla`)

`prove`, `verify_wrt_combined_data_commitment` and `verify`
(storage_proof.rs 42-174), driven as the module's two tests drive them:
`Setup(d, chal)` commits to the blob chunk by chunk and draws any challenge
(206-221); `Prove` is the whole of `prove` (final chunk, assert, the reversed
Horner loop over chunks, the curve sponge absorbing the aggregated commitment
and squeezing the point, the interpolated evaluation, the snapshot, `open`),
or a panic; `TamperEval` and `TamperOpening` are the tests' malformed proofs
(257-262, 274-281), kept so that the verifiers run on them, though their
rejection is not checked (see Not modelled); `VerifyWrt` and `Verify` are
the two verifiers.

Abstractions: scalars mod 5, a domain of two points (the square roots of 1
mod 5), so interpolation and evaluation are real Lagrange arithmetic; a
commitment is the vector it commits to (binding and additively homomorphic,
which is what the aggregation relies on); the curve sponge is its transcript
and `squeeze` a fixed function of it; `srs.open` returns the record of the
polynomial, point and sponge it was made for, and `srs.verify` accepts it
only against the same commitment, point, sponge and evaluation (spec-level
stand-ins for the external IPA). `final_chunk` is computed in 3-bit `usize`
arithmetic, and `prove` is run by a debug or a release build, chosen
nondeterministically: the underflow panics in debug and wraps in release.
The `scalar_sponge` (86-91, 135-140) absorbs and is dropped; it is left out.

Bounds: every blob of 0, 1 or 2 chunks over F_5 (651 blobs), the 64 blobs
of three chunks over {0, 1}, and every challenge (25001 distinct states).
Two chunks are the least for which a loop starting from chunk 0 differs from
the code; three are the least for which the loop order of
`(0..final_chunk).rev()` matters, so a loop that starts from the final chunk
but drops `.rev()` is caught only by the three-chunk blobs.
`CHECK_DEADLOCK FALSE`: a test ends after verifying or after a panic.

| Run | Expect | Checks | Shows |
|---|---|---|---|
| `storage_proof` | pass | HornerIsPowerSum, Completeness | The reversed Horner loop is the power sum the aggregated commitment opens to (a loop from chunk 0, and a loop from the final chunk without `.rev()`, are caught); honest proofs verify (a prover snapshot taken before the squeeze is caught). |
| `storage_empty` | violation | ProveTotalOnAssertedBlobs | An empty blob passes the assert at line 54, but line 53 has already underflowed: a panic in debug; in release the wrapped `final_chunk` makes the slice at line 65 start after its end. |

### RiscvEncoding (`RiscvEncoding.tla`)

The eleven R-type generators of riscv32im/tests.rs (57-308) as one table of
funct values plus the shared packing `EncodeR` and byte split `ToLEBytes`;
`TestDecoding` is a decoding test on a fresh `dummy_env` (write the four
bytes into page 0, decode). `decode_instruction` and `bitmask` are outside
`src/`; they are modelled from the RV32IM R-type layout, reading the word
bit by bit from the little-endian bytes, with `bitmask`'s upper bound
excluded as `test_witness_bitmask_bounds` states. Registers are 0, 31 and
each single-bit value, so each register bit is exercised on its own and all
together; each test runs once on its own environment
(`CHECK_DEADLOCK FALSE`).

| Run | Expect | Checks | Shows |
|---|---|---|---|
| `riscv_encoding` | pass | DecodesAsGenerated, RegistersRoundTrip | Every generator's bytes decode to its instruction and give back the drawn registers; `rs2 << 21` (register overlap) and a wrong `sra` funct5 are each caught. |

## 4. Not modelled

* Constraints, lookups and `folding_constraints`: immutable per-selector data
  computed once by the external interpreter; no property tells them apart.
* Field arithmetic, polynomial evaluation, commitments and the sponge hash:
  external; modelled as injective abstract values (`Commit`, `ChallengeOf`).
* The kimchi lazy-cache benchmark: drives the external prover only.
* `folding_constraints`: a getter over the immutable constraints.
* The `usize` returned by the pad operations: no caller under `src/` reads
  it.
* `test_regression_selectors_for_instructions`: counts constraints built by
  the external constraint environment.
* Registers 0..31 exhaustively: 11 x 32^3 tests exceed the run budget; the
  single-bit values cover every bit position of every register field.
* Sequences of storage proofs over one SRS: each proof builds its own
  sponge and reads only the immutable SRS, so no state carries between them.
* Blobs of three chunks over all of F_5 (15625 blobs times every challenge):
  beyond the run budget; the 0/1 blobs already tell both wrong loop orders
  from the code.
* Soundness of the storage proof (`test_storage_soundness`): a tampered
  proof is rejected by the external IPA behind `srs.verify`, whose stand-in
  here rejects a changed evaluation or `z1` by its definition; a property
  about it would check the stand-in, not the code.
* Termination of `to_folding_pair`: each internal step enables the next and
  the collects are rayon's, so a call returns by the shape of the steps; no
  code of this repository could break it.
* Type invariants whose conjuncts hold by a reduction in the definitions
  (`% P` in StorageProof, `as u8` in the RISC-V byte split): they are not
  checked; `DecomposedTrace` and `Folding` keep one each.
