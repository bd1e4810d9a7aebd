-------------------------- MODULE DecomposedTrace --------------------------
(***************************************************************************)
(* The witness of a decomposable circuit: one sub-trace per selector      *)
(* (opcode or Keccak step), all sharing N columns of which the first      *)
(* NRel are relation columns and the last NSel are selector columns.      *)
(* Source: o1vm/src/legacy/trace.rs, structs Trace and DecomposedTrace,   *)
(* the generic Tracer impl for DecomposedTrace and the Keccak / MIPS      *)
(* Tracer and DecomposableTracer impls.                                   *)
(*                                                                         *)
(* Field elements are small naturals: 0 and 1 are the additive and        *)
(* multiplicative identities, the other members of Field stand for       *)
(* witness data.  A relation row is a function RelCols -> Field.          *)
(*                                                                         *)
(* The caller of this API (the prover loop, which is not under src/) is   *)
(* modelled from spec.md: it pushes rows the interpreter produced, pads   *)
(* with zeros only selectors whose constraints vanish at zero, and calls  *)
(* set_selector_column once per selector, after padding, with the row     *)
(* count.  Everything else is what the code does for ANY call.            *)
(***************************************************************************)
EXTENDS Naturals, Sequences, FiniteSets, FiniteSetsExt

CONSTANTS
  Selectors,     \* the selector enumeration (C::Selector)
  NRel,          \* number of relation columns (N_REL)
  NSel,          \* number of selector columns (N - N_REL)
  DomainSize,    \* domain_size, shared by every sub-trace
  Field,         \* field elements the model distinguishes
  RowsOf(_),     \* the relation rows the interpreter can emit for a selector
  DenseIndex(_), \* the selector's position in [0, N_SEL) (spec 3)
  SelIndex(_),   \* usize::from(selector), compared with column indices
  Tracer,        \* which DecomposableTracer impl: "keccak" or "mips"
  ZeroPadSafe,   \* selectors whose constraints vanish on the all-zero row
  Cloning        \* whether the caller goes on with clones of the trace

N == NRel + NSel
Cols == 0 .. N - 1
RelCols == 0 .. NRel - 1
SelCols == NRel .. N - 1

ASSUME /\ NRel >= 1 /\ NSel >= 1 /\ DomainSize >= 1
       /\ {0, 1} \subseteq Field
       /\ \A s \in Selectors : RowsOf(s) \subseteq [RelCols -> Field]
       /\ \A s \in Selectors : DenseIndex(s) \in 0 .. NSel - 1
       /\ Tracer \in {"keccak", "mips"}
       /\ ZeroPadSafe \subseteq Selectors
       /\ Cloning \in BOOLEAN

\* Vec::with_capacity(domain_size): the std allocator gives exactly the
\* requested capacity, and Vec::clear keeps it.
Capacity == DomainSize

VARIABLES
  cols,         \* cols[s][c]: column c of the witness of selector s
  panicked,     \* a panic (failed assert, index out of bounds) ended the run
  selectorSet,  \* caller bookkeeping: set_selector_column done since reset
  cap           \* cap[s][c]: capacity() of relation column c of selector s

vars == <<cols, panicked, selectorSet, cap>>

Copies(x, k) == [i \in 1 .. k |-> x]

\* The capacity after a Vec of capacity cp reaches length len by one
\* extend: unchanged if it fits, else RawVec::grow_amortized's
\* max(2 * cp, len, 4) (4 = MIN_NON_ZERO_CAP for 32-byte field elements).
Grown(cp, len) == IF len <= cp THEN cp ELSE Max({2 * cp, len, 4})

ZeroRow == [c \in RelCols |-> 0]

\* The relation row j of selector s, read across the relation columns.
RowAt(s, j) == [c \in RelCols |-> cols[s][c][j]]

----------------------------------------------------------------------------
(* Bookkeeping of DecomposedTrace (trace.rs 79-100).                       *)

number_of_rows(s) == Len(cols[s][0])

\* Mutant: in_circuit demanding more than one row.
in_circuit_multi(s) == number_of_rows(s) > 1

in_circuit(s) == number_of_rows(s) # 0
is_full(s) == DomainSize = number_of_rows(s)

----------------------------------------------------------------------------
(* The Tracer impl of a single Trace (Keccak 398-440, MIPS 519-563; the   *)
(* two are identical).  Each maps a witness w to the witness it leaves.   *)

\* Mutant: the capacity check written with <= (off by one).
TracePushRowLe(w, cp, row) ==
  [c \in Cols |-> IF c \in RelCols /\ Len(w[c]) <= cp[c]
                    THEN Append(w[c], row[c]) ELSE w[c]]

\* push_row: each relation column grows only while below its capacity()
\* cp[c], which is not domain_size once the Vec was cloned or grown.
TracePushRow(w, cp, row) ==
  [c \in Cols |-> IF c \in RelCols /\ Len(w[c]) < cp[c]
                    THEN Append(w[c], row[c]) ELSE w[c]]

RECURSIVE PushTimes(_, _, _, _)
PushTimes(w, cp, row, k) ==
  IF k = 0 THEN w ELSE PushTimes(TracePushRow(w, cp, row), cp, row, k - 1)

\* assert!(len <= self.domain_size) of pad_with_row and pad_with_zeros.
PadAssertFails(w) == Len(w[0]) > DomainSize

\* pad_with_row: push the row domain_size - len times.
TracePadWithRow(w, cp, row) == PushTimes(w, cp, row, DomainSize - Len(w[0]))

\* Mutant: pad_with_zeros extending with one() instead of zero().
TracePadWithOnes(w) ==
  [c \in Cols |-> w[c] \o Copies(1, DomainSize - Len(w[0]))]

\* pad_with_zeros: extend EVERY column, selector columns included.
TracePadWithZeros(w) ==
  [c \in Cols |-> w[c] \o Copies(0, DomainSize - Len(w[0]))]

\* pad_dummy reads self.witness.cols[i][0] for every relation column.
DummyIndexFails(w) == \E c \in RelCols : Len(w[c]) = 0

\* Mutant: dummy padding with the zero row instead of row 0.
TracePadDummyZeros(w, cp) == TracePadWithRow(w, cp, [c \in RelCols |-> 0])

TracePadDummy(w, cp) == TracePadWithRow(w, cp, [c \in RelCols |-> w[c][1]])

----------------------------------------------------------------------------
(* Operations on the DecomposedTrace.                                      *)

\* Replace the witness of s by w2, its relation columns grown as needed,
\* or panic if the code panics first.
Apply(s, fails, w2) ==
  \/ /\ fails
     /\ panicked' = TRUE
     /\ UNCHANGED <<cols, selectorSet, cap>>
  \/ /\ ~fails
     /\ cols' = [cols EXCEPT ![s] = w2]
     /\ cap' = [cap EXCEPT ![s] = [c \in RelCols |-> Grown(@[c], Len(w2[c]))]]
     /\ UNCHANGED <<panicked, selectorSet>>

\* Tracer::push_row for DecomposedTrace (297-299).
PushRow(s, row) ==
  /\ ~panicked
  /\ cols' = [cols EXCEPT ![s] = TracePushRow(@, cap[s], row)]
  /\ UNCHANGED <<panicked, selectorSet, cap>>

\* Mutant: pad_with_row without the in_circuit check.
PadWithRowNoCheck(s, row) ==
  /\ ~panicked
  /\ Apply(s, PadAssertFails(cols[s]), TracePadWithRow(cols[s], cap[s], row))

\* Tracer::pad_with_row for DecomposedTrace (301-308): non-empty only.
PadWithRow(s, row) ==
  /\ ~panicked
  /\ in_circuit(s)
  /\ Apply(s, PadAssertFails(cols[s]), TracePadWithRow(cols[s], cap[s], row))

\* Tracer::pad_with_zeros for DecomposedTrace (310-317).
PadWithZeros(s) ==
  /\ ~panicked
  /\ s \in ZeroPadSafe
  /\ in_circuit(s)
  /\ Apply(s, PadAssertFails(cols[s]), TracePadWithZeros(cols[s]))

\* Tracer::pad_dummy for DecomposedTrace (319-326).
PadDummy(s) ==
  /\ ~panicked
  /\ in_circuit(s)
  /\ Apply(s, DummyIndexFails(cols[s]) \/ PadAssertFails(cols[s]),
           TracePadDummy(cols[s], cap[s]))

\* DecomposableTracer::pad_witnesses.  Keccak (367-373) pads the selectors
\* in the circuit; MIPS (483-487) calls Trace::pad_dummy on every selector.
Padded(s) == IF in_circuit(s) THEN TracePadDummy(cols[s], cap[s]) ELSE cols[s]

\* Mutant: Keccak's pad_witnesses without its in_circuit check.
PadWitnessesFailsNoCheck ==
  \E s \in Selectors :
    DummyIndexFails(cols[s]) \/ PadAssertFails(cols[s])

PadWitnessesFails ==
  \E s \in Selectors :
    /\ Tracer = "mips" \/ in_circuit(s)
    /\ DummyIndexFails(cols[s]) \/ PadAssertFails(cols[s])

pad_witnesses ==
  /\ ~panicked
  /\ \/ /\ PadWitnessesFails
        /\ panicked' = TRUE
        /\ UNCHANGED <<cols, selectorSet, cap>>
     \/ /\ ~PadWitnessesFails
        /\ cols' = [s \in Selectors |-> Padded(s)]
        /\ UNCHANGED <<panicked, selectorSet, cap>>

\* Mutant: reset clearing the relation columns only.
ResetRelationOnly(s) ==
  /\ ~panicked
  /\ cols' = [cols EXCEPT ![s] = [c \in Cols |-> IF c \in RelCols THEN <<>> ELSE @[c]]]
  /\ selectorSet' = [selectorSet EXCEPT ![s] = FALSE]
  /\ UNCHANGED <<panicked, cap>>

\* reset (96-100): clear every column of s; Vec::clear keeps the capacity.
Reset(s) ==
  /\ ~panicked
  /\ cols' = [cols EXCEPT ![s] = [c \in Cols |-> <<>>]]
  /\ selectorSet' = [selectorSet EXCEPT ![s] = FALSE]
  /\ UNCHANGED <<panicked, cap>>

\* Mutant: the selector-column range stopping one column short (N_REL..N-1).
SetSelectorColumnShort(s) ==
  /\ ~panicked
  /\ is_full(s) /\ ~selectorSet[s]
  /\ LET k == number_of_rows(s) IN
       cols' = [cols EXCEPT ![s] =
                  [c \in Cols |->
                     IF c \in NRel .. N - 2
                       THEN @[c] \o Copies(IF c = SelIndex(s) THEN 1 ELSE 0, k)
                       ELSE @[c]]]
  /\ selectorSet' = [selectorSet EXCEPT ![s] = TRUE]
  /\ UNCHANGED <<panicked, cap>>

\* set_selector_column (103-117): for i in N_REL..N, append ones when
\* i == usize::from(selector), zeros otherwise.  The caller calls it once,
\* on a full sub-trace, with number_of_rows(s).
SetSelectorColumn(s) ==
  /\ ~panicked
  /\ is_full(s) /\ ~selectorSet[s]
  /\ LET k == number_of_rows(s) IN
       cols' = [cols EXCEPT ![s] =
                  [c \in Cols |->
                     IF c \in SelCols
                       THEN @[c] \o Copies(IF c = SelIndex(s) THEN 1 ELSE 0, k)
                       ELSE @[c]]]
  /\ selectorSet' = [selectorSet EXCEPT ![s] = TRUE]
  /\ UNCHANGED <<panicked, cap>>

\* #[derive(Clone)] on DecomposedTrace and Trace: the caller goes on with a
\* clone, whose Vecs (<[T]>::to_vec) have capacity equal to their length.
Clone ==
  /\ Cloning /\ ~panicked
  /\ cap' = [s \in Selectors |-> [c \in RelCols |-> Len(cols[s][c])]]
  /\ UNCHANGED <<cols, panicked, selectorSet>>

----------------------------------------------------------------------------
\* DecomposableTracer::new (Keccak 354-365, MIPS 467-481): every selector
\* starts with empty columns of capacity domain_size.
Init ==
  /\ cols = [s \in Selectors |-> [c \in Cols |-> <<>>]]
  /\ panicked = FALSE
  /\ selectorSet = [s \in Selectors |-> FALSE]
  /\ cap = [s \in Selectors |-> [c \in RelCols |-> Capacity]]

Next ==
  \/ \E s \in Selectors :
       \/ \E row \in RowsOf(s) : PushRow(s, row) \/ PadWithRow(s, row)
       \/ PadWithZeros(s)
       \/ PadDummy(s)
       \/ SetSelectorColumn(s)
       \/ Reset(s)
  \/ pad_witnesses
  \/ Clone

Spec == Init /\ [][Next]_vars

----------------------------------------------------------------------------
(* Properties.                                                             *)

\* The longest a column can get: a selector column holds at most
\* domain_size - 1 zeros from pad_with_zeros and domain_size entries from
\* set_selector_column; relation columns stop at domain_size.
MaxColumnLen == 2 * DomainSize - 1

\* Type: every column is a sequence of field elements no longer than
\* MaxColumnLen, which a reset that left selector columns behind exceeds.
TypeOK ==
  /\ \A s \in Selectors, c \in Cols :
       cols[s][c] \in Seq(Field) /\ Len(cols[s][c]) <= MaxColumnLen
  /\ DOMAIN cols = Selectors
  /\ panicked \in BOOLEAN
  /\ selectorSet \in [Selectors -> BOOLEAN]
  /\ cap \in [Selectors -> [RelCols -> Nat]]

\* The relation columns of every sub-trace have one common length, never
\* above domain_size: push_row checks each column against its own capacity,
\* pad_with_zeros extends by a length read from column 0 only, and
\* number_of_rows/in_circuit/is_full all trust column 0.
RelationRectangular ==
  \A s \in Selectors, c \in RelCols :
    /\ Len(cols[s][c]) = number_of_rows(s)
    /\ number_of_rows(s) <= DomainSize

\* Padding never adds a row that violates the selector's constraints: every
\* relation row of a sub-trace is a row the interpreter produced for that
\* selector, or the zero row where the constraints vanish at zero.  This is
\* what pad_dummy (copying row 0) is for.
ValidRows(s) == RowsOf(s) \cup (IF s \in ZeroPadSafe THEN {ZeroRow} ELSE {})

RowsSatisfiable ==
  \A s \in Selectors :
    \A j \in 1 .. number_of_rows(s) : RowAt(s, j) \in ValidRows(s)

\* No sequence of calls makes the padding code panic: the in_circuit check
\* keeps pad_dummy from reading row 0 of an empty sub-trace, and the
\* capacity check keeps the length under the assert of pad_with_row.
NoPanic == ~panicked

\* A sub-trace that is full and has had its selector columns set is ready to
\* fold: all N columns hold exactly domain_size rows, and on every row the
\* selector column of s (column N_REL + its index, spec 4.2) is one and every
\* other selector column zero.
FoldReady ==
  \A s \in Selectors :
    is_full(s) /\ selectorSet[s] =>
      \A c \in Cols :
        /\ Len(cols[s][c]) = DomainSize
        /\ c \in SelCols =>
             \A j \in 1 .. DomainSize :
               cols[s][c][j] = IF c = NRel + DenseIndex(s) THEN 1 ELSE 0

\* push_row as spec 4.1 states it: in every reachable state, a row pushed
\* on a sub-trace below domain_size would be appended to every relation
\* column.  The code checks capacity() instead, which equals domain_size
\* only while the Vecs are the ones new allocated, neither cloned nor grown
\* (a dropped push leaves the state as it was, so no step shows it).
PushRowAppends ==
  \A s \in Selectors : \A row \in RowsOf(s) :
    number_of_rows(s) < DomainSize =>
      \A c \in RelCols : TracePushRow(cols[s], cap[s], row)[c] = Append(cols[s][c], row[c])

\* The row bookkeeping as an abstract counter per selector.
Abstract == INSTANCE SubTraceCounter
              WITH rows <- [s \in Selectors |-> number_of_rows(s)]

\* Refinement: seen through number_of_rows, every call is a push that adds
\* at most one row and only below domain_size, a padding that takes a
\* non-empty sub-trace to exactly domain_size (an empty one stays out of
\* the circuit), or a reset to zero; nothing else moves the row count.
RefinesCounter == Abstract!Spec
=============================================================================
