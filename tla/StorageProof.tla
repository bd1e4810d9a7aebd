---------------------------- MODULE StorageProof ----------------------------
(***************************************************************************)
(* The saffron storage proof (src/saffron/src/storage_proof.rs): prove,   *)
(* verify_wrt_combined_data_commitment and verify, driven the way the     *)
(* module's tests drive them (commit, prove, verify, tamper, verify).     *)
(*                                                                         *)
(* Scalars are integers mod a small prime P.  A commitment is kept as the *)
(* evaluations it commits to (a binding, additively homomorphic           *)
(* commitment), so aggregating commitments is the same power sum on       *)
(* vectors.  The curve sponge is its transcript; squeeze gives the scalar *)
(* PointOf(transcript).  An IPA opening is the record of what it was made *)
(* for: polynomial, point and the sponge it was bound to.                 *)
(***************************************************************************)
EXTENDS Naturals, Sequences, SequencesExt, Functions

CONSTANTS
  P,           \* the scalar field's modulus
  SRS_SIZE,    \* size of the evaluation domain, one chunk per commitment
  Omega,       \* generator of the SRS_SIZE-th roots of unity mod P
  Width,       \* bits of usize
  Blobs,       \* the blob.data values the tests produce
  PointOf(_),  \* curve_sponge.squeeze(2): transcript -> scalar
  NoProof

Field == 0 .. P - 1
Word == 2 ^ Width
Idx == 1 .. SRS_SIZE

ASSUME /\ P > 2 /\ SRS_SIZE >= 1 /\ Width >= 1
       /\ (Omega ^ SRS_SIZE) % P = 1
       /\ \A d \in Blobs : d \in Seq(Field)

VARIABLES
  data,        \* blob.data
  coms,        \* blob.commitments, one per chunk
  challenge,   \* the challenge combine_commitments drew
  combined,    \* the combined_data_commitment the test holds
  proof,       \* the StorageProof being checked, or NoProof
  verdict,     \* the last verifier result
  tampered,    \* history: the proof was malformed by the test
  panicked,    \* prove panicked
  phase        \* "start", "committed", "proved", "verified"

vars == <<data, coms, challenge, combined, proof, verdict, tampered, panicked, phase>>

\* a^k in the field (a^0 = 1 for every a, zero included).
PowMod(a, k) == IF k = 0 THEN 1 ELSE (a ^ k) % P

\* The chunks of SRS_SIZE elements of a blob.
Chunk(d, j) == SubSeq(d, j * SRS_SIZE + 1, (j + 1) * SRS_SIZE)
Chunks(d) == [j \in 1 .. Len(d) \div SRS_SIZE |-> Chunk(d, j - 1)]

\* commit_to_field_elems on encode_for_domain: one commitment per chunk.
CommitToFieldElems(d) == Chunks(d)

\* utils::aggregate_commitments (and the test's combine_commitments):
\* sum_j challenge^j com_j, the first chunk taking power 0.
AggregateCommitments(chal, cs) ==
  [i \in Idx |-> SumFunction([j \in DOMAIN cs |-> PowMod(chal, j - 1) * cs[j][i]]) % P]

\* final_chunk = len / SRS_SIZE - 1 in usize arithmetic: wraps in release.
FinalChunk(len) == (len \div SRS_SIZE + Word - 1) % Word

\* The panics of prove before any proof is made, per build.  Debug: the
\* subtraction at line 53 overflows, the assert fails, or a multiplication
\* of the slice bounds overflows.  Release: the assert fails, or the
\* wrapped slice bounds are out of order or out of range.
ProvePanics(len, build) ==
  LET fc == FinalChunk(len)
      lo == (fc * SRS_SIZE) % Word
      hi == ((fc + 1) * SRS_SIZE) % Word
  IN IF build = "debug"
       THEN \/ len \div SRS_SIZE = 0
            \/ len % SRS_SIZE # 0
            \/ (fc + 1) * SRS_SIZE >= Word
       ELSE \/ len % SRS_SIZE # 0
            \/ lo > hi \/ hi > len

\* One Horner step over chunk k: acc = acc * challenge + chunk_k.
HornerStep(d, chal, acc, k) ==
  [i \in Idx |-> (acc[i] * chal + d[k * SRS_SIZE + i]) % P]

\* (0..final_chunk).rev() applied to the accumulator.
RECURSIVE HornerFrom(_, _, _, _)
HornerFrom(d, chal, acc, k) ==
  IF k < 0 THEN acc ELSE HornerFrom(d, chal, HornerStep(d, chal, acc, k), k - 1)

\* Helper of the mutant below: the chunks visited upwards.
RECURSIVE HornerUp(_, _, _, _, _)
HornerUp(d, chal, acc, k, last) ==
  IF k > last THEN acc ELSE HornerUp(d, chal, HornerStep(d, chal, acc, k), k + 1, last)

\* Mutant: the loop without .rev(), starting from the first chunk.
CombinedDataForward(d, chal, fc) ==
  HornerUp(d, chal, Chunk(d, 0), 1, fc)

\* Mutant: the final chunk as the start, but the loop without .rev() (the
\* same as the code for fewer than three chunks).
CombinedDataNoRev(d, chal, fc) == HornerUp(d, chal, Chunk(d, fc), 0, fc - 1)

\* combined_data: start from the final chunk, fold the earlier ones in.
CombinedData(d, chal, fc) == HornerFrom(d, chal, Chunk(d, fc), fc - 1)

\* Evaluations::from_vec_and_domain(v, domain).interpolate().evaluate(x):
\* Lagrange interpolation over the powers of Omega, mod P.
MulMod(a, b) == (a * b) % P
Inv(a) == PowMod(a, P - 2)
DomainPt(i) == PowMod(Omega, i - 1)
Lagrange(i, x) ==
  LET others == Idx \ {i}
      num == FoldFunctionOnSet(MulMod, 1, [j \in Idx |-> (x + P - DomainPt(j)) % P], others)
      den == FoldFunctionOnSet(MulMod, 1, [j \in Idx |-> (DomainPt(i) + P - DomainPt(j)) % P], others)
  IN MulMod(num, Inv(den))
Evaluate(v, x) == SumFunction([i \in Idx |-> v[i] * Lagrange(i, x)]) % P

Squeezed == "squeeze"

\* Mutant: the prover clones its sponge before squeezing the point.
ProverSnapshotEarly(c) == <<c>>

\* curve_sponge_before_evaluations in prove: absorb_g the combined
\* commitment, squeeze the evaluation point, clone.
ProverSnapshot(c) == <<c, Squeezed>>

\* srs.open: an opening of poly at pt bound to the given sponge.
Open(poly, pt, sponge) == [poly |-> poly, point |-> pt, sponge |-> sponge, z1 |-> "honest"]

\* srs.verify on the single-evaluation batch: the opening must be one made
\* for the commitment's polynomial, at this point, on this sponge, and the
\* claimed evaluation must be that polynomial's.
SrsVerify(sponge, pt, c, e, op) ==
  /\ op.z1 = "honest"
  /\ op.sponge = sponge /\ op.point = pt /\ op.poly = c
  /\ Evaluate(c, pt) = e

\* verify_wrt_combined_data_commitment: the verifier's own transcript.
VerifyWrtResult(c, pf) ==
  LET pt == PointOf(<<c>>) IN
  SrsVerify(<<c, Squeezed>>, pt, c, pf.combined_data_eval, pf.opening_proof)

----------------------------------------------------------------------------
\* The test commits to the user data and draws the challenge from a
\* sponge seeded with a random scalar (any scalar).
Setup(d, chal) ==
  /\ phase = "start"
  /\ data' = d
  /\ coms' = CommitToFieldElems(d)
  /\ challenge' = chal
  /\ combined' = AggregateCommitments(chal, CommitToFieldElems(d))
  /\ phase' = "committed"
  /\ UNCHANGED <<proof, verdict, tampered, panicked>>

\* prove(srs, group_map, blob, challenge): whichever build runs it.
Prove ==
  /\ phase = "committed"
  /\ \E build \in {"debug", "release"} :
       IF ProvePanics(Len(data), build)
         THEN /\ panicked' = TRUE
              /\ UNCHANGED <<proof, phase>>
         ELSE LET fc == FinalChunk(Len(data))
                  c == AggregateCommitments(challenge, coms)
                  poly == CombinedData(data, challenge, fc)
                  pt == PointOf(<<c>>)
              IN /\ proof' = [combined_data_eval |-> Evaluate(poly, pt),
                              opening_proof |-> Open(poly, pt, ProverSnapshot(c))]
                 /\ phase' = "proved"
                 /\ UNCHANGED panicked
  /\ UNCHANGED <<data, coms, challenge, combined, verdict, tampered>>

\* proof_malformed_1: combined_data_eval + 1.
TamperEval ==
  /\ phase = "proved" /\ ~tampered
  /\ proof' = [proof EXCEPT !.combined_data_eval = (@ + 1) % P]
  /\ tampered' = TRUE
  /\ UNCHANGED <<data, coms, challenge, combined, verdict, panicked, phase>>

\* proof_malformed_2: opening_proof.z1 = ScalarField::one(), a scalar that
\* (but with negligible probability) is not the honest z1.
TamperOpening ==
  /\ phase = "proved" /\ ~tampered
  /\ proof' = [proof EXCEPT !.opening_proof.z1 = "forged"]
  /\ tampered' = TRUE
  /\ UNCHANGED <<data, coms, challenge, combined, verdict, panicked, phase>>

\* verify_wrt_combined_data_commitment(srs, group_map, combined, proof).
VerifyWrt ==
  /\ phase = "proved"
  /\ verdict' = VerifyWrtResult(combined, proof)
  /\ phase' = "verified"
  /\ UNCHANGED <<data, coms, challenge, combined, proof, tampered, panicked>>

\* verify(srs, group_map, commitments, challenge, proof).
Verify ==
  /\ phase = "proved"
  /\ verdict' = VerifyWrtResult(AggregateCommitments(challenge, coms), proof)
  /\ phase' = "verified"
  /\ UNCHANGED <<data, coms, challenge, combined, proof, tampered, panicked>>

Init ==
  /\ data = <<>> /\ coms = <<>> /\ challenge = 0
  /\ combined = [i \in Idx |-> 0]
  /\ proof = NoProof /\ verdict = FALSE
  /\ tampered = FALSE /\ panicked = FALSE
  /\ phase = "start"

Next ==
  \/ \E d \in Blobs, chal \in Field : Setup(d, chal)
  \/ ~panicked /\ (Prove \/ TamperEval \/ TamperOpening \/ VerifyWrt \/ Verify)

Spec == Init /\ [][Next]_vars

----------------------------------------------------------------------------
(* Properties.                                                             *)

\* The reference for the Horner loop (comment at lines 60-62): element i of
\* combined_data is sum_j chal^j data[j*SRS_SIZE + i] over every chunk j.
PowerSum(d, chal) ==
  [i \in Idx |-> SumFunction([j \in 0 .. Len(d) \div SRS_SIZE - 1 |->
                   PowMod(chal, j) * d[j * SRS_SIZE + i]]) % P]

\* The polynomial prove opened, the reversed Horner loop's result, is that
\* power sum of the blob under the challenge, for every blob prove accepts.
HornerIsPowerSum ==
  phase \in {"proved", "verified"} => proof.opening_proof.poly = PowerSum(data, challenge)

\* Completeness (test_storage_prove_verify): an untampered proof from
\* prove is accepted, whether checked against the test's combined
\* commitment or through verify.
Completeness == phase = "verified" /\ ~tampered => verdict

\* prove never panics on a blob whose length passes its own assert
\* (len % SRS_SIZE == 0).
ProveTotalOnAssertedBlobs == Len(data) % SRS_SIZE = 0 => ~panicked
=============================================================================
