--------------------------- MODULE MCStorageProof ---------------------------
(* StorageProof over F_5 with a domain of two points {1, 4}, a 3-bit      *)
(* usize, every blob of zero, one or two chunks, and the blobs of three   *)
(* chunks over {0, 1}, for which the reversed loop runs twice.            *)
EXTENDS StorageProof

MCBlobs == UNION {[1 .. n -> 0 .. 4] : n \in {0, 2, 4}} \cup [1 .. 6 -> {0, 1}]

\* A squeeze: a fixed mixing of the absorbed commitment into a scalar.
MCPointOf(t) == (2 + 3 * t[1][1] + t[1][2] + Len(t)) % 5
=============================================================================
