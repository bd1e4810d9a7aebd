\* Honest and tampered proofs over every blob of up to two chunks and the 0/1 blobs of three.
CONSTANTS
  P = 5
  SRS_SIZE = 2
  Omega = 4
  Width = 3
  Blobs <- MCBlobs
  PointOf <- MCPointOf
  NoProof = NoProof
SPECIFICATION Spec
INVARIANT HornerIsPowerSum
INVARIANT Completeness
CHECK_DEADLOCK FALSE
