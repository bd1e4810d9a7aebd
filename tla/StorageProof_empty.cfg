\* prove on the empty blob, which the assert at line 54 admits.
CONSTANTS
  P = 5
  SRS_SIZE = 2
  Omega = 4
  Width = 3
  Blobs <- MCBlobs
  PointOf <- MCPointOf
  NoProof = NoProof
SPECIFICATION Spec
INVARIANT ProveTotalOnAssertedBlobs
CHECK_DEADLOCK FALSE
