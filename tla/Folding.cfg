\* to_folding_pair: parallel evaluation and commitment, ordered absorption.
CONSTANTS
  NCols = 3
  Columns = {"x", "y"}
  Commit <- MCCommit
  MaxCalls = 2
  NoValue = NoValue
SPECIFICATION Spec
INVARIANT TypeOK
INVARIANT RoundTrip
PROPERTY RefinesAtomic
CHECK_DEADLOCK FALSE
