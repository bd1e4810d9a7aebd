\* The prover loop: Keccak pad_witnesses, dummy padding, folds on one sponge.
CONSTANTS
  s1 = s1
  s2 = s2
  Selectors <- MCSelectors
  NRel = 2
  NSel = 2
  DomainSize = 2
  Field = {0, 1, 2, 3}
  RowsOf <- MCRowsOf
  DenseIndex <- MCDenseIndex
  SelIndex <- MCSelIndexOffset
  Tracer = "keccak"
  ZeroPadSafe = {}
  Cloning = FALSE
  MaxSteps = 5
  MaxFolds = 5
  NoSel = NoSel
SPECIFICATION ProverSpec
PROPERTY AllRowsFolded
CHECK_DEADLOCK FALSE
