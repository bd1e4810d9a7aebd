\* usize::from(selector) as spec 3 describes it (dense index): one-hot selector columns?
CONSTANTS
  s1 = s1
  s2 = s2
  Selectors <- MCSelectors
  NRel = 2
  NSel = 2
  DomainSize = 3
  Field = {0, 1, 2, 3}
  RowsOf <- MCRowsOf
  DenseIndex <- MCDenseIndex
  SelIndex <- MCSelIndexDense
  Tracer = "keccak"
  ZeroPadSafe = {}
  Cloning = FALSE
SPECIFICATION Spec
INVARIANT FoldReady
