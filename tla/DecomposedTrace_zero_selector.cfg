\* pad_with_zeros then set_selector_column: is the sub-trace ready to fold?
CONSTANTS
  s1 = s1
  s2 = s2
  Selectors <- MCSelectors
  NRel = 2
  NSel = 2
  DomainSize = 3
  Field = {0, 1, 2, 3}
  RowsOf <- MCRowsOf
  DenseIndex <- MCDenseIndex
  SelIndex <- MCSelIndexOffset
  Tracer = "keccak"
  ZeroPadSafe <- MCSelectors
  Cloning = FALSE
SPECIFICATION Spec
INVARIANT FoldReady
