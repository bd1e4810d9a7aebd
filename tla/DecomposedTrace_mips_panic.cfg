\* MIPS pad_witnesses: does it panic on a selector never executed?
CONSTANTS
  s1 = s1
  s2 = s2
  Selectors <- MCSelectors
  NRel = 2
  NSel = 2
  DomainSize = 3
  Field = {0, 1, 2, 3}
  RowsOf <- MCRowsOf
  DenseIndex <- MCDenseIndex
  SelIndex <- MCSelIndexOffset
  Tracer = "mips"
  ZeroPadSafe = {}
  Cloning = FALSE
SPECIFICATION Spec
INVARIANT NoPanic
