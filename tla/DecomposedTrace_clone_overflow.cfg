\* A clone, zero padding, reset and pushes: does a sub-trace stay within domain_size?
CONSTANTS
  s1 = s1
  s2 = s2
  Selectors <- MCSelectors
  NRel = 2
  NSel = 2
  DomainSize = 3
  Field = {0, 1, 2, 3}
  RowsOf <- MCRowsOf
  DenseIndex <- MCDenseIndex
  SelIndex <- MCSelIndexOffset
  Tracer = "keccak"
  ZeroPadSafe <- MCSelectors
  Cloning = TRUE
SPECIFICATION Spec
INVARIANT RelationRectangular
