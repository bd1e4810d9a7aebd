\* Keccak pad_witnesses, dummy padding only: the production path.
CONSTANTS
  s1 = s1
  s2 = s2
  Selectors <- MCSelectors
  NRel = 2
  NSel = 2
  DomainSize = 3
  Field = {0, 1, 2, 3}
  RowsOf <- MCRowsOf
  DenseIndex <- MCDenseIndex
  SelIndex <- MCSelIndexOffset
  Tracer = "keccak"
  ZeroPadSafe = {}
  Cloning = TRUE
SPECIFICATION Spec
INVARIANT TypeOK
INVARIANT RelationRectangular
INVARIANT RowsSatisfiable
INVARIANT NoPanic
INVARIANT FoldReady
