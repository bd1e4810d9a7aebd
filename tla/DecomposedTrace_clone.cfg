\* push_row after the caller cloned the trace: is a row below domain_size stored?
CONSTANTS
  s1 = s1
  s2 = s2
  Selectors <- MCSelectors
  NRel = 2
  NSel = 2
  DomainSize = 3
  Field = {0, 1, 2, 3}
  RowsOf <- MCRowsOf
  DenseIndex <- MCDenseIndex
  SelIndex <- MCSelIndexOffset
  Tracer = "keccak"
  ZeroPadSafe = {}
  Cloning = TRUE
SPECIFICATION Spec
INVARIANT PushRowAppends
