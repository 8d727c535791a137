SPECIFICATION Spec
CONSTANTS
  BUF_SIZE = 2
  PageSize = 2
  INT_MAX = 7
  MaxSize = 22
  ShortWrites = TRUE
INVARIANTS
  TypeOK
  Result
  InOrder
PROPERTY
  Returns
