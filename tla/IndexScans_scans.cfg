CONSTANTS
  MAX_SAOP_ARRAY_SIZE = 2
  MaxAnded = 2
  Rows <- MCRows
  Queries <- MCQueries
SPECIFICATION Spec
INVARIANTS
  RowsRight
  InClaimedOrder
  NothingLeaks
  UniqueOfOwn
CHECK_DEADLOCK FALSE
