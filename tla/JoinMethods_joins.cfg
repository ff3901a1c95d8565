CONSTANTS
  Joins <- MCJoins
SPECIFICATION Spec
INVARIANTS
  RightRows
  InClaimedOrder
  PlanSucceeds
CHECK_DEADLOCK FALSE
