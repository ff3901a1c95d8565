CONSTANTS
  MAX_SAOP_ARRAY_SIZE = 2
  MaxBuilds = 1
SPECIFICATION Spec
INVARIANTS
  FoldedAlike
  ConclusionsFollow
  AnswersRight
CHECK_DEADLOCK FALSE
