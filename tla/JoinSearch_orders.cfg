CONSTANTS
  Rels <- FourRels
  Statements <- SomeStatements
  CollapseLimits = {2, 8}
  Databases <- AllPatterns
  Holds <- TestHolds
SPECIFICATION Spec
INVARIANTS
  SearchSound
  SameRows
CHECK_DEADLOCK FALSE
