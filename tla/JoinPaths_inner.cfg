CONSTANTS
  Rels <- FourRels
  Exprs <- SomeExprs
  relids <- RelidsOf
  datatype <- TypeOfExpr
  Vars <- Columns
  EqualityOps <- SomeOps
  Queries <- SomeQueries
  OtherClauses <- Others
  SpecialJoins <- Semijoins
  ForeignKeys <- Keys
  MaxParams = 2
SPECIFICATION Spec
INVARIANTS
  ClassesSound
  EqualityEnforced
  ClausesPlaced
  ParameterisedAlike
  TextNamesJoin
CHECK_DEADLOCK FALSE
