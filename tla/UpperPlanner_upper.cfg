CONSTANTS
  Queries <- SomeQueries
  Tables <- SomeTables
  Relations <- SomeRelations
SPECIFICATION Spec
INVARIANTS
  SortedAsClaimed
  AnswersQuery
  GroupingSound
