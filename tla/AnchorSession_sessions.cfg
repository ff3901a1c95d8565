\* Three queries, after or inside one another, one of them with any shape of
\* comment, or two with one each; with errors, cursors and cached plans.
CONSTANTS
  Requests <- AllRequests
  NestedRequests <- NestedOnes
  NoComment = NoComment
  Malformed = Malformed
  MaxQueries = 3
  MaxLoad = 4
  MaxDepth = 2
  MaxSubqueries = 1
  Portals = TRUE
  PlanCache = TRUE
SPECIFICATION FairSpec
INVARIANTS
  TypeOK
  ReportArraysFit
  ReportComplete
  
  TerminatedBeforeExecution
PROPERTIES
  TimeIsOfFirstEnd
  RequestAnswered
CHECK_DEADLOCK FALSE
