\* One call, two attempts, and nothing assumed of the other side.
CONSTANTS
  MAX_SEND_TIMES = 2
  MaxCalls = 1
  MaxSockets = 2
  None = None
SPECIFICATION FairSpec
PROPERTY CallReturns
CHECK_DEADLOCK FALSE
