\* Three calls, two attempts each, as pilotscope_config.h sets it, and room for
\* two sockets.
CONSTANTS
  MAX_SEND_TIMES = 2
  MaxCalls = 3
  MaxSockets = 2
  None = None
SPECIFICATION FairSpec
INVARIANT TypeOK
PROPERTIES
  Delivers
  GivesUpWithoutSocket
CHECK_DEADLOCK FALSE
