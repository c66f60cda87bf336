SPECIFICATION FairSpec
CONSTANTS
  Threads <- DataThreads
  ExitMax = 10
  MaxRequests = 3
PROPERTY StandbyEnds
CHECK_DEADLOCK FALSE
