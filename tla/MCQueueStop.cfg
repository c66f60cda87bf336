SPECIFICATION FairSpec
CONSTANTS
  Threads <- DataThreads
  ExitMax = 10
  MaxRequests = 3
PROPERTY WorkerQuits
CHECK_DEADLOCK FALSE
