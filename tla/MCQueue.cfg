SPECIFICATION FairSpec
CONSTANTS
  Threads <- DataThreads
  ExitMax = 0
  MaxRequests = 3
INVARIANT TypeOK
INVARIANT OwnedOnce
INVARIANT StandbyCoupled
INVARIANT NoSleeperLeft
INVARIANT QueueInv
PROPERTY TakenInOrder
PROPERTY CallReturns
CHECK_DEADLOCK FALSE
