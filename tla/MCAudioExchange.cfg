SPECIFICATION AudioFairSpec
CONSTANTS
  Sizes = {1}
  ReplySizes = {0}
  MaxCalls = 4
  ThreadFails = FALSE
  Lockless = {"plugin"}
  GivesUp = FALSE
  Reorders = FALSE
  EarlyDelete = TRUE
  Crashes = {}
  BUFFERSIZE = 2
  Frames = {0, 5}
  PortsFail = TRUE
CHECK_DEADLOCK FALSE
INVARIANT EveryFrameProcessed
INVARIANT BuffersNotShared
PROPERTY ImplementsOrderlyExchange
PROPERTY HostNewEnds
PROPERTY JobEnds
