SPECIFICATION FairSpec
CONSTANTS
  Sizes = {1, 2, 3}
  ReplySizes = {0, 1, 3}
  MaxCalls = 2
  ThreadFails = TRUE
  Lockless = {"plugin"}
  GivesUp = FALSE
  Reorders = FALSE
  EarlyDelete = FALSE
  Crashes = {}
CHECK_DEADLOCK FALSE
INVARIANT TypeOK
INVARIANT CallExclusion
INVARIANT MessageMatchesHeader
INVARIANT NothingStray
INVARIANT EndedForbidsCalls
PROPERTY ImplementsRemoteCall
PROPERTY StartupEnds
PROPERTY CallEnds
PROPERTY DeletesEnd
