SPECIFICATION FairSpec
CONSTANTS
  Sizes = {2}
  ReplySizes = {0, 2}
  MaxCalls = 2
  ThreadFails = FALSE
  Lockless = {}
  GivesUp = TRUE
  Reorders = TRUE
  EarlyDelete = FALSE
  Crashes = {"host", "plugin"}
CHECK_DEADLOCK FALSE
PROPERTY OneTells
PROPERTY CallEndsUnlessOvertaken
PROPERTY SurvivorEnds
