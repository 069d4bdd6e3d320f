SPECIFICATION FairSpec
CONSTANTS
  MaxRounds = 3
  TimesOut = TRUE
  Crashes = {"host", "plugin"}
  Descriptors = 1
  Refusing = {"host", "plugin"}
CHECK_DEADLOCK FALSE
INVARIANT EndsMatch
INVARIANT NothingLeft
PROPERTY PipeIsMade
PROPERTY AttemptEnds
