SPECIFICATION Spec
CONSTANTS
  a = a
  b = b
  x = x
  Users = {a, b}
  NameOf <- OwnNames
  Objects = {x}
  NameIn <- Wanted
  MaxRounds <- Once
  MaxDirs = 2
  Faulty = {}
  Crashes = {}
CHECK_DEADLOCK FALSE
INVARIANT MixersCallLiveCallers
