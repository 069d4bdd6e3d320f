SPECIFICATION FairSpec
CONSTANTS
  a = a
  b = b
  x = x
  Users = {a, b}
  NameOf <- OwnNames
  Objects = {x}
  NameIn <- Wanted
  MaxRounds <- TwiceAndOnce
  MaxDirs = 3
  Faulty = {a}
  Crashes = {a}
CHECK_DEADLOCK FALSE
INVARIANT DirsDistinct
 
INVARIANT SearchFindsSteady
PROPERTY RequestsEnd
