SPECIFICATION FairSpec
CONSTANTS
  h = h
  p = p
  q = q
  pre = pre
  other = other
  Processes = {h, p, q}
  Makers = {p, q}
  PrefixOf <- OnePrefix
  RandomKey <- Drawn
  MaxRounds <- Rounds
  TimesOut = TRUE
  Crashes = {h, q}
  Lookalikes = {q}
  Failures <- SomeFail
CHECK_DEADLOCK FALSE
INVARIANT UsersShare
INVARIANT KeyMatchesInfos
PROPERTY DeletesEnd
PROPERTY MakersEnd
PROPERTY LastDeleteFrees
