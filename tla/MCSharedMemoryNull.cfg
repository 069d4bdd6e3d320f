SPECIFICATION Spec
CONSTANTS
  h = h
  p = p
  q = q
  pre = pre
  other = other
  Processes = {h, p}
  Makers = {p}
  PrefixOf <- OnePrefix
  RandomKey <- Drawn
  MaxRounds <- Once
  TimesOut = FALSE
  Crashes = {}
  Lookalikes = {}
  Failures <- NoneFail
CHECK_DEADLOCK FALSE
INVARIANT FailureReturns
