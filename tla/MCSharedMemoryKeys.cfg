SPECIFICATION Spec
CONSTANTS
  h = h
  p = p
  q = q
  pre = pre
  other = other
  Processes = {p, q}
  Makers = {p, q}
  PrefixOf <- TwoPrefixes
  RandomKey <- Unseeded
  MaxRounds <- Once
  TimesOut = FALSE
  Crashes = {}
  Lookalikes = {}
  Failures <- NoneFail
CHECK_DEADLOCK FALSE
INVARIANT PrefixesApart
