SPECIFICATION FairSpec
CONSTANTS
  a = a
  b = b
  c = c
  u = u
  v = v
  Callers = {a, b, c}
  OutputsOf <- FewOutputs
  Ports = 2
  Users = {u, v}
  Removes = TRUE
  Failing = {b}
  Twice = {a}
  Overtaken = {u}
  MaxChanges = 4
  MaxCalls = 2
CHECK_DEADLOCK FALSE
INVARIANT InBounds
INVARIANT EachHeardOnce
INVARIANT OutputsAreTheSum
INVARIANT RemovedIsUnused
PROPERTY ChangesEnd
