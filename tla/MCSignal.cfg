SPECIFICATION Spec
CONSTANTS
  a = a
  b = b
  p = p
  q = q
  r = r
  Clients = {a, b}
  Arguments <- Names
  MaxPorts = 2
  Vectors = {p, q, r}
  NULL = NULL
CHECK_DEADLOCK FALSE
INVARIANTS OutletsAreRight OtherVectorsStay
