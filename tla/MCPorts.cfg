SPECIFICATION PortsFairSpec
CONSTANTS
  c1 = c1
  c2 = c2
  c3 = c3
  p1 = p1
  p2 = p2
  Call = {c1, c2, c3}
  Port = {p1, p2}
  MaxRetries = 2
  Timeout = 2
  ProbeTime = 1
  BindDelay = 1
  MaxTime = 5
INVARIANTS
  DistinctLeases
  NoClash
PROPERTIES
  CallSettles
CHECK_DEADLOCK FALSE
