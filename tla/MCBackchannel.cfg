SPECIFICATION FairSpec
CONSTANTS
  k1 = k1
  k2 = k2
  c1 = c1
  c2 = c2
  Key = {k1, k2}
  Client = {c1, c2}
  Reading = {c1}
  Poster = {}
  Capacity = 2
  MaxWrites = 3
INVARIANTS
  NoGap
  StaleOnlyIfRaced
PROPERTIES
  CatchesUp
CHECK_DEADLOCK FALSE
