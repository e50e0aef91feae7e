SPECIFICATION FairSpec
CONSTANTS
  N = 7
  Concurrency = 3
INVARIANTS
  ResolvedMeansAll
  BoundedWindow
PROPERTIES
  ImplementsOrderedRun
  Settles
CHECK_DEADLOCK FALSE
