SPECIFICATION FairSpec
CONSTANTS
  alice = alice
  bob = bob
  charlie = charlie
  dave = dave
  eve = eve
  sig1 = sig1
  sig2 = sig2
  NodeVerifier = "Metric"
  Phases <- MCRelay
  Concurrency = 1
  Signals = {sig1}
INVARIANTS
  FailedLaunchLeavesNothing
PROPERTIES
  TeardownEnds
  LaunchSettles
CHECK_DEADLOCK FALSE
