SPECIFICATION Spec
CONSTANTS
  alice = alice
  bob = bob
  charlie = charlie
  dave = dave
  eve = eve
  sig1 = sig1
  sig2 = sig2
  NodeVerifier = "Metric"
  Phases <- MCPhases
  Concurrency = 2
  Signals = {sig1, sig2}
SYMMETRY MCSymmetry
INVARIANTS
  SpawnsBounded
  LaunchedMeansVerified
  TeardownOnce
  OnlyLateSpawnsSurvive
PROPERTIES
  ImplementsNetworkRun
  NoSpawnAfterFailure
CHECK_DEADLOCK FALSE
