SPECIFICATION Spec
CONSTANTS
  a = a
  b = b
  Node = {a, b}
  Test <- MCTest
INVARIANTS
  NoTwins
  TeardownFindsAll
  ExitTellsTheTruth
PROPERTIES
  ImplementsNetworkRun
CHECK_DEADLOCK FALSE
