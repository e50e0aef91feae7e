SPECIFICATION FairSpec
CONSTANTS
  alice = alice
  bob = bob
  temp = temp
  spec = spec
  wasm = wasm
  Pod = {alice, bob, temp}
  Temp = {temp}
  File = {spec, wasm}
  Files <- MCFiles
  Concurrency = 2
  Polls = 2
  InCI = FALSE
INVARIANTS
  StartsWithItsFiles
PROPERTIES
  SpawnSettles
CHECK_DEADLOCK FALSE
