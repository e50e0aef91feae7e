SPECIFICATION Spec
CONSTANTS
  NoPara = "none"
  Configs <- MCConfigs
  Capital <- MCCapital
  Concurrency = 2
INVARIANTS
  ClashOnlyIfAmbiguous
  SameKeysOnlyIfAmbiguous
  TornOnlyWhenShared
  GenesisAsAsked
  ParasOnboard
CHECK_DEADLOCK FALSE
