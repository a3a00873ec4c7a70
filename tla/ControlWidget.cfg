SPECIFICATION FairSpec
CONSTANTS
  MaxValue = 2
  Addresses = {"E1", "E2"}
  FirstAddress = "E1"
  Appliances = {FALSE, TRUE}
  Preferred = 1
  RememberPercent = 20
  OffAtZero = TRUE
  OtherOps <- MCOtherOps
  RemoteOps = {"BRIGHT"}
  StartLevels = {1}
  MaxActs = 3
CHECK_DEADLOCK FALSE
INVARIANTS
  TypeOK
  Settled
  EngineFollows
PROPERTIES
  DisplayCatchesUp
