SPECIFICATION FairSpec
CONSTANTS
  MaxValue = 3
  Houses = {"E"}
  Units = {1, 2}
  Star = "*"
  AnyUnit = 0
  SourceOrder <- MCSourceOrder
  SendOps = {"SET", "ON", "OFF", "DIM", "BRIGHT", "MOVE"}
  SetLevels = {0, 3}
  Polled <- MCPolled
  RemoteOps = {"OFF"}
  RuleLists <- MCRuleLists
  SmartModes = {TRUE, FALSE}
  MaxTickets = 3
INVARIANTS
  TypeOK
  CompletedInOrder
  SetLandsOnTarget
PROPERTIES
  SmartQueueCoalesced
  SetGetsCloser
  EverythingIsServed
  KeepsContract
  LostOnlyWithoutController
