SPECIFICATION Spec
CONSTANTS
  MaxValue = 3
  Houses = {"E"}
  Units = {1, 2}
  Star = "*"
  AnyUnit = 0
  SourceOrder <- MCSourceOrder
  SendOps = {"SET", "ON", "OFF", "DIM", "BRIGHT", "MOVE"}
  SetLevels = {0, 3}
  Polled <- MCPolled
  RemoteOps = {"ON", "OFF", "DIM", "BRIGHT"}
  RuleLists <- MCRuleLists
  SmartModes = {TRUE}
  MaxTickets = 3
PROPERTY
  OnlyOppositesAnnihilate
