SPECIFICATION Spec
CONSTANTS
  ValidAddresses = {"*", "E1"}
  BadAddresses = {"?"}
  Times = {0, 60, 90}
  Days = {"none", "week"}
  Kinds = {"on", "set"}
  Texts = {"", "5", ","}
  Refused <- MCRefused
  Unreadable = {","}
  Repeats = {0, 1}
  NewRule <- MCNewRule
  Blank <- MCBlank
  PageTime = 60
  OtherRules <- MCOtherRules
  Channels <- MCChannels
  CutNames = {"A/0", "/1"}
  Cut <- MCCut
  LastUnit = 2
  MaxRules = 3
  MaxNodes = 5
  MaxActs = 7
CHECK_DEADLOCK FALSE
PROPERTY
  ListIsThere
