SPECIFICATION Spec
CONSTANTS
  SecsInDay = 6
  Days = 2
  Rules <- MCRules
  MaxTime = 40
  PeriodSecs = 4
  RuleSets <- MCRuleSets
  MaxLate = 1
PROPERTY
  KeepsRunning
