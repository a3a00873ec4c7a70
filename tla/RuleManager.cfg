SPECIFICATION FairSpec
CONSTANTS
  SecsInDay = 6
  Days = 2
  Rules <- MCRules
  MaxTime = 40
  PeriodSecs = 4
  RuleSets <- MCRuleSets
  MaxLate = 1
INVARIANTS
  TypeOK
  NextInLineOccur
  NothingPassedOver
  WakesInTime
PROPERTIES
  RunsOnTime
  NextInLineRuns
