SPECIFICATION FairSpec
CONSTANTS
  ReloadModes <- MCBoth
  MaxStarts = 3
  MaxFaults = 1
  MaxQueued = 1
INVARIANTS
  TypeOK
  StoppedIsIdle
  ClientsKnowStatus
  NoExitUnderWorker
PROPERTIES
  StopWaits
  StopReturns
CHECK_DEADLOCK FALSE
