SPECIFICATION Spec
CONSTANTS
  ReloadModes <- MCDefault
  MaxStarts = 3
  MaxFaults = 1
  MaxQueued = 1
INVARIANT
  RestartKeepsService
CHECK_DEADLOCK FALSE
