\* Two channels settled before a restart.
CONSTANTS
  K = 2
  Total = 1
  MaxIndex = 1
  MaxCrashes = 1
  MaxStreamErrors = 0
SPECIFICATION Spec
INVARIANT
  StartupNeverFails
CHECK_DEADLOCK FALSE
