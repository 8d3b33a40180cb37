\* Two calls, one send rejection.
CONSTANTS
  Calls = {1, 2}
  MaxGasFailures = 0
  MaxSendFailures = 1
  MaxCrashes = 0
SPECIFICATION Spec
PROPERTIES
  EveryTxMined
CHECK_DEADLOCK FALSE
