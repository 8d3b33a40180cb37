\* Two calls, one crash and restart.
CONSTANTS
  Calls = {1, 2}
  MaxGasFailures = 0
  MaxSendFailures = 0
  MaxCrashes = 1
SPECIFICATION Spec
INVARIANT
  NoNonceReuse
CHECK_DEADLOCK FALSE
