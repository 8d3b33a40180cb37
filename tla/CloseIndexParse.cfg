\* One channel closed on-chain with any transaction, in a node process with
\* one contractCall; the node keeps its listener running.
CONSTANTS
  K = 1
  Total = 1
  MaxIndex = 1
  MaxCrashes = 0
  MaxStreamErrors = 0
  Calls = {1}
  MaxGasFailures = 0
  MaxSendFailures = 0
SPECIFICATION Spec
INVARIANT
  NeverAcceptWorseClose
CHECK_DEADLOCK FALSE
