\* getOnChainState reads the contract (ganache); nothing fails.
CONSTANTS
  Need = 1
  MaxCreates = 1
  MaxTxFailures = 0
  MaxCrashes = 0
  HashSize = 2
  Base = 16
  WinProbs = {1, 2, 3, 4, 5, 6}
  InGanache = TRUE
SPECIFICATION Spec
PROPERTIES
  CounterpartyEventuallyRecords
