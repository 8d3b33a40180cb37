\* getOnChainState reads the node's indexer, which lags behind the chain.
CONSTANTS
  Need = 1
  MaxCreates = 2
  MaxTxFailures = 0
  MaxCrashes = 0
  HashSize = 2
  Base = 16
  WinProbs = {1, 2, 3, 4, 5, 6}
  InGanache = FALSE
SPECIFICATION Spec
PROPERTIES
  NeverDeleteOpenChannelRecord
