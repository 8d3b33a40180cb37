\* getOnChainState reads the contract (ganache); two create() calls, one
\* reverting openChannel, one crash of either node,
\* any earlier deposit and token balance up to 2.
CONSTANTS
  Need = 2
  MaxCreates = 2
  MaxTxFailures = 1
  MaxCrashes = 1
  HashSize = 2
  Base = 16
  WinProbs = {1, 2, 3, 4, 5, 6}
  InGanache = TRUE
SPECIFICATION Spec
INVARIANTS
  TypeOK
  RecordOnlyForOpenedChannel
  OpenedWithAgreedFunds
PROPERTIES
  CreateTerminates
