\* Two confirmations, reorganisations up to that depth, five blocks.
CONSTANTS
  MaxConfirmations = 2
  MaxReorgDepth = 2
  MaxBlocks = 5
  MaxReorgs = 1
  Logs <- MCLogs
SPECIFICATION Spec
INVARIANTS
  TypeOK
  EntriesOnCanonicalChain
  NoConfirmedLogSkipped
\* Mining is bounded; the chain stops once every block is mined and indexed.
CHECK_DEADLOCK FALSE
