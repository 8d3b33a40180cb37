\* Two packets over two relays with one replay, one timeout and one loss.
CONSTANTS
  p1 = p1
  p2 = p2
  Packets <- MCPackets
  N = 3
  MaxReplays = 1
  MaxTimeouts = 1
  MaxLosses = 1
  MaxStoreFailures = 1
  MaxCrashes = 1
SPECIFICATION Spec
SYMMETRY PacketSymmetry
INVARIANTS
  TypeOK
  RedeemOnlyAfterRelay
PROPERTIES
  ImplementsOnionPathSafety
