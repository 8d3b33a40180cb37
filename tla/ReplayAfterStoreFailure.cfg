\* One packet over two relays and one replay; one ticket store that rejects,
\* one send that times out and one crash may happen before it.
CONSTANTS
  p1 = p1
  p2 = p2
  Packets <- MCOnePacket
  N = 3
  MaxReplays = 1
  MaxTimeouts = 1
  MaxLosses = 0
  MaxStoreFailures = 1
  MaxCrashes = 1
SPECIFICATION Spec
INVARIANTS
  ReplayOnlyOfHandled
