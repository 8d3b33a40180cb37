\* Two packets over two relays on a transport that loses nothing and never
\* times out; one replayed message.  No symmetry: liveness is checked.
CONSTANTS
  p1 = p1
  p2 = p2
  Packets <- MCPackets
  N = 3
  MaxReplays = 1
  MaxTimeouts = 0
  MaxLosses = 0
  MaxStoreFailures = 0
  MaxCrashes = 0
SPECIFICATION Spec
PROPERTIES
  EveryRelayEventuallyPaid
