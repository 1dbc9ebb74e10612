SPECIFICATION FairSpec
CONSTANTS
  Addresses = {a, b, c}
  MaxConnections = 2
  QueueMax = 1
  None = None
  PacketBound = 2
INVARIANTS TypeOK TableConsistent PacketsOfPeer NoneMissed
PROPERTY CallsReturn
CHECK_DEADLOCK FALSE
