SPECIFICATION Spec
CONSTANTS
  Addresses = {a, b, c}
  MaxConnections = 2
  QueueMax = 1
  None = None
  PacketBound = 2
INVARIANT QueuesUsable

CHECK_DEADLOCK FALSE
