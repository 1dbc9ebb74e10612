SPECIFICATION FairSpec
CONSTANTS
  Callers <- MCCallers
  Blocks <- MCBlocks
  SizeOf <- MCSizeOf
  Grow = 4
  Limits = {2, 9}
  None = None
  Uninit = Uninit
  IntMax = 1000
  Main = "main"
  Capacity = 4
  PushBound = 2
  Clients = {"trace", "heap"}
INVARIANTS TypeOK CaptureComplete HeapSound
PROPERTY CallsReturn
CHECK_DEADLOCK FALSE
