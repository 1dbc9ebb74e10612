SPECIFICATION FairSpec
CONSTANTS
  Producer1 = p1
  Consumer1 = c1
  Producers = {p1}
  Consumers = {c1}
  Capacity = 3
  Values = {a, b}
  Uninit = Uninit
  NULL = NULL
  IntMax = 15
  PushBound = 7
INVARIANTS TypeOK PermitConservation IndicesSound SlotExclusive
PROPERTIES ImplementsFifo PushCompletes
CHECK_DEADLOCK FALSE
