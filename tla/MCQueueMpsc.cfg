SPECIFICATION Spec
CONSTANTS
  Producers = {p1, p2}
  Consumers = {c1}
  Capacity = 2
  Values = {a}
  Uninit = Uninit
  NULL = NULL
  IntMax = 15
  PushBound = 4
INVARIANT PopsPushedItems
CHECK_DEADLOCK FALSE
