SPECIFICATION Spec
CONSTANTS
  MaxEntities = 2
  MaxCopies = 2
  MaxSnapshots = 2
  Values = {0, 1}
  Unset = 99
  Fresh = TRUE
  Tidy = TRUE
  IdBound = 3
  UpdateBound <- MCUpdateBound
INVARIANTS TypeOK CopiesCurrent NoGhosts BaselineApplied
PROPERTIES AckForward
CHECK_DEADLOCK FALSE
