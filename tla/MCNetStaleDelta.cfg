SPECIFICATION Spec
CONSTANTS
  MaxEntities = 1
  MaxCopies = 1
  MaxSnapshots = 3
  Values = {0, 1}
  Unset = 99
  Fresh = FALSE
  Tidy = TRUE
  IdBound = 1
  UpdateBound <- MCLongUpdateBound
INVARIANT CopiesCurrent
CHECK_DEADLOCK FALSE
