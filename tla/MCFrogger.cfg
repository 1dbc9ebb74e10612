SPECIFICATION GameSpec
CONSTANTS
  MaxEntities = 4
  MaxTypes = 5
  Masks <- MCMasks
  AddBound = 4
  TruckSpawns <- MCTrucks
  Half = 1
  Start = 6
  Side = 4
  WrapAt = 5
  WrapTo = 4
  PlayerSpeed = 2
  KeyMasks <- MCKeyMasks
  Deltas = {1, 2}
INVARIANTS TypeOK QueryComplete PlayerSafe DrawsEveryModel
PROPERTIES DeadStaysDead TenantKept
CHECK_DEADLOCK FALSE
