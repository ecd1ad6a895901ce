CONSTANTS
  MaxTid = 3
  Cpus = {0, 1, 2}
  Allowed = {0, 1}
  Sets = {{0}, {1, 2}, {2}}
SPECIFICATION Spec
INVARIANTS
  SetReachesAll
  GetCoversAll
  GetAddsNothing
  LastLocations
PROPERTY Returns
CHECK_DEADLOCK FALSE
