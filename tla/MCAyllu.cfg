CONSTANTS
  Unset = Unset
  Ids = {1, 3}
  Sys = 3
  MaxName = 2
  Snapshots <- MCSnapshots
SPECIFICATION Spec
INVARIANTS RamIsDisk DecorationKept
CHECK_DEADLOCK FALSE
