SPECIFICATION QueueSpec
CONSTANTS
  Absent = Absent
  Own = own
  Surfaces = {own, other}
  MaxUpdates = 3
  MaxHandle = 3
INVARIANTS
  PropsFitSurface
CHECK_DEADLOCK FALSE
