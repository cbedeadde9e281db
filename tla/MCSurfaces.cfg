SPECIFICATION SurfacesSpec
CONSTANTS
  None = None
  MaxCalls = 2
  MaxOps = 4
  Absent = Absent
  Own = own
  Surfaces = {own}
  MaxUpdates = 3
  MaxHandle = 3
INVARIANTS
  OneQuestion
  ParksOnItsQuestion
  OneRevision
  ResolvedByItsWrite
  NewestWins
PROPERTIES
  ReplyEndsHere
  EveryCallSettles
CHECK_DEADLOCK FALSE
