SPECIFICATION Spec
CONSTANTS
  r1 = r1
  r2 = r2
  Request = {r1, r2}
  None = None
  Setups <- OnlyWakeReadFails
SYMMETRY Symmetry
INVARIANTS
  HistoryFollowable
CHECK_DEADLOCK FALSE
