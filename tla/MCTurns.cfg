SPECIFICATION Spec
CONSTANTS
  r1 = r1
  r2 = r2
  Request = {r1, r2}
  None = None
  Setups <- AllSetups
SYMMETRY Symmetry
INVARIANTS
  HistoryFollowable
  PendingAnswerable
  FrozenWithHistory
  NoticesOnce
  RevisionTold
  ModelHears
  WakeOnce
PROPERTIES
  QuestionKept
CHECK_DEADLOCK FALSE
