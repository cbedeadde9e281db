SPECIFICATION FairSpec
CONSTANTS
  None = None
  Other = other
  MaxStream = 2
  MaxNotice = 1
  MaxOther = 1
INVARIANTS
  SettledDecided
PROPERTIES
  WatchedNoticesTried
CHECK_DEADLOCK FALSE
