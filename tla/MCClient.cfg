SPECIFICATION Spec
CONSTANTS
  None = None
  MaxRequests = 2
  MaxWakes = 1
  MaxTries = 1
  Bounds <- Troubles
INVARIANTS
  SendTellsTruth
  ReachesItsConversation
  PendingIsOut
  StreamingMeansBusy
  HeldOnlyWhileTold
CHECK_DEADLOCK FALSE
