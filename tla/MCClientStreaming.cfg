SPECIFICATION Spec
CONSTANTS
  None = None
  MaxRequests = 1
  MaxWakes = 1
  MaxTries = 0
  Bounds <- OneDrop
INVARIANT
  StreamingEnds
CHECK_DEADLOCK FALSE
