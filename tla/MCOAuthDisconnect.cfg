SPECIFICATION Spec
CONSTANTS
  Process = {p1}
  Policies = {"rotates"}
  MaxTokens = 2
  MaxSealed = 2
  MaxRenewals = 1
  MaxDisconnects = 1
  WriteTries = 1
PROPERTIES
  DisconnectRevokes
CHECK_DEADLOCK FALSE
