SPECIFICATION McpSpec
CONSTANTS
  Process = {p1, p2}
  Policies = {"rotates", "keeps"}
  MaxTokens = 2
  MaxSealed = 3
  MaxRenewals = 2
  MaxDisconnects = 1
  WriteTries = 2
  Users = {u1, u2}
  Calls = {c1, c2}
  MaxConnections = 1
  MaxChanges = 1
  MaxDrops = 1
SYMMETRY Alike
INVARIANTS
  GoneStaysGone
  OneSpender
  OrphansRevoked
  PoolTrimmed
  OnItsAccount
  NoneLeftOpen
PROPERTIES
  DropsOnlyDead
CHECK_DEADLOCK FALSE
