SPECIFICATION ServersSpec
CONSTANTS
  Request = {r1}
  MaxToken = 0
  MaxHandle = 0
  None = None
  Server = {s1, s2}
  MaxTurn = 0
  MaxFaults = 0
  Servers = {s1, s2}
  Checks = {r1}
  Second = 2
  Window = 2
  MaxTime = 4
  MaxSignIns = 1
  MaxRevokes = 2
SYMMETRY Alike
INVARIANTS
  RevokedOnEveryServer
CHECK_DEADLOCK FALSE
