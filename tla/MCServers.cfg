SPECIFICATION ServersSpec
CONSTANTS
  Request = {r1, r2}
  MaxToken = 3
  MaxHandle = 2
  None = None
  Server = {s1, s2}
  MaxTurn = 3
  MaxFaults = 1
  Servers = {s1, s2}
  Checks = {r1, r2}
  Second = 2
  Window = 2
  MaxTime = 4
  MaxSignIns = 1
  MaxRevokes = 2
CONSTRAINT FewAtOnce
SYMMETRY Alike
INVARIANTS
  LeaseTypeOK
  SweepSpares
  LeaseExcludes
  ShownTurnsLetGo
  RevokedInTime
PROPERTIES
  NoLostTurn
  SerialSpec
  RecordedTurnsInOrder
CHECK_DEADLOCK FALSE
