SPECIFICATION Spec
CONSTANTS
  Servers = {s1, s2}
  Streams = {1, 2}
  Conversations = {c1}
  Names = {n1}
  None = None
  Bounds <- MCBounds
INVARIANTS
  NeverOlder
  NewestWaits
PROPERTIES
  PresenceSettles
CHECK_DEADLOCK FALSE
