SPECIFICATION FairSpec
CONSTANTS
  Ids = {i, j}
  Objects = {s1, s2}
  MaxSessions = 1
  PermitLimit = 2
  IdleTimeout = 1
  FlushBytes = 2
  None = None
INVARIANTS
  SessionsAreExact
  TrafficIsKept
PROPERTIES
  SessionsAreDropped
CHECK_DEADLOCK FALSE
