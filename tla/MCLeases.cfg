SPECIFICATION BothSpec
CONSTANTS
  Conns = {c1, c2, c3}
  NoConn = NoConn
  MaxIssues = 1
  MaxGeneration = 2
  MaxSessions = 2
  CanSuspend = TRUE
  a1 = a1
  a2 = a2
  w = w
  None = None
INVARIANTS OneServingTransport RecoverableKeyKept CapacityCharged NoOrphanScene
INVARIANTS RequestsHeld MetWaitsMove ButtonReleased
PROPERTIES DetachedLeaseEnds RequestsEnd
CHECK_DEADLOCK FALSE
