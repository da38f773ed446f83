SPECIFICATION Spec
CONSTANTS
  Conns = {c1, c2}
  NoConn = NoConn
  MaxIssues = 1
  MaxGeneration = 1
  MaxSessions = 2
  CanSuspend = TRUE
SYMMETRY ConnSymmetry
INVARIANTS ServedIsPublished
CHECK_DEADLOCK FALSE
