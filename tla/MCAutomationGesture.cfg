SPECIFICATION Spec
CONSTANTS
    c1 = c1
    c2 = c2
    Conns = {c1, c2}
    Wins = {w}
    Ids = {1, 2}
    None = None
    Loads <- GestureLoads
    OutCap = 2
    MaxInFlight = 2
    MaxConnections = 2
    Points = 2
    MaxSeq = 2
CHECK_DEADLOCK FALSE
INVARIANT GestureIsTicked
