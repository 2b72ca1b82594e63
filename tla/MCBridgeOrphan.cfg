CONSTANTS
    ch1 = ch1
    ch = ch1
    NoConn = NoConn
    c1 = c1
    c2 = c2
    Id <- TwoConn
    Channel <- OneChannel
    MaxFaults = 0
    MaxDrawn = 1
SPECIFICATION Spec
CHECK_DEADLOCK FALSE
INVARIANTS
    NoOrphan
