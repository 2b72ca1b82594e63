CONSTANTS
    ch1 = ch1
    ch = ch1
    NoConn = NoConn
    c1 = c1
    c2 = c2
    Id <- TwoConn
    Channel <- OneChannel
    MaxFaults = 1
    MaxDrawn = 1
SPECIFICATION FairSpec
CONSTRAINT FewAfterFault
CHECK_DEADLOCK FALSE
INVARIANTS
    ApprovalsAreOwn
    OwnPayload
    OwnDrawing
PROPERTIES
    Settles
