CONSTANTS
    c1 = c1
    c2 = c2
    NoConn = NoConn
    Conn <- MCConn
    Id <- MCConn
    NumChannels = 1
    Channel <- MCChannel
SPECIFICATION FairSpec
INVARIANTS
    RegisteredWhileServed
    PipesOnlyApproved
    FilterArmed
    SilentOnlyToPeer
    SettledSessionIntact
    DenialHitsItsRequest
PROPERTIES
    AskedIsClosed
    ApprovedIsPiped
