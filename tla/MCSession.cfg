CONSTANTS
    ChannelId = 258
    MAX_PAYLOAD_SIZE = 10
    MAX_ELEMENT_SIZE = 3
    MAX_BYTES = 1
    Handshake <- MCHandshake
    Scenarios <- MCScenarios
SPECIFICATION Spec
CHECK_DEADLOCK FALSE
INVARIANTS
    PolicyEnforced
    NothingElseRemoved
    HarmHasCause
    AcksExact
    ReadsUncut
    EchoesExact
    DrawingComplete
    RepliesBetweenInstructions
