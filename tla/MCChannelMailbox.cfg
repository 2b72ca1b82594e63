CONSTANTS
    a = a
    b = b
    Chunk <- MCChunk
    MaxPosts = 3
    MaxRequests = 2
SPECIFICATION FairSpec
INVARIANTS
    NoLostWake
    PaintsBeforeStopping
PROPERTIES
    TeardownHonoured
    PostsDelivered
    FifoSpec
CHECK_DEADLOCK FALSE
