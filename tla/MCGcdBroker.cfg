CONSTANTS
    c1 = c1
    c2 = c2
    i1 = i1
    d1 = d1
    d2 = d2
    NoFd = NoFd
    Channel <- MCChannel
    Id <- MCId
    Fd <- MCFd
    QueueCap = 1
SPECIFICATION FairSpec
CONSTRAINT PromptUplink
INVARIANTS
    BoundToOwnReader
    WritesToOwnConnection
    OnlyFailedWritesAreSilent
    OpenSessionIsBound
PROPERTIES
    EndedIsClosed
