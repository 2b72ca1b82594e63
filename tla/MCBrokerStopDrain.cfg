CONSTANTS
    r1 = r1
    r2 = r2
    NoReader = NoReader
    Reader <- MCReader
    QueueCap = 1
SPECIFICATION Spec
INVARIANTS
    SendQueueDrained
