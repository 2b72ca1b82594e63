CONSTANTS
    c1 = c1
    c2 = c2
    i1 = i1
    Channel <- MCChannel
    Id <- MCId
    MaxUnseen = 2
SPECIFICATION FairSpec
INVARIANTS
    DenySettles
    ContainersAgree
    DenyIsPrompt
PROPERTIES
    DenyDisconnects
    Stops
    GateSpec
