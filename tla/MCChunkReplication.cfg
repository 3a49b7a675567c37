SPECIFICATION LiveSpec
CONSTANTS
    Node = {p, s}
    Primary = p
    MaxWrites = 2
    MaxBlocks = 2
    MaxCrashes = 2
    MaxDrops = 1
INVARIANTS
    ReadsCurrent
    VersionsGrow
    StoredIsLogged
    ProxiedOnce
PROPERTIES
    AllOver
    Replicated
ACTION_CONSTRAINTS
    TwoFaults
CHECK_DEADLOCK FALSE
