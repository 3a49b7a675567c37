SPECIFICATION LiveSpec
CONSTANTS
    DataNode = {n1, n2, n3, n4}
    File = {f1}
    ReplicaCount = 3
    MaxChunks = 2
    MaxDeclared = 2
INVARIANTS
    OnePrimary
    PrimaryHealthy
    ReplicasSpread
PROPERTIES
    DeclaredMarked
CHECK_DEADLOCK FALSE
