SPECIFICATION DeliverySpec
CONSTANTS
    m1 = m1
    m2 = m2
    Master = {m1, m2}
    DataNode = {d1, d2}
    File = {f}
    MasterOf <- AllToOne
    ReplicaCount = 2
    MaxChunks = 2
    MaxElections = 2
    MaxRequeues = 1
\* Clients finish, and the bounds on elections and requeues stop the instance.
CHECK_DEADLOCK FALSE
ACTION_CONSTRAINTS StatusWhenRead OneFedAgain
INVARIANTS
    TypeOK
    SettledAsCommitted
    RefsSound
    ReplicasKnown
    ToldAsRecorded
PROPERTIES
    ChunksStay
    ChunksArrive
