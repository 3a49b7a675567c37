SPECIFICATION Spec
CONSTANTS
    m1 = m1
    m2 = m2
    Master = {m1, m2}
    DataNode = {d1}
    File = {f}
    MasterOf <- AllToOne
    ReplicaCount = 1
    MaxChunks = 1
    MaxElections = 2
    MaxRequeues = 0
\* Clients finish, and the bound on elections stops the instance.
CHECK_DEADLOCK FALSE
INVARIANT AllocationKept
