SPECIFICATION Spec
CONSTANTS
    MaxAppends = 4
    MaxFiles = 3
    KeepOpen = TRUE
INVARIANTS
    PromisedSynced
    InOrder
PROPERTIES
    ImplementsDurableLog
