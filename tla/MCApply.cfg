SPECIFICATION ApplySpec
CONSTANTS
    Server = {a, b}
    Command = {x}
    Nil = Nil
    ApplyCap = 12
    MaxTerm = 2
    MaxPolls = 1
    MaxLog = 3
    MaxCalls = 1
ACTION_CONSTRAINT OneAtATime
\* The bounds on terms, log and calls stop the instance, not the system.
CHECK_DEADLOCK FALSE
INVARIANTS
    AppliedWithoutGap
PROPERTIES
    ImplementsReplicatedLog
    EventuallyApplied
