SPECIFICATION Spec
CONSTANTS
    Server = {a, b, c}
    Command = {x}
    Nil = Nil
    ApplyCap = 1
    MaxTerm = 4
    MaxPolls = 1
    MaxLog = 1
    MaxCalls = 2
SYMMETRY Symmetry
ACTION_CONSTRAINTS OneAtATime PromptApplier
\* The bounds on terms, log and calls stop the instance, not the system.
CHECK_DEADLOCK FALSE
INVARIANTS
    CommittedOnMajority
    LeaderCompleteness
    AppliedCommitted
PROPERTIES
    LeaderUpToDate
    ImplementsReplicatedLog
