SPECIFICATION Spec
CONSTANTS
    Server = {a, b, c}
    Command = {x}
    Nil = Nil
    ApplyCap = 0
    MaxTerm = 2
    MaxPolls = 2
    MaxLog = 0
    MaxCalls = 0
SYMMETRY Symmetry
\* The bounds on terms, log and calls stop the instance, not the system.
CHECK_DEADLOCK FALSE
INVARIANTS
    ElectionSafety
    VotesBind
PROPERTIES
    VoteStable
