SPECIFICATION Spec
CONSTANTS
    Server = {a, b, c}
    Command = {x}
    Nil = Nil
    ApplyCap = 0
    MaxTerm = 2
    MaxPolls = 1
    MaxLog = 2
    MaxCalls = 3
SYMMETRY Symmetry
ACTION_CONSTRAINT OneLate
\* The bounds on terms, log and calls stop the instance, not the system.
CHECK_DEADLOCK FALSE
INVARIANTS
    TypeOK
    LogMatching
    MatchIndexTrue
PROPERTIES
    LeaderAppendOnly
    CommitMonotonic
