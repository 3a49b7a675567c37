SPECIFICATION LiveSpec
CONSTANTS
    Server = {a, b, c}
    Command = {x}
    Nil = Nil
    ApplyCap = 0
    MaxTerm = 2
    MaxPolls = 3
    MaxLog = 0
    MaxCalls = 0
    Hung = {c}
\* The bounds on terms, log and calls stop the instance, not the system.
CHECK_DEADLOCK FALSE
PROPERTY
    MajorityElects
