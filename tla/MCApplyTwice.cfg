SPECIFICATION Spec
CONSTANTS
    Server = {a, b}
    Command = {x}
    Nil = Nil
    ApplyCap = 12
    MaxTerm = 1
    MaxPolls = 1
    MaxLog = 2
    MaxCalls = 2
SYMMETRY Symmetry
\* The bounds on terms, log and calls stop the instance, not the system.
CHECK_DEADLOCK FALSE
INVARIANTS
    AppliedAgree
