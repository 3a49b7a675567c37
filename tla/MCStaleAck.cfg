SPECIFICATION Spec
CONSTANTS
    A = a
    C = c
    Server = {a, b, c}
    Command = {x}
    Nil = Nil
    ApplyCap = 0
    MaxTerm = 5
    MaxPolls = 1
    MaxLog = 2
    MaxCalls = 3
ACTION_CONSTRAINT Scenario
CHECK_DEADLOCK FALSE
INVARIANTS
    MajorityHoldsCommitted
