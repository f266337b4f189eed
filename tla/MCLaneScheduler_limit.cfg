\* One lane of limit 1, started twice.
CONSTANTS
    none = none
    MaxTasks = 2
    NumLanes = 1
    Priorities <- TwoPriorities
    MaxWorkers = 2
    None = none
    MaxHistory = 2
    KeepHistory = 1
    Limit = 1
SPECIFICATION Spec
CHECK_DEADLOCK FALSE
INVARIANTS
    LimitKept
