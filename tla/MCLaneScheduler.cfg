\* Two lanes and three tasks, started up to twice, in any order with stop().
CONSTANTS
    none = none
    MaxTasks = 3
    NumLanes = 2
    Priorities <- TwoPriorities
    MaxWorkers = 4
    None = none
    MaxHistory = 2
    KeepHistory = 1
    Limit = 1
SPECIFICATION Spec
CHECK_DEADLOCK FALSE
INVARIANTS
    LanesSafe
PROPERTIES
    BoardSpec
