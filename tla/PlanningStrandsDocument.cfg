SPECIFICATION PlanningSpec
CONSTANTS
    Op = {o1}
    NoOp = NoOp
    Earlier = Earlier
    Server = {s1}
    PageCount = 0
    Capacity = 1
    StageSizes = {1}
    Forced = {FALSE}
    MaxAsks = 1
    MaxRenames = 0
    MaxCrashes = 0
    Plan = {p1}
INVARIANT FailureFreesDocument
CHECK_DEADLOCK FALSE
