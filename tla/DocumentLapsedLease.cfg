\* One process that never dies: what a failure after the stage leaves behind.
SPECIFICATION Spec
CONSTANTS
    Op = {o1, o2}
    NoOp = NoOp
    Earlier = Earlier
    Server = {s1}
    PageCount = 0
    Capacity = 1
    StageSizes = {1}
    Forced = {FALSE}
    MaxAsks = 2
    MaxRenames = 0
    MaxCrashes = 0
INVARIANTS
    FailureEndsOperation
CHECK_DEADLOCK FALSE
