\* One process that dies once: pages and stages at and above the budget.
SPECIFICATION FairSpec
CONSTANTS
    Op = {o1, o2}
    NoOp = NoOp
    Earlier = Earlier
    Server = {s1}
    PageCount = 2
    Capacity = 2
    StageSizes = {1, 3}
    Forced = {TRUE, FALSE}
    MaxAsks = 2
    MaxRenames = 0
    MaxCrashes = 1
INVARIANTS
    TypeOK
PROPERTIES
    SavedWorkIsKept
    DocumentIsFreed
CHECK_DEADLOCK FALSE
