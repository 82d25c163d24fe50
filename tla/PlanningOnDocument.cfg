\* Two plans and their suggestions, one processing of the document
\* and a death of the process.
SPECIFICATION PlanningSpec
CONSTANTS
    Op = {o1}
    NoOp = NoOp
    Earlier = Earlier
    Server = {s1}
    PageCount = 0
    Capacity = 1
    StageSizes = {1}
    Forced = {FALSE}
    MaxAsks = 1
    MaxRenames = 0
    MaxCrashes = 1
    Plan = {p1, p2}
SYMMETRY PlanningSymmetry
INVARIANTS
    ReceiptHasPlan
    AppliedOncePerBase
    NoPlanStranded
PROPERTIES
    PlanFitsDocument
    DecisionsStay
CHECK_DEADLOCK FALSE
