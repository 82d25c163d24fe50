\* Two streams, a neighbour that restarts, a cancel, a rename and a resume; the
\* pages are the other configuration's.
SPECIFICATION Spec
CONSTANTS
    Op = {o1, o2}
    NoOp = NoOp
    Earlier = Earlier
    Server = {s1, s2}
    PageCount = 0
    Capacity = 1
    StageSizes = {1}
    Forced = {FALSE}
    MaxAsks = 3
    MaxRenames = 1
    MaxCrashes = 1
SYMMETRY DocumentSymmetry
INVARIANTS
    ProcessingIsOwned
    ProjectionsAgree
    ResumeIsFresh
    StreamTellsTruth
PROPERTIES
    ImplementsLease
CHECK_DEADLOCK FALSE
