CONSTANTS
    o1 = o1
    l1 = l1
    l2 = l2
    a1 = a1
    a2 = a2
    Op = {o1}
    Learner = {l1, l2}
    Approver = {a1, a2}
    MaxTurns = 1
SPECIFICATION Spec
SYMMETRY RevisionSymmetry
INVARIANTS RevisionTypeOK NoEditIsLost AcceptCommitsTogether
PROPERTIES HistoryIsKept DecisionsStand
CHECK_DEADLOCK FALSE
