SPECIFICATION FairSessionSpec
CONSTANTS
    Op = {o1}
    NoOp = NoOp
    Worker = {w1,w2}
    NoWorker = NoWorker
    Tab = {t1,t2}
    NoTab = NoTab
    Mutator = {m1}
    MaxEdits = 2
    MaxCrashes = 2
INVARIANTS
    AnswersReadBack
PROPERTIES
    OperationsSettle
