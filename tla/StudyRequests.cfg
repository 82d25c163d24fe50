SPECIFICATION Spec
CONSTANTS
    Op = {o1,o2}
    NoOp = NoOp
    Worker = {w1,w2}
    NoWorker = NoWorker
    MaxEdits = 1
    MaxCrashes = 1
SYMMETRY RequestSymmetry
INVARIANTS
    TypeOK
    NoBlindTurn
    ReceiptsReadBack
    ProviderCalledOnce
    CommittedFilesKept
PROPERTIES
    ImplementsLedger
