SPECIFICATION Spec
CONSTANTS
    Persona = {p1,p2}
    Worker = {w1,w2}
    Run = {r1,r2}
    NoRun = NoRun
    NoWorker = NoWorker
    NoDraft = NoDraft
    NoPersona = NoPersona
    MaxSteps = 2
    MaxClaims = 1
    LeaseLen = 1
    MaxEditRevision = 0
    MaxCrashes = 0
SYMMETRY Symmetry
INVARIANTS
    SpeaksOnce
PROPERTIES
    ImplementsTranscript
CHECK_DEADLOCK FALSE
