\* Two requests race for one room with edits, deletion and three runs of one speaker.
SPECIFICATION Spec
CONSTANTS
    Persona = {p1}
    Worker = {w1,w2}
    Run = {r1,r2,r3}
    NoRun = NoRun
    NoWorker = NoWorker
    NoDraft = NoDraft
    NoPersona = NoPersona
    MaxSteps = 1
    MaxClaims = 1
    LeaseLen = 1
    MaxEditRevision = 1
    MaxCrashes = 0
SYMMETRY Symmetry
INVARIANTS
    RetryLineage
PROPERTIES
    AdmissionIsFresh
    RetryContinuesTranscript
CHECK_DEADLOCK FALSE
