SPECIFICATION FairSpec
CONSTANTS
    Persona = {p1,p2}
    Worker = {w1,w2}
    Run = {r1}
    NoRun = NoRun
    NoWorker = NoWorker
    NoDraft = NoDraft
    NoPersona = NoPersona
    MaxSteps = 2
    MaxClaims = 2
    LeaseLen = 1
    MaxEditRevision = 0
    MaxCrashes = 1
INVARIANTS
    TypeOK
    StepMatchesTranscript
    RunMatchesSteps
PROPERTIES
    EndedRunsAreFrozen
    PendingRunsEnd
CHECK_DEADLOCK FALSE
