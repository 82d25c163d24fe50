CONSTANTS
    MaxEvents = 3
    Capacity = 2
    MaxLegacy = 1
    MaxFaults = 3
    Unix = TRUE
SPECIFICATION Spec
INVARIANTS SpoolTypeOK CountIsBacked PublishedIsKept
PROPERTIES NoReaderGoesBack
CHECK_DEADLOCK FALSE
