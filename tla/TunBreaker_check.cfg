CONSTANTS
    l1 = l1
    l2 = l2
    None = None
    Loop <- Loops
    Content <- Contents
    CrashLimit = 3
    MaxEvents = 2
SPECIFICATION LiveSpec
CHECK_DEADLOCK FALSE
INVARIANTS
    RunsWhatIsWritten
PROPERTIES
    TripsOnEvidence
    StopReturns
    SickInboundIsTakenOut
