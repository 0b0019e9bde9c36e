CONSTANTS
    l1 = l1
    l2 = l2
    None = None
    Loop <- Loops
    Content <- Contents
    CrashLimit = 3
    MaxEvents = 2
SPECIFICATION Spec
CHECK_DEADLOCK FALSE
INVARIANTS
    TrippedStaysOut
