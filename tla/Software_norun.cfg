SPECIFICATION Spec
CONSTANTS
    t1 = t1
    t2 = t2
    p = p
    q = q
    Proc <- Procs
    Entware = Entware
    NoCore = NoCore
    PartOfFile = PartOfFile
    Tag <- Tags
    DefaultTag = t1
    RunsHere <- RunnableTags
    Healths <- Unrunnable
    AgeLimit = 5
    SlowNet = FALSE
    ChainTicks = 1
    MaxCommands = 2
    MaxFaults = 1
INVARIANTS HarmlessTearDown

