SPECIFICATION Spec
CONSTANTS
    a = a
    b = b
    c = c
    NoServer = NoServer
    Server <- Servers
    Name <- Names
    Feeds <- Lists
    Links <- OneLink
    Selector <- Selectors
    Start <- Starts
    MaxCommands = 3
INVARIANTS SlotsKeepTheirServer MemoryIsConfig
CHECK_DEADLOCK FALSE
