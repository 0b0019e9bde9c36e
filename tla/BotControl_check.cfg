CONSTANTS
    c1 = c1
    c2 = c2
    k1 = k1
    k2 = k2
    None = None
    Command <- TwoCommands
    Conn <- TwoConns
    TooLong <- LongResult
    Window = 1
    ConfigToken = 1
    MaxToken = 1
    MaxFaults = 1
SPECIFICATION LiveSpec
INVARIANTS
    AnswersAreTrue
    NothingLostWithoutFault
PROPERTIES
    RevokedForGood
    DeliveredAtMostOnce
    EveryCommandSettles
