CONSTANTS
    p1 = p1
    p2 = p2
    Pass <- TwoPasses
    Operator <- BothOperators
    Object <- Objects
    HealthFailThreshold = 2
    MaxEvents = 2
    MaxFaults = 1
SPECIFICATION FairSpec
INVARIANTS FailOpenUnlessRaced KeyReachesXray
PROPERTY Converges
