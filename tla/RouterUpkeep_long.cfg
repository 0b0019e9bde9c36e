CONSTANTS
    p1 = p1
    p2 = p2
    Pass <- OnePass
    Operator <- BothOperators
    Object <- RuleAndWG
    HealthFailThreshold = 2
    MaxEvents = 3
    MaxFaults = 1
SPECIFICATION FairSpec
INVARIANTS TypeOK FailOpenUnlessRaced KeyReachesXray
PROPERTY Converges
