CONSTANTS
    p1 = p1
    p2 = p2
    Pass <- OnePass
    Operator <- BotOnly
    Object <- RuleAndWG
    HealthFailThreshold = 1
    MaxEvents = 4
    MaxFaults = 0
SPECIFICATION FairSpec
PROPERTY KeyAgrees
