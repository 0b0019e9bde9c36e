CONSTANTS
    a = a
    b = b
    c = c
    None = None
    Profile <- MCProfile
    NaiveProfile <- MCNaiveProfile
    Configs <- AllConfigs
    StreakBound = 2
SPECIFICATION FairSpec
PROPERTIES
    NoHastyFailover
    NoUntestedFailback
    HonoursOperatorBackup
    FailsBack
    FindsWorkingServer
CHECK_DEADLOCK FALSE
