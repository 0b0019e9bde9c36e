CONSTANTS
    a = a
    b = b
    c = c
    None = None
    Profile <- MCProfile
    NaiveProfile <- MCNaiveProfile
    Configs <- OneConfig
    StreakBound = 2
SPECIFICATION FairSpec
PROPERTIES
    ReturnsWhenPrimaryWorks
CHECK_DEADLOCK FALSE
