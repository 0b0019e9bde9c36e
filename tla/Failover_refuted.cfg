\* What docs and comments say and the code does not keep: TLC refutes each of the
\* properties, and stops at the first; keep one line to see its counterexample.
CONSTANTS
    a = a
    b = b
    c = c
    None = None
    Profile <- MCProfile
    NaiveProfile <- MCNaiveProfile
    Configs <- AllConfigs
    StreakBound = 2
SPECIFICATION FairSpec
INVARIANTS
    ActiveBackupIsLive
    StopTakesXrayDown
PROPERTIES
    SubstituteClearedOnSuccess
    NoHastyRotation
    PretestCatchesUp
    BackupStartsFullLoop
CHECK_DEADLOCK FALSE
