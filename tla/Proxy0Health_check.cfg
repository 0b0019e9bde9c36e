\* A purged package does nothing more.
CHECK_DEADLOCK FALSE
SPECIFICATION FairSpec
CONSTANTS
    None = None
    p0 = p0
    p1 = p1
    loop = loop
    Iface <- MCIface
    Home = p0
    Sites <- MCSites
    Reconciler <- MCReconciler
    MaxEvents = 1
    MaxFaults = 1
INVARIANT NeverBoundWithoutTLS
PROPERTY PurgeKeepsFallback
PROPERTY FollowsConfig
PROPERTY SurvivesReboot
