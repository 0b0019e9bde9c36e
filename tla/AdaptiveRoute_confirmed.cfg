CONSTANTS
    Proto <- MCProto
    Addr <- MCAddr
    Range <- MCRange
    BlockOf <- MCBlockOf
    KnownRange <- MCKnown
    Covers <- MCCovers
    Vetoed = {}
    ActiveSets <- MCActive
    Evidence <- MCEvidence
    Excludable = {"a1", "a3"}
    Unread = Unread
    Listed = {"a1"}
    SharedTTL = 1
    TestTTL = 2
    OKTTL = 2
    OKRefreshBelow = 1
    CooldownTTL = 2
    CooldownOKTTL = 1
    WatchTTL = 2
    WatchRetryBelow = 1
    BlockTTL = 2
    BlockThreshold = 2
    OKLifetimeMultiple = 1
    MaxEvents = 0
    MaxFaults = 0
SPECIFICATION Spec
CHECK_DEADLOCK TRUE
INVARIANTS ConfirmedIsRedirected

