CONSTANTS
    r1 = r1
    r2 = r2
    FailsToClose = 3
    Reconciler <- TwoReconcilers
    MaxEvents = 4
SPECIFICATION LiveSpec
INVARIANTS
    DownOnPurpose
PROPERTIES
    ClosesOnEvidence
    WorkingTunnelIsOpened
