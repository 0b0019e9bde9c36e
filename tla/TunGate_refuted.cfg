\* What docs and comments say and the code does not keep: TLC refutes each of the
\* properties, and stops at the first; keep one line to see its counterexample.
CONSTANTS
    r1 = r1
    r2 = r2
    FailsToClose = 2
    Reconciler <- OneReconciler
    MaxEvents = 3
SPECIFICATION LiveSpec
PROPERTIES
    RepairKeepsClosed
    StopLeavesOpen
    DeadTunnelIsClosed
