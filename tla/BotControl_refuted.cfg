\* What docs and comments say and the code does not keep: TLC refutes each of the
\* properties, and stops at the first; keep one line to see its counterexample.
CONSTANTS
    c1 = c1
    c2 = c2
    k1 = k1
    k2 = k2
    None = None
    Command <- TwoCommands
    Conn <- TwoConns
    TooLong <- LongResult
    Window = 1
    ConfigToken = 1
    MaxToken = 1
    MaxFaults = 2
SPECIFICATION Spec
INVARIANTS
    RefusedNeverRuns
PROPERTIES
    RestartKeepsQueued
    AddedAfresh
