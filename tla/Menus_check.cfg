SPECIFICATION MenuFairSpec
CONSTANTS
    Router = {"r1", "r2"}
    Name = {"a", "b"}
    Kind <- AllKinds
    Contents <- Rows
    Start <- FirstRows
    Visits <- SomeVisits
    Drifts <- SomeDrifts
    Message = {"m1"}
    MaxTaps = 3
INVARIANTS NamesItsOwnRouter DoesWhatItShowed
PROPERTIES EveryTapIsHandled
CHECK_DEADLOCK FALSE
