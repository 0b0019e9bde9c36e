SPECIFICATION MenuSpec
CONSTANTS
    Router = {"r1", "r2"}
    Name = {"a", "b"}
    Kind <- ListKinds
    Contents <- Rows
    Start <- FirstRows
    Visits <- RouteVisits
    Drifts <- SomeDrifts
    Message = {"m1"}
    MaxTaps = 4
INVARIANTS MenuTypeOK NamesItsOwnRouter DoesWhatItShowed HandledOncePerLife
CHECK_DEADLOCK FALSE
