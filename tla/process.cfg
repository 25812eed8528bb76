CONSTANTS
    Calls = {c1}
    Requests = {r1}
    PipeCapacity = 2
    ObserverFails = TRUE
SPECIFICATION FairSpec
INVARIANT TypeOK
INVARIANT AllReleased
PROPERTY CloseEnds
PROPERTY CallsReturn
CHECK_DEADLOCK FALSE
