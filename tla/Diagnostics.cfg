SPECIFICATION TraceFairSpec
CONSTANTS
    Producers = {p1, p2}
    QueueMax = 2
    Budget = 3
    MaxDropped = 5
INVARIANTS
    TraceTypeOK
    NothingLost
    OffIsEmpty
PROPERTIES
    OmissionsAreReported
