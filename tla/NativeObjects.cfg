SPECIFICATION Spec
CONSTANTS
    Documents = {"d1", "d2"}
    Streams = {"s"}
    Fds = {1, 2}
    MaxMedias = 3
    MaxPlayers = 2
    MaxLoads = 2
    MaxItems = 1
INVARIANTS
    TypeOK
    LiveReadsItsFile
    NothingLeaks
    DiscoveryNeverEmbraces
CHECK_DEADLOCK FALSE
