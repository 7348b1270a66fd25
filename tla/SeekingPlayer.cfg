SPECIFICATION SeekingFairSpec
CONSTANTS
    Players = {1}
    Nobody = 0
    Hanging = {}
    MaxListeners = 1
    MaxQueued = 1
    ReleasesPlaying = FALSE
    Watched = 1
    Targets = {t1, t2, t3}
    NoRequest = NoRequest
    MaxRequests = 4
INVARIANTS
    SeeksEndBeforeStop
PROPERTIES
    EndedIsFreed
    AcceptedIsServed
    ImplementsMailbox
CHECK_DEADLOCK FALSE
