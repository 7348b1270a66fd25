SPECIFICATION FairSpec
CONSTANTS
    Players = {1, 2}
    Nobody = 0
    Hanging = {2}
    MaxListeners = 2
    MaxQueued = 1
    ReleasesPlaying = FALSE
INVARIANTS
    NoFunctionLeft
    NoDanglingUser
    NoEmbrace
PROPERTIES
    JsReturns
    EndedIsFreed
CHECK_DEADLOCK FALSE
