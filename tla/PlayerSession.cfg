SPECIFICATION FairSpec
CONSTANTS
    QueueLen = 3
    RepeatMode = 0
    Discs = {1}
    Broken = {2}
    MaxLoads = 3
    MaxOps = 2
    MaxEvents = 2
    MaxSaves = 2
INVARIANTS
    TypeOK
    UiAgreesWithPlayer
    LoadedIsCurrent
    CompletedStays
PROPERTIES
    LoadPlays
    ImplementsRegister
CHECK_DEADLOCK FALSE
