SPECIFICATION FairSpec
CONSTANTS
    QueueLen = 3
    RepeatMode = 0
    Discs = {}
    Broken = {}
    MaxLoads = 3
    MaxOps = 3
    MaxEvents = 2
    MaxSaves = 2
PROPERTIES
    ResumeMatchesMedia
CHECK_DEADLOCK FALSE
