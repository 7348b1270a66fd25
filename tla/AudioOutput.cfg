CONSTANTS
    b1 = b1
    b2 = b2
    Byte = {b1, b2}
    Blocks <- MCBlocks
    Capacity = 4
    MaxQueue = 2
    Threshold = 2
    DeviceSize = 2

SPECIFICATION FairSpec
INVARIANTS
    TypeOK
    NothingStale
    NoLostWakeup
PROPERTIES
    ImplementsFifo
    SoundComesBack
