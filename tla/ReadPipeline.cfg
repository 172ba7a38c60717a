SPECIFICATION FairSpec
CONSTANTS
    Chunk = 3
    MaxBuffers = 2
    MaxLen = 7
    MaxReads = 2
INVARIANT TypeOK
INVARIANT MemoryBound
INVARIANT DeliveredInOrder
INVARIANT NothingLost
PROPERTY EveryReadEnds
CHECK_DEADLOCK FALSE
