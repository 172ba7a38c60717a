SPECIFICATION FairSpec
CONSTANTS
    Chunk = 2
    MaxBuffers = 2
    MaxLen = 5
    MaxFiles = 2
INVARIANT TypeOK
INVARIANT MemoryBound
INVARIANT PoolCounted
INVARIANT StreamInOrder
INVARIANT MismatchNeverMarked
INVARIANT VerdictJustified
INVARIANT NoSilentEnd
PROPERTY EveryFileJudged
CHECK_DEADLOCK FALSE
