SPECIFICATION Spec
CONSTANTS
    MaxFiles = 3
    MaxBlocks = 2
INVARIANT TypeOK
INVARIANT ReadsFileAsked
INVARIANT CursorHonest
