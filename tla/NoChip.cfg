CONSTANTS
    c1 = c1
    c2 = c2
    MaxAttempt = 1
    NoCart = NoCart
    ChipReads = {FALSE}
    Found <- Blank
    NumUnits = 1
    First = 1
    SealAt <- TinySealAt
    Shape <- TinyShape
    UnitOf <- TinyUnitOf
    Carts = {c1, c2}
    MaySpan = {1}
    Elsewhere = {}
    Windows = {}
SPECIFICATION Spec
PROPERTIES SealedTapeNeverRewritten NoWriteAfterSealRecorded
CHECK_DEADLOCK FALSE
