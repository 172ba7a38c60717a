CONSTANTS
    c1 = c1
    c2 = c2
    MaxAttempt = 2
    NoCart = NoCart
    ChipReads = {TRUE}
    Found <- MCFound
    NumUnits = 1
    First = 1
    SealAt <- TinySealAt
    Shape <- TinyShape
    UnitOf <- TinyUnitOf
    Carts = {c1, c2}
    MaySpan = {1}
    Elsewhere = {1}
    Windows = {}
SPECIFICATION Spec
INVARIANTS SealedMeansOnTape VerifiedMeansIntact
CHECK_DEADLOCK FALSE
