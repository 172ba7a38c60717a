CONSTANTS
    c1 = c1
    c2 = c2
    MaxAttempt = 2
    NoCart = NoCart
    ChipReads = {TRUE, FALSE}
    Found <- MCFound
    NumUnits = 2
    First = 2
    SealAt <- OneSealAt
    Shape <- OneShape
    UnitOf <- OneUnitOf
    Carts = {c1}
    MaySpan = {2}
    Elsewhere = {}
    Windows = {"marking"}
SPECIFICATION Spec
INVARIANT EverySliceHasItsRow
CHECK_DEADLOCK FALSE
