CONSTANTS
    c1 = c1
    c2 = c2
    MaxAttempt = 1
    NoCart = NoCart
    ChipReads = {TRUE, FALSE}
    Found <- Blank
    NumUnits = 2
    First = 1
    SealAt <- LiveSealAt
    Shape <- LiveShape
    UnitOf <- LiveUnitOf
    Carts = {c1}
    MaySpan = {2}
    Elsewhere = {2}
    Windows = {"refusal", "marking", "opened"}
SPECIFICATION FairSpec
PROPERTIES EveryCommandEnds OrphansAreSwept
CHECK_DEADLOCK FALSE
