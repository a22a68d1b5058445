SPECIFICATION Spec
CONSTANTS
    c1 = c1
    c2 = c2
    c3 = c3
    text = text
    image = image
    NoType = NoType
    Checks = {c1, c2, c3}
    Types = {text, image}
    Limit <- MCLimit
    MaxLimit = 2
    Window = 2
    BlockTime = 3
    Keys <- MCKeys
    MaxBlind = 2
    MaxBurst = 6
INVARIANTS
    BurstBounded
    LateBounded
PROPERTIES
    LockoutEnds
CHECK_DEADLOCK FALSE
