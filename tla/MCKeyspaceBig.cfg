SPECIFICATION FairSpec

CONSTANTS
    Key = {empty, k1}
    Val = {v1, big}
    BigVal = {big}
    MaxListed = 1
    NoVal = NoVal
    EmptyKey = empty
    Collides <- MCNoCollision
    NoEntry = NoEntry
    Lifetimes = {0, 1}
    NoLife = NoLife
    Never = Never
    Pool = 4
    MaxNow = 3

CHECK_DEADLOCK FALSE

INVARIANTS
    ExpiresWithinDicts

PROPERTIES
    LifetimeHonoured
    EmptyKeyExpires
