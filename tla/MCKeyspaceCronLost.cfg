SPECIFICATION FairSpec

CONSTANTS
    Key = {empty, k1}
    Val = {v1}
    BigVal = {}
    MaxListed = 0
    NoVal = NoVal
    EmptyKey = empty
    Collides <- MCNoCollision
    NoEntry = NoEntry
    Lifetimes = {0, 1}
    NoLife = NoLife
    Never = Never
    Pool = 5
    MaxNow = 3

CHECK_DEADLOCK FALSE

PROPERTIES
    CronExpires
