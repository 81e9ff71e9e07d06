SPECIFICATION Spec

CONSTANTS
    Key = {empty, k1}
    Val = {v1, big}
    BigVal = {big}
    MaxListed = 2
    NoVal = NoVal
    EmptyKey = empty
    Collides <- MCNoCollision
    NoEntry = NoEntry
    Lifetimes = {0}
    NoLife = NoLife
    Never = Never
    Pool = 4
    MaxNow = 2

CHECK_DEADLOCK FALSE

INVARIANTS
    ReferencesCounted
