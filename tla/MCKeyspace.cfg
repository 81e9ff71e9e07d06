SPECIFICATION Spec

CONSTANTS
    Key = {empty, k1}
    Val = {v1, v2}
    BigVal = {}
    MaxListed = 0
    NoVal = NoVal
    EmptyKey = empty
    Collides <- MCAllCollide
    NoEntry = NoEntry
    Lifetimes = {0, 1}
    NoLife = NoLife
    Never = Never
    Pool = 5
    MaxNow = 2

SYMMETRY MCSymmetry

CHECK_DEADLOCK FALSE

INVARIANTS
    TypeOK
    ReferencesCounted
    KeysIntact

PROPERTIES
    ImplementsStore
