SPECIFICATION FairSpec

CONSTANTS
    k1 = k1
    k2 = k2
    k3 = k3
    k4 = k4
    k5 = k5
    Key = {k1, k2, k3}
    Val = {v1, v2}
    NoVal = NoVal
    Hash <- MCHash
    TableSizes <- MCTableSizes
    InitialSize = 2
    UsedUp = 0
    RehashSteps = {1, 2}
    MaxUsed = 6

CHECK_DEADLOCK FALSE

INVARIANTS
    TypeOK
    NoDuplicateKeys
    EveryEntryFound
    UsedCoversEntries
    OutOfBoundsOnlyAfterLoss
    GrowthNeverRefused

PROPERTIES
    KeptUntilDeleted
    UsedExactKept
    RehashEnds
    ImplementsLossyMap
