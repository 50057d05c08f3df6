SPECIFICATION Spec
CONSTANTS
    OrderIds = {a, b, c}
    Prices = {0, 1, 2}
    MaxQuantity = 2
    QuantityMod = 8
    NoOrder = NoOrder
    InitialCapacity = 0
    FirstCapacity = 1
SYMMETRY IdSymmetry
VIEW ReadableState
INVARIANTS
    PoolTypeOK
    ListsWellFormed
    PoolPartition
PROPERTIES
    GrowsOnlyWhenFull
    ImplementsStl
