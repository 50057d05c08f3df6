SPECIFICATION WorkloadSpec
CONSTANTS
    Count = 5
    OrderIds = {1, 2, 3, 4, 5}
    Prices = {0, 1, 2}
    MaxQuantity = 2
    QuantityMod = 16
    NoOrder = NoOrder
    MidPrice = 1
    Offsets <- SmallOffsets
    MinPrice = 1
    Lots = {1, 2}
    SmallestSweep = 2
VIEW ReadableState
INVARIANTS
    ActivePool
    EveryUnitAccounted
PROPERTIES
    AllAccepted
    CancelMissesOnlyFilled
