SPECIFICATION ExecSpec
CONSTANTS
    OrderIds = {a, b, c, d}
    Prices = {0, 1, 2}
    MaxQuantity = 3
    QuantityMod = 16
    NoOrder = NoOrder
SYMMETRY IdSymmetry
VIEW ReadableState
INVARIANTS
    TypeOK
    IndexMatchesQueues
    NeverCrossed
PROPERTIES
    PriceTimePriority
    NeverSilent
    ReplyAccountsForOrder
