SPECIFICATION FairSpec
CONSTANTS
    Items = {x, y}
    RequestedCapacity = 3
    Capacity <- round_up_power_of_two
    Laps = 2
    MaxBatch = 3
    NoItem = NoItem
INVARIANTS
    TypeOK
    Bounded
    NoSlotRace
    ViewsInWindow
    EmptyIsReliable
PROPERTIES
    ImplementsFifo
    NobodyStarves
