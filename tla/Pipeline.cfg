SPECIFICATION FairSpec
CONSTANTS
    Count = 9
    Capacity = 2
    MaxBatch = 3
    MaxAcks = 2
    Windows = {1, 2, 3, 9}
INVARIANTS
    TypeOK
    UnackedWithinWindow
    NeverFull
    AllExecutedInOrder
PROPERTY
    BenchmarkEnds
