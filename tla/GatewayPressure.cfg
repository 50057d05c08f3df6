SPECIFICATION FairSpec
CONSTANTS
    Conns = {1}
    Fds = {4}
    Capacity = 1
    MaxBatch = 2
    MaxLines = 4
    LineKinds = {"command"}
    Departures = {}
PROPERTIES
    BackpressureEnds
\* The gateway may stop, end or wait for ever.
CHECK_DEADLOCK FALSE
