SPECIFICATION Spec
CONSTANTS
    Conns = {1}
    Fds = {4}
    Capacity = 1
    MaxBatch = 1
    MaxLines = 1
    LineKinds = {"command"}
    Departures = {}
INVARIANTS
    MatchingDrained
\* The gateway may stop, end or wait for ever.
CHECK_DEADLOCK FALSE
