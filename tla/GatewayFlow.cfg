SPECIFICATION FairSpec
CONSTANTS
    Conns = {1}
    Fds = {4}
    Capacity = 1
    MaxBatch = 2
    MaxLines = 4
    LineKinds = {"command", "blank"}
    Departures = {"closed"}
INVARIANTS
    NoGapInReplies
    LinesReadInOrder
    ExecutedBeforeReturn
PROPERTIES
    EveryLineRead
    EveryReplyArrives
    StopEnds
\* The gateway may stop, end or wait for ever.
CHECK_DEADLOCK FALSE
