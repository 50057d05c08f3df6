SPECIFICATION Spec
CONSTANTS
    Conns = {1, 2}
    Fds = {4, 5}
    Capacity = 2
    MaxBatch = 2
    MaxLines = 2
    LineKinds = {"command", "malformed"}
    Departures = {"closed", "reset"}
INVARIANTS
    TypeOK
    AnsweredInOrder
    StrangerOnlyAfterReuse
    PipelineInOrder
    LinesReadInOrder
    ExecutedBeforeReturn
\* The gateway may stop, end or wait for ever.
CHECK_DEADLOCK FALSE
