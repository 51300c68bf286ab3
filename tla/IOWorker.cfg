SPECIFICATION Spec
CONSTANTS
    Args <- MCArgs
    SEC = 1
    GRACE = 1
    IO_COUNT_MAX = 99
    MaxTime = 4
    MaxIO = 4
INVARIANTS
    EveryIoAccountedFor
    Throttled
    TraceInOrder
    LogIsLastCompleted
PROPERTIES
    ImplementsIoRun
    Terminates
CHECK_DEADLOCK FALSE
