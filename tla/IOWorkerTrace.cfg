SPECIFICATION Spec
CONSTANTS
    Args <- MCArgs
    SEC = 1
    GRACE = 1
    IO_COUNT_MAX = 99
    MaxTime = 4
    MaxIO = 4
INVARIANT WholeTraceReplayed
CHECK_DEADLOCK FALSE
