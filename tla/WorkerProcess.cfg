SPECIFICATION Spec
CONSTANTS
    Workers = {w1, w2}
    RETRY = 2
INVARIANTS
    NoSecondaryDuringReset
    ExitedIsDetached
PROPERTY
    CallsReturn
CHECK_DEADLOCK FALSE
