SPECIFICATION Spec
CONSTANTS
    Qids = {1, 2}
    Devices <- MCDevices
    DEFAULT_IV = 65535
    Ivs = {65535, 1}
    MAX_VECTOR_NUM = 5
    MaxCmds = 2
INVARIANTS
    IssetIsExact
    AssertsHold
PROPERTIES
    WaitdoneEnds
CHECK_DEADLOCK FALSE
