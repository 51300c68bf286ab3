SPECIFICATION Spec
CONSTANTS
    MaxAers = 2
    MaxBatch = 3
    MaxCmds = 4
    MaxEvents = 3
INVARIANTS
    NeverFails
    AersKeptArmed
PROPERTY
    WaitdoneReturns
CHECK_DEADLOCK FALSE
