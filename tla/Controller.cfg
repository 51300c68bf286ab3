SPECIFICATION Spec
CONSTANTS
    TO = 1
    SHUTDOWN = 1
    ALARM = 1
    Timeouts = {10, 200}
    LONG = 100
    MaxCalls = 3
INVARIANTS
    UsableWhenUp
    
PROPERTIES
    ProgramsOnlyDisabled
    CallsEnd
CHECK_DEADLOCK FALSE
