SPECIFICATION ZSpec
CONSTANTS
    Args <- MCArgs
    NSZE = 11
    TABLE = 9
    SECTIONS = 3
    U64 = 64
    MaxIO = 11
    ZSZE = 4
    CAP = 2
INVARIANTS
    StaysInRegion
    OnePassFills
    
PROPERTIES
    SequentialAdvances
CHECK_DEADLOCK FALSE
