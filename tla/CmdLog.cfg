SPECIFICATION Spec
CONSTANTS
    r1 = r1
    r2 = r2
    r3 = r3
    NoReq = NoReq
    Reqs <- MCReqs
    Heap <- MCHeap
    CMD_LOG_DEPTH = 2
    MaxCmds = 6
SYMMETRY MCSymmetry
INVARIANTS
    PendingHasOwnEntry
    NoLeakedCopy
    
PROPERTIES
    AppliesOwnCommand
