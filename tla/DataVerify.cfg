SPECIFICATION Spec
CONSTANTS
    r1 = r1
    r2 = r2
    r3 = r3
    main = main
    worker = worker
    Reqs <- MCReqs
    Procs <- Two
    Owner <- TwoOwners
    Region <- Apart
    Commands <- MCCommands
    NLB = 4
    TABLE = 3
    WRAP = 4
    MaxCmds = 3
SYMMETRY MainSymmetry
INVARIANTS
    
    TableMatchesMedia
    NoFalseMismatch
    CorruptionReported
CHECK_DEADLOCK FALSE
