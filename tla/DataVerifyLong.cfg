SPECIFICATION Spec
CONSTANTS
    r1 = r1
    r2 = r2
    r3 = r3
    main = main
    Reqs <- MCReqs
    Procs <- One
    Owner <- OneOwner
    Region <- Everywhere
    Commands <- LongCommands
    NLB = 3
    TABLE = 2
    WRAP = 2
    MaxCmds = 3
SYMMETRY MCSymmetry
INVARIANT NoFalseMismatch
CHECK_DEADLOCK FALSE
