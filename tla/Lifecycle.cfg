SPECIFICATION FSpec
CONSTANTS
    Pcies = {p1, p2}
    Namespaces = {n1, n2}
    Qpairs = {q1, q2}
    Addrs = {a1, a2}
    None = None
    MaxResets = 2
SYMMETRY Symmetry
INVARIANTS
    FreesOwnQpair
    TestsAreIndependent
    VerificationKept
CHECK_DEADLOCK FALSE
