CONSTANTS
    r1 = r1
    r2 = r2
    m1 = m1
    m2 = m2
    bad = bad
    Threads <- MCThreads
    Names <- MCNames
    Requests <- MCRequests
    SaveCanFail = FALSE
SYMMETRY Symmetry
SPECIFICATION Spec
INVARIANT
    AppliedNeverLost
