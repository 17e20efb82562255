CONSTANTS
    t1 = t1
    t2 = t2
    i1 = i1
    i2 = i2
    None = None
    Threads <- MCThreads
    Ids <- MCIds
    Inputs <- MCInputs
SPECIFICATION Spec

PROPERTY UpdateReturnsOwnWrite
