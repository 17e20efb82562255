CONSTANTS
    i1 = i1
    i2 = i2
    i3 = i3
    None = None
    Ids <- MCIds
    Inputs <- MCInputs
SYMMETRY Symmetry
SPECIFICATION Spec
INVARIANTS
    TypeOK
    FileMatchesMemory
    StoredValidNormalized
    DeletedStaysDeleted
