CONSTANTS
    Entries = {e1, e2, e3, e4}
    Null = NULL
    Garbage = Garbage
    VECTOR_INIT_SIZE = 2
    VECTOR_GROW_FACTOR = 2
    MaxIndex = 4
SYMMETRY EntrySymmetry
SPECIFICATION Spec
INVARIANTS
    TypeOK
    HeldIsOwned
PROPERTIES
    IsADeque
    LeaksOnlyWhenFull
