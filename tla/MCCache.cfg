SPECIFICATION HSpec
CONSTANTS
    setBits = 1
    linePerSet = 2
    offsetBits = 1
    IntBits = 2
    INVALID = 2
    Addr = {0, 1, 2, 4, 6, 8, 12}
    MaxLines = 7
CHECK_DEADLOCK FALSE
INVARIANTS
    TypeOK
    SetsWellFormed
    MissesFillOrEvict
PROPERTIES
    ImplementsLru
