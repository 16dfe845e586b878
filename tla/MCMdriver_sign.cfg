SPECIFICATION Spec
CONSTANTS
    WordBits = 6
    mem_start_brk = 2
    MAX_HEAP = 20
    ALIGNMENT = 2
    sizeof_size_t = 1
    Ids = {0, 2}
    Sizes = {1, 4, 29}
    ByteBits = 2
    num_tracefiles = 1
    Repeats = 2
    MaxOps = 4
INVARIANT VerdictsRight
