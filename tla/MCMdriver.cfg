SPECIFICATION Spec
CONSTANTS
    WordBits = 6
    mem_start_brk = 32
    MAX_HEAP = 20
    ALIGNMENT = 2
    sizeof_size_t = 1
    Ids = {0, 1}
    Sizes = {1, 8, 31}
    ByteBits = 2
    num_tracefiles = 2
    Repeats = 2
    MaxOps = 4
INVARIANTS
    TypeOK
    RangesAreLive
    VerdictsRight
    ReplaysSucceed
    UtilizationBounded
    FreesWhatIsLive
PROPERTIES
    ImplementsAllocator
