SPECIFICATION Spec
CONSTANTS
    p1 = p1
    p2 = p2
    p3 = p3
    p4 = p4
    MAXJOBS = 4
    PID = {p1, p2, p3, p4}
    NoPid = NoPid
    JidBound = 7
SYMMETRY PidSymmetry
INVARIANTS
    OneSlotPerProcess
    EmptyListRestarts
    FreshUnlessWrapped
