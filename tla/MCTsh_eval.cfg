SPECIFICATION Spec
CONSTANTS
    p1 = p1
    p2 = p2
    MAXJOBS = 2
    PID = {p1, p2}
    NoPid = NoPid
    Builtins = {}
    UserSignals = {"SIGINT", "SIGTSTP", "SIGQUIT"}
    JidBound = 2
SYMMETRY PidSymmetry
INVARIANTS
    TypeOK
    StoppedIsRecorded
    SleepsOnlyForForeground
