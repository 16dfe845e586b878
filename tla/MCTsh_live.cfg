SPECIFICATION FairSpec
CONSTANTS
    p1 = p1
    p2 = p2
    MAXJOBS = 1
    PID = {p1, p2}
    NoPid = NoPid
    Builtins = {}
    UserSignals = {"SIGINT"}
    JidBound = 1
PROPERTIES
    ZombiesReaped
    ForegroundWaitEnds
