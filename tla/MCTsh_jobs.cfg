SPECIFICATION Spec
CONSTANTS
    MAXJOBS = 2
    PID = {p1, p2}
    NoPid = NoPid
    p1 = p1
    p2 = p2
    Builtins = {"fg", "bg"}
    UserSignals = {"SIGINT", "SIGTSTP"}
    JidBound = 2
SYMMETRY PidSymmetry
INVARIANTS
    JobsTrackChildren
    ChildrenAreTracked
    AtMostOneForeground
    PromptHasNoForeground
    KeysSpareBackground
PROPERTIES
    ImplementsJobControl
