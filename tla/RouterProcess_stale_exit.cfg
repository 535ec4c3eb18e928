SPECIFICATION Spec
CONSTANTS
    Pids = {p1, p2, p3}
    NoPid = NoPid
    MaxStarts = 3
    MaxBoots = 1
    LateExit = TRUE
    PidReuse = FALSE
    OtherListener = FALSE
    UnrecordedCrash = FALSE
SYMMETRY PidSymmetry
INVARIANTS SingleRouter
CHECK_DEADLOCK FALSE
