SPECIFICATION Spec
CONSTANTS
    Pids = {p1, p2, p3}
    NoPid = NoPid
    MaxStarts = 2
    MaxBoots = 1
    LateExit = TRUE
    PidReuse = FALSE
    OtherListener = FALSE
    UnrecordedCrash = FALSE
PROPERTIES WaiterKeepsReplacement
CHECK_DEADLOCK FALSE
