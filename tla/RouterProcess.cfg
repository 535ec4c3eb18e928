SPECIFICATION FairSpec
CONSTANTS
    Pids = {p1, p2}
    NoPid = NoPid
    MaxStarts = 3
    MaxBoots = 2
    LateExit = FALSE
    PidReuse = TRUE
    OtherListener = TRUE
    UnrecordedCrash = FALSE
INVARIANTS SingleRouter LiveRouterRecorded StoppedMeansStopped ExitErasesRecord
PROPERTIES ExitCollected MutexReleased
CHECK_DEADLOCK FALSE
