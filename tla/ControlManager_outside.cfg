SPECIFICATION FairSpec
CONSTANTS
    Clients = {c1, c2}
    Names = {a, b}
    NoName = NoName
    Models = {m}
    StorageDir = StorageDir
    NoSource = NoSource
    NoJob = NoJob
    ModelsMax = 1
    OutsideLoads = TRUE
    ListFails = TRUE
    ConfigReadFails = FALSE
PROPERTIES CreateAtomic CascadeComplete StoppedStays GateReleased
