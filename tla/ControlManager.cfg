SPECIFICATION Spec
CONSTANTS
    Clients = {c1, c2}
    Names = {a, b, d}
    NoName = NoName
    Models = {m}
    StorageDir = StorageDir
    NoSource = NoSource
    NoJob = NoJob
    ModelsMax = 2
    OutsideLoads = FALSE
    ListFails = FALSE
    ConfigReadFails = FALSE
SYMMETRY ManagerSymmetry
INVARIANTS RefsExist
PROPERTIES LoadedFilesStay AtomicCatalog ActiveRestored
