CONSTANTS
    InitialPods = {p1}
    Creates = {c1}
    Deletable = {p1}
    Mounting = {p1, c1}
    DeleteAlls = {}
    Cleanups = {}
    ApiMayFail = TRUE
    Initial = Initial
    None = None
SPECIFICATION Spec
INVARIANTS
    TypeOK
    CleanedMeansDeleted
    StorageReadyMeansReady
PROPERTIES
    NoListedPodLosesStorage
CHECK_DEADLOCK FALSE
