CONSTANTS
    InitialPods = {p1, p2}
    Creates = {}
    Deletable = {p1, p2}
    Mounting = {p1, p2}
    DeleteAlls = {}
    Cleanups = {}
    ApiMayFail = FALSE
    Initial = Initial
    None = None
SPECIFICATION FairSpec
PROPERTY LastPodTakesStorage
CHECK_DEADLOCK FALSE
