CONSTANTS
    InitialPods = {p1}
    Creates = {}
    Deletable = {}
    Mounting = {p1}
    DeleteAlls = {a1}
    Cleanups = {x1}
    ApiMayFail = TRUE
    Initial = Initial
    None = None
SPECIFICATION FairSpec
PROPERTIES
    SweepAnswers
CHECK_DEADLOCK FALSE
