CONSTANTS
    InitialPods = {p1}
    Creates = {}
    Deletable = {p1}
    Mounting = {p1}
    DeleteAlls = {a1}
    Cleanups = {}
    ApiMayFail = TRUE
    Initial = Initial
    None = None
SPECIFICATION FairSpec
INVARIANTS
    CleanedMeansDeleted
    AllDeletedMeansGone
PROPERTIES
    DeletionAnswers
CHECK_DEADLOCK FALSE
