CONSTANTS
    JobSets = {{"delete", "start"}, {"delete", "clean", "reload"}, {"start", "clean"},
               {"start", "reload"}}
    PodNeeds = {{"http"}, {"ssh"}}
    ApiMayFail = TRUE
    None = None
SPECIFICATION FairSpec
INVARIANTS
    TypeOK
    TrueMeansServicesGone
    StartedMeansClean
    CleanMeansClean
PROPERTIES
    JobsEnd
CHECK_DEADLOCK FALSE
