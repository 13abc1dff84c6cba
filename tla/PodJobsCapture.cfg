CONSTANTS
    JobSets = {{"delete"}}
    PodNeeds = {{"http", "ssh"}}
    ApiMayFail = TRUE
    None = None
SPECIFICATION Spec
INVARIANT TrueMeansServicesGone
CHECK_DEADLOCK FALSE
