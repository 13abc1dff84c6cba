CONSTANTS
    alice = alice  bob = bob  p1 = p1
    Users = {alice, bob}
    Names = {p1}
    Candidates <- AliceOnly
    Creates = {c1}
    Deletes = {}
    UserOf <- AllAlice
    ApiMayFail = TRUE
    MayRestart = TRUE
    None = None
    WatchRequests = {w1}
    OwnsPodMayFail = TRUE
SPECIFICATION FairWatchSpec
INVARIANTS
    WatchTypeOK
PROPERTIES
    NonOwnerLearnsNothing
    DeletedAnswerMeansGone
    WatchAnswers
    StatusIsTrue
CHECK_DEADLOCK FALSE
