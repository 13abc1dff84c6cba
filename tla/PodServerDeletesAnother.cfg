CONSTANTS
    alice = alice  bob = bob  p1 = p1  c1 = c1  c2 = c2  c3 = c3  d1 = d1
    Users = {alice, bob}
    Names = {p1}
    Candidates <- OneName
    Creates = {c1, c3}
    Deletes = {d1}
    UserOf <- BobC2
    ApiMayFail = FALSE
    MayRestart = TRUE
    None = None
SPECIFICATION Spec
PROPERTY FailedCreateDeletesItsOwn
CHECK_DEADLOCK FALSE
