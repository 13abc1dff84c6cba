CONSTANTS
    Receivers = {r1, r2, r3}
    NoOne = NoOne
SPECIFICATION FairSpec
INVARIANTS
    TypeOK
    Agreement
PROPERTIES
    KeepsPromise
    ReceiveReturns
