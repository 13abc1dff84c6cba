CONSTANT N = 3
SPECIFICATION FairSpec
INVARIANTS
    TypeOK
    TrueMeansAllTrue
    FalseHasACause
PROPERTIES
    CombineReturns
CHECK_DEADLOCK FALSE
