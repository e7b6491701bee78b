SPECIFICATION FairSpec
CONSTANTS
    i1 = i1
    i2 = i2
    Instance = {i1, i2}
    NoOne = NoOne
    Cert = {c1, c2}
    c1 = c1
    c2 = c2
    n1 = n1
    n2 = n2
    PutId = {n1, n2}
    MaxSize = 1
INVARIANTS
    IInv
    LossNeedsLatePut
PROPERTIES
    OneLogUntilLatePut
    TakenOver
