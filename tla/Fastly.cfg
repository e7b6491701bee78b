SPECIFICATION Spec
CONSTANTS
    Issuer = {1, 2}
    Chain <- Chains
    TileWidth = 2
    MaxGetEntry = 2
    RequestLimit = 4
    MaxSize = 3
    MaxFaults = 1
INVARIANTS
    IInv
    BudgetKept
    AnswerSound
PROPERTY Followed
CHECK_DEADLOCK FALSE
