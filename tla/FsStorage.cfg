SPECIFICATION Spec
CONSTANTS
    MaxSize = 2
    MaxRuns = 3
INVARIANTS
    LostByResetOnly
    ServedUnlessTorn
    IInv
CHECK_DEADLOCK FALSE
