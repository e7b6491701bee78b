SPECIFICATION Spec
CONSTANTS
    TileWidth = 3
    MaxPool = 2
    MaxSize = 10
    MaxRuns = 2
    TopLevel = 2
    MaxGetEntry = 4
INVARIANT ProofsServed
CHECK_DEADLOCK FALSE
