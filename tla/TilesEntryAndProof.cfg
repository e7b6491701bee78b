SPECIFICATION Spec
CONSTANTS
    TileWidth = 3
    MaxPool = 2
    MaxSize = 10
    MaxRuns = 1
    TopLevel = 2
    MaxGetEntry = 4
INVARIANT EntryTileFound
CHECK_DEADLOCK FALSE
