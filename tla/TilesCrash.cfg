SPECIFICATION Spec
CONSTANTS
    TileWidth = 3
    MaxPool = 2
    MaxSize = 9
    MaxRuns = 2
    TopLevel = 2
    MaxGetEntry = 4
INVARIANTS
    IInv
    NoHashMissing
    RootIsOfTheTree
    ReloadSucceeds
    DataTileMatches
    LeftoversConfined
    SoundProofsServed
    SoundEntriesServed
    EntryMatchesProof
PROPERTY
    RootGrows
CHECK_DEADLOCK FALSE
