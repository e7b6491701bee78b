SPECIFICATION Spec
CONSTANTS
    Hash = {0, 1, 2}
    PrefixSize = 2
    IndexLimit = 4
    MaxIndex = 3
    MaxPool = 2
    MaxRestarts = 1
INVARIANTS
    RecordsKept
    IInv
PROPERTIES
    FirstMatchStays
    ImplementsRecordIndex
CHECK_DEADLOCK FALSE
