SPECIFICATION Spec
CONSTANTS
    MaxSize = 2
    MaxRuns = 3
INVARIANT SctIncluded
CHECK_DEADLOCK FALSE
