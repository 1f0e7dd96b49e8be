SPECIFICATION Spec
CHECK_DEADLOCK FALSE

CONSTANTS
    MaxShards = 4
    Speeds = {1, 2, 3}
    MaxStarts = 2

INVARIANT LocalOptimum
INVARIANT BuildHasRoom
PROPERTY TuneEnds
