SPECIFICATION Spec
CHECK_DEADLOCK FALSE

CONSTANTS
    MaxShards = 4
    Speeds = {1, 2}
    MaxStarts = 1

INVARIANT CandidateDropped
