SPECIFICATION Spec
CHECK_DEADLOCK FALSE

CONSTANTS
    s1 = s1
    s2 = s2
    s3 = s3
    PassTime = 17
    TargetTime = 2
    Iterations = 7
    Shards = {s1, s2, s3}
    AutoSlices = 1
    MaxSlices = 9
    StageChoices <- AllStages

INVARIANT HostOwns
INVARIANT ResultsComplete
PROPERTY PassEnds
PROPERTY SlicesSettle
