SPECIFICATION Spec
CHECK_DEADLOCK FALSE

CONSTANTS
    Hashes = {0}
    Modulus = 251
    Lines = 4
    Iterations = 1
    TailRounds = 1
    Compute <- MCCompute
    ToInt <- MCToInt
    Rescale <- MCRescale
    Vector <- MCVector
    Aes <- MCAes
    Pow <- MCPow
    Fill <- MCFill
    State <- MCState
    Seed <- MCSeed
    Cn1Waves = {8}
    Cn2Waves = {8}
    Cap = 1
    Targets = {125}

INVARIANT ExactOnEveryWave
