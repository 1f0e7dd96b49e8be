SPECIFICATION Spec
CHECK_DEADLOCK FALSE

CONSTANTS
    Hashes = {0, 1}
    Modulus = 251
    Lines = 4
    Iterations = 3
    TailRounds = 2
    Compute <- MCCompute
    ToInt <- MCToInt
    Rescale <- MCRescale
    Vector <- MCVector
    Aes <- MCAes
    Pow <- MCPow
    Fill <- MCFill
    State <- MCState
    Seed <- MCSeed
    Cn1Waves = {16, 32}
    Cn2Waves = {4, 16}
    Cap = 1
    Targets = {125, 250}

INVARIANT StatesExact
INVARIANT CandidatesExact
