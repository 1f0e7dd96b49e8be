SPECIFICATION Spec
CHECK_DEADLOCK FALSE

CONSTANTS
    p1 = p1
    p2 = p2
    k1 = k1
    k2 = k2
    auto = auto
    fixed = fixed
    Procs = {p1, p2}
    Keys = {k1}
    Knobs = {auto, fixed}
    Limits = {2}
    MaxStarts = 2
    MaxFaults = 0

INVARIANT FoundFitsSettings
