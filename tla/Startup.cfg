SPECIFICATION Spec
CHECK_DEADLOCK FALSE

CONSTANTS
    Lane = 2
    Systems <- MCSystems
    Configs <- MCConfigs
    Cached = {1, 3}

INVARIANT LayoutBest
INVARIANT ValidUsage
INVARIANT LifetimesNest
INVARIANT MinesExact
INVARIANT PlansFitMemory
INVARIANT StatsWhole
INVARIANT VerdictsTrue
PROPERTY StartupEnds
