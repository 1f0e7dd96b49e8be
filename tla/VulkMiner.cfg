SPECIFICATION Spec
CHECK_DEADLOCK FALSE

CONSTANTS
    A = A
    B = B
    p = p
    Ids = {A, B}
    Blobs = {p}
    Targets = {0, 1}
    Devices <- MCDevices
    PerIter <- MCPerIter
    Pow <- MCPow
    Announcements <- MCAnnouncements
    NonceSpace = 2
    ExactOn = {p}
    MaxJobs = 2
    MaxReserve = 1
    MaxFaults = 1
    MaxInbox = 1

PROPERTY LoopImplemented
PROPERTY NetImplemented
PROPERTY HitsDelivered
PROPERTY RestWithoutJob
PROPERTY JobTakenUp
