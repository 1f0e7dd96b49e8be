SPECIFICATION Spec
CHECK_DEADLOCK FALSE

CONSTANTS
    A = A
    B = B
    p = p
    q = q
    Ids = {A, B}
    Blobs = {p, q}
    Targets = {0, 1}
    Devices <- MCDevices
    PerIter <- MCPerIter
    Pow <- MCPow
    Announcements <- MCAnnouncements
    NonceSpace = 3
    ExactOn = {p}
    MaxJobs = 2
    MaxReserve = 3

INVARIANT TypeOK
INVARIANT SharesSound
INVARIANT NoNonceTwice
INVARIANT OneLatePass
INVARIANT NoResubmit
INVARIANT HitsAccounted
PROPERTY KeepsLedger
