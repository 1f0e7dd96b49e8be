SPECIFICATION Spec
CHECK_DEADLOCK FALSE

CONSTANTS
    JobA = JobA
    Announcements <- MCAnnouncements
    Nonces = {0}
    MaxJobs = 1
    MaxFaults = 0
    MaxInbox = 1
    Base = 2
    Width = 1
    HashWidth = 1

INVARIANT RefusalsCounted
