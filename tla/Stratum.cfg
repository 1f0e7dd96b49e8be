SPECIFICATION Spec
CHECK_DEADLOCK FALSE

CONSTANTS
    JobA = JobA
    Announcements <- MCAnnouncements
    Nonces = {0}
    MaxJobs = 2
    MaxFaults = 2
    MaxInbox = 2
    Base = 3
    Width = 2
    HashWidth = 4

INVARIANT SessionJobs
INVARIANT ShareConservation
INVARIANT AnswersCounted
INVARIANT FieldsRead
PROPERTY ShareLeaves
PROPERTY Recovers
