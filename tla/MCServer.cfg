\* Requests, e-mails, a job and refreshes around a shutdown.  The system
\* really stops: the process exits.
CONSTANTS
    r1 = r1
    r2 = r2
    j1 = j1
    Requests = {r1, r2}
    Refreshing = {r1}
    Jobs = {j1}
    Slots = 1

SPECIFICATION FairSpec
CHECK_DEADLOCK FALSE
INVARIANTS
    ClosedWhenQuiet
    AcceptedMeansSent
PROPERTIES
    EmailsAnswered
    ShutdownEnds
