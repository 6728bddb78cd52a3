\* Two requests and a daily job with a cache that lasts two ticks; three
\* starts of two binaries, two migrations apart.  Both parts really stop: at
\* the bounds of the clock and of the starts.
CONSTANTS
    Readers = {r1, r2}
    DailyJobs = {daily}
    TTL = 2
    RetryDelay = 1
    MaxLoad = 1
    MaxRates = 2
    MaxTime = 4
    Nobody = nobody
    Sessions = {p1, p2, p3}
    Old = b1
    Binaries = {b1, b2}
    Numbers = {1, 3}
    None = none
SPECIFICATION Spec
CHECK_DEADLOCK FALSE
INVARIANT AppliedOnce
PROPERTIES
    Implements
    AttemptsSpaced
    RefreshEnds
    ServesOwnSchema
    RollbackWorks
