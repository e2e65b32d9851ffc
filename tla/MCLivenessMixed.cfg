\* Activity and other requests, no faults, a delegated lifetime: ExpireAt is out
\* of the clock's reach.
SPECIFICATION Spec
CONSTANTS
    Request = {r1, r2}
    IdleTimeout = 4
    TouchMinInterval = 2
    RefreshMargin = 1
    TokenLifetime = 3
    ExpireAt = 30
    Kinds = {TRUE, FALSE}
    Latency = 1
    ReapLag = 0
    MaxFaults = 0
    MaxTime = 11
SYMMETRY Symmetry
CHECK_DEADLOCK FALSE
PROPERTIES ActiveSessionsSurvive UsedRecordsAreKept
INVARIANT EntryOutlivesRecord
