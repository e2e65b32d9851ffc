\* Requests that are not activity keep refreshing: the fail-open window has no end.
SPECIFICATION Spec
CONSTANTS
    Request = {r1, r2}
    IdleTimeout = 2
    TouchMinInterval = 1
    RefreshMargin = 1
    TokenLifetime = 2
    ExpireAt = 30
    Kinds = {TRUE, FALSE}
    Latency = 0
    ReapLag = 0
    MaxFaults = 0
    MaxTime = 9
SYMMETRY Symmetry
CHECK_DEADLOCK FALSE
PROPERTY FailOpenIsBounded
