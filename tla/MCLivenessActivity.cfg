\* Every request is activity, a fault anywhere, late reaping, a refresh margin
\* with a random part; the clock passes the bound and the absolute deadline.
SPECIFICATION Spec
CONSTANTS
    Request = {r1, r2}
    IdleTimeout = 2
    TouchMinInterval = 1
    RefreshMargin = 4
    TokenLifetime = 5
    ExpireAt = 10
    Kinds = {TRUE}
    Latency = 1
    ReapLag = 1
    MaxFaults = 1
    MaxTime = 11
SYMMETRY Symmetry
CHECK_DEADLOCK FALSE
PROPERTY FailOpenIsBounded
