\* Two requests refresh at once, and the later answer takes as long as the token
\* of the first one lives (a unit is a second; no retries).
SPECIFICATION RefreshSpec
CONSTANTS
    Request = {r1, r2}
    Margins = {4}
    Lifetimes = {5}
    Granted = {2}
    RetryAfter = {{}}
    BaseDelay = 1
    JitterMax = 1
    MaxDelay = 4
    MaxAttempts = 1
    MaxClock = 6
SYMMETRY Symmetry
PROPERTIES ActiveIsUsable
