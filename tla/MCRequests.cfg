\* Lifetimes: two clocks that differ by more than the tolerance at login and by
\* less soon after; caps of 1.5 and 2.5 seconds and delegation; two units to the
\* second.  Refreshes: one unit is 100 ms; backoffs of 100, 200 and 400 ms, jitter
\* of 0 or 1 unit, and a longest delay that servers keep to or exceed.
\* Guards: four rotations of the refresh token.  Two overlapping requests each.
SPECIFICATION MCSpec
CONSTANTS
    Request = {r1, r2}
    Node = {0, 3}
    Offset <- Clocks
    Caps = {{}, {3}, {5}}
    Second = 2
    MaxClockSkew = 2
    MaxAge = 4
    MaxTime = 9
    Margins = {4, 5}
    Lifetimes = {5}
    Granted = {2}
    RetryAfter = {{}, {3}, {6}}
    BaseDelay = 1
    JitterMax = 2
    MaxDelay = 4
    MaxAttempts = 3
    MaxClock = 5
    MaxRotation = 4
SYMMETRY Symmetry
INVARIANTS RequestsAreNotHeld EveryRotationHasOneFate
PROPERTIES ServedWithinEveryCap LifetimeIsGranted CookiesLastLongEnough RetryAfterIsHonoured ServedTokensAreLive RefreshesInTheWindow
