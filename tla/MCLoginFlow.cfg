\* Tabs: two overlapping requests, two flows, every store call may fail.  Clocks:
\* one request at a time on three nodes whose clocks differ by more and by less
\* than the tolerance.
SPECIFICATION MCSpec
CONSTANTS
    Request = {r1, r2}
    Flow = {f1, f2}
    Session = {s1, s2, s3}
    Node = {0, 1, 3}
    Offset <- Clocks
    NoSession = NoSession
    NoFlow = NoFlow
    Keep = Keep
    LoginStateTtl = 2
    MaxClockSkew = 1
    MaxTime = 4
SYMMETRY Symmetry
INVARIANTS FlowsDoNotReplay LoginsHold OrphansAreExplained
PROPERTIES TabsAreIndependent OldSessionsGoInOrder LoginsHaveTheirTime
