\* Keys: two rotations over two replicas; the second key has no identity.
\* Routes: settings from five paths that are prefixes of each other with and
\* without the end of a segment, and two edits before the engine is made.
\* Rules: one browser, every kind of request and every set of headers removed.
SPECIFICATION MCSpec
CONSTANTS
    Request = {r1, r2}
    Node = {n1, n2}
    Named = {1, 3}
    MaxDeploy = 6
    Character = {"/", "a", "b"}
    Path <- MCPath
    Page <- MCPage
    MaxEdits = 2
    Deployments <- MCDeployments
    Origins <- MCOrigins
    Lower <- MCLower
    Site <- MCSite
INVARIANTS TypesOK RoutesAreReached UsersReturnToTheirPage LoginsAreTheUsers ActivityIsTheUsers LogoutsAreTheUsers
PROPERTIES CookiesStayReadable RoutesSeeTheSession
