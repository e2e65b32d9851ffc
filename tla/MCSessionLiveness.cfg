\* Two fair requests; an unreachable authorization server, conflicts and a
\* fault use up the budgets, and the second refresh finds the revisions exhausted.
SPECIFICATION FairSpec
CONSTANTS
    Request = {r1, r2}
    NoToken = NoToken
    Policy = {"retire"}
    Routes = {"page", "logout"}
    Handlers = {"update", "leave"}
    MaxRevision = 1
    MaxAttempts = 1
    MaxTries = 2
    MaxFaults = 1
CHECK_DEADLOCK FALSE
INVARIANTS TypeOK RotationNotStranded UpdateAnswersAreTrue
PROPERTIES RequestsAreAnswered
