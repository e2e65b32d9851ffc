\* Two requests of any kind, every answer the authorization server may give,
\* a fault anywhere.
SPECIFICATION Spec
CONSTANTS
    Request = {r1, r2}
    NoToken = NoToken
    Policy = {"keep", "grace", "retire"}
    Routes = {"page", "logout", "login"}
    Handlers = {"update", "save", "terminate", "leave"}
    MaxRevision = 2
    MaxAttempts = 2
    MaxTries = 2
    MaxFaults = 1
SYMMETRY Symmetry
\* A behaviour ends when every request has been answered.
CHECK_DEADLOCK FALSE
INVARIANTS ClearedMeansEnded CopiesAgreeWithRecord
PROPERTIES TerminationIsFinal TombstoneIsJustified CredentialsOnlyAdvance BehavesAtomically
