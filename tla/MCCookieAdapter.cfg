\* The order of docs/how_to/adapter.md: the engine's cookies after the handler's.
SPECIFICATION Spec
CONSTANTS
    Request = {r1, r2}
    Slots = 3
    Budgets = {2}
    LegacyBatch = 1
    LoginSize = 2
    EngineCookiesLast = TRUE
    MaxSeals = 3
    MaxGrants = 3
SYMMETRY Symmetry
PROPERTY TerminationClearsBrowser
