\* Nodes with two smaller budgets and a browser with cookies of a larger one.
SPECIFICATION Spec
CONSTANTS
    Request = {r1, r2}
    Slots = 4
    Budgets = {1, 2}
    LegacyBatch = 1
    LoginSize = 4
    EngineCookiesLast = TRUE
    MaxSeals = 2
    MaxGrants = 2
SYMMETRY Symmetry
PROPERTY ClearingMakesProgress
