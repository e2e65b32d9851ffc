\* Two requests on nodes with one budget; the largest slot is never configured.
SPECIFICATION Spec
CONSTANTS
    Request = {r1, r2}
    Slots = 3
    Budgets = {2}
    LegacyBatch = 1
    LoginSize = 2
    EngineCookiesLast = FALSE
    MaxSeals = 3
    MaxGrants = 3
SYMMETRY Symmetry
PROPERTIES BehavesAsOneCookie HandlerHasTheLastWord RefreshReachesBrowser
