CONSTANTS
    Tokens = {t1}
    Keys = {k1, k2, k3}
    Views = {"STATUS"}
    Handlers = {h1, h2}
    Grants <- AllOrViews
    Expiries = {3}
    REQUESTS_PER_HOUR = 1
    VIEWS_PER_HOUR = 1
    Hour = 1
    MaxTime = 3
    None = None
    Clients = {c1, c2, c3}
    limit = 2
    windowMs = 2
    maxKeys = 2
    MaxClock = 5
    MaxCount = 3
    NoEntry = NoEntry
    SavedViewIds = {k1, k2, k3}
    ViewNames = {n1, n2}
    Askers = {h1, h2}
    ViewLimit = 2
    HistoryLimit = 2
    MaxViewRows = 4
SPECIFICATION LimitsSpec
SYMMETRY Symmetric
INVARIANTS
    CreationIsIdempotent
    BudgetsHold
    ViewsAreConsistent
    QuotaHolds
CHECK_DEADLOCK FALSE
