CONSTANTS
    Bins = {b1}
    Parts = {p1}
    WorkOrders = {w1, w2}
    MovementKeys = {k1, k2}
    UseKeys = {u1, u2}
    Handlers = {h1}
    Statuses = {"PLANNED", "IN_PROGRESS", "CANCELLED"}
    Archivable = {p1}
    MaxQuantity = 2
    None = None
SPECIFICATION Spec
SYMMETRY Symmetric
INVARIANTS
    ReservedWithinStock
    LedgerTellsAll
    ReservationsCountRealUse
    AlertsMatchTheStock
PROPERTIES
    SlotsArePools
