CONSTANTS
    Bins = {b1}
    Parts = {p1, p2}
    WorkOrders = {w1}
    MovementKeys = {k1, k2, k3}
    UseKeys = {}
    Handlers = {}
    Statuses = {"PLANNED", "CANCELLED"}
    Archivable = {}
    MaxQuantity = 1
    None = None
    Counts = {c1}
    Clerks = {e1, e2}
SPECIFICATION CountSpec
SYMMETRY Symmetric
INVARIANTS
    AggregateMatchesBins
PROPERTIES
    CompletionLeavesWhatWasCounted
    CountedItemsStayCounted
