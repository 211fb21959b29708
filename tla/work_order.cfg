CONSTANTS
    Handlers = {h1, h2}
    Keys = {k1}
    Items = {i1}
    Requests <- MixedRequests
    None = None
    DayLength = 4
    Zones <- TwoZones
    Days = {1, 2, 3}
    Starts = {6}
    Dues = {7}
    MaxInstant = 16
    defaultHour = 2
SPECIFICATION PlanningSpec
SYMMETRY Symmetric
INVARIANTS
    DatesMatchStatus
    DoneMeansWritten
PROPERTIES
    ReschedulingKeepsTheClock
