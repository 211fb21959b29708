CONSTANTS
    WorkOrders = {w1, w2}
    Assets = {a1}
    Users = {u1}
    Kinds <- MCKinds
    Edits <- MCEdits
    Efforts <- MCEfforts
    Costs = {1}
    Weekly = {5}
    Leads = {1, 2}
    Runs = {r1, r2}
    Instants = {3, 5, 9}
    MaxLines = 1
    None = None
    DayLength = 4
    Zones <- MCZones
    Members <- MCMembers
    SoonDays = 1
    HorizonDays = 2
    ForecastDays = 3
    Ages <- MCAges
    GridDays = 2
    Pages = {0, 1}
    Margin = 3
    MonthDays = 2
    WeekDays = 3
    MaxRangeDays = 2
    Filters <- MCFilters
    Features = 2
    Second = w2
    MaxReminders = 2
SYMMETRY Symmetric
SPECIFICATION MCSpec
INVARIANTS
    ReportsAgree
    ReportsCoverTheirDays
    RepairTimesAreSound
CHECK_DEADLOCK FALSE
