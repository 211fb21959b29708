CONSTANTS
    Closers = {r1}
    Users = {u1, u2}
    Findings = {f1}
    Plans <- ThreePlans
    Edits <- FillOrBlank
    MaxRows = 3
    None = None
    c1 = c1
    c2 = c2
    p1 = p1
SPECIFICATION Spec
SYMMETRY Symmetric
INVARIANTS
    ClosedCapaIsProven
    ClosedMeansFinished
    ReportedActionsWereImplemented
PROPERTIES
    PlanIsGoverned
CHECK_DEADLOCK FALSE
