CONSTANTS
    Closers = {r1}
    Users = {u1, u2}
    Findings = {f1}
    Plans <- TwoPlans
    Edits <- AllAtOnce
    MaxRows = 3
    None = None
    c1 = c1
    c2 = c2
    p1 = p1
SPECIFICATION Spec
INVARIANT CompletedReportsAreWhole
CHECK_DEADLOCK FALSE
