CONSTANTS
    Plans = {p1}
    Runs = {r1, r2}
    MaxPoint = 2
    Frequencies = {1, 2}
    Skipped = {4}
    MaxOccurrences = 1
    MaxEdits = 2
    MaxStops = 1
    None = None
    m1 = m1
    m2 = m2
    Messages <- OneMessage
    valueOf <- ReadsTwo
    Dates = {2}
    Values = {1}
SPECIFICATION FairSpec
INVARIANTS
    AppliedOnce
    NothingLeftDue
PROPERTIES
    PlansRecur
    MessagesAreProcessed
CHECK_DEADLOCK FALSE
