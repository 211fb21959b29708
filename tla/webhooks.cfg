CONSTANTS
    Subscriptions = {s1}
    Events = {1}
    Handlers = {h1, h2}
    maxAttempts = 2
    MaxOverlaps = 1
    MaxStops = 1
    MaxReplays = 2
    None = None
SPECIFICATION FairSpec
INVARIANTS
    NothingForgotten
PROPERTIES
    EventsAreProcessed
    FailuresSettle
    SuccessIsFinal
