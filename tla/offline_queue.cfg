CONSTANTS
    Handlers = {h1, h2}
    Keys = {1, 2}
    Items = {}
    Requests <- FieldRequests
    None = None
    Tabs = {t1, t2}
    Drafts = {d1}
    Records = {e1}
    Contents = {x1, x2}
    Uploaders = {h1, h2}
    NoFile = NoFile
SPECIFICATION SendingSpec
SYMMETRY Symmetric
INVARIANTS
    WrittenExactlyOnce
    StoreMatchesRows
PROPERTIES
    WritesInOrder
