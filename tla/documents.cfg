CONSTANTS
    Revisions = {1, 2}
    Approvers = {a1, a2}
    Readers = {u1}
    Files = {f1, f2}
    Dates = {0, 1}
    Handlers = {h1, h2}
    MaxOverlaps = 1
    None = None
    Issues = {1, 2}
    Texts = {f1, f2}
    Indexers = {i1}
    Searchers = {s1}
    Rankings <- Strict
    resultLimit = 1
    SEARCH_OVERSAMPLE = 1
    maxCandidates = 2
    LastDay = 1
    MaxChanges = 2
    NoVector = NoVector
SPECIFICATION DocumentsSpec
SYMMETRY Symmetric
INVARIANTS
    ReleasedWasApproved
    SearchIsSound
PROPERTIES
    DocumentIsControlled
