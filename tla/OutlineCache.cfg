SPECIFICATION HSpec
CONSTANTS
    Docs = {d1, d2, d3}
    Getters = {g1, g2, g3}
    CacheSize = 2
    NoOutline = NoOutline
    Absent = Absent
    None = None
    Raised = Raised
INVARIANTS
    TypeOK
    OrderMatchesEntries
    CacheBounded
    KeepsMostRecent
PROPERTIES
    MemoSpec
    EveryGetReturns
