SPECIFICATION Spec
CONSTANTS
    Sizes = {2, 5}
    Levels = {1, 2, 3}
    MaxResults = 3
    MaxEntries = 4
    MaxBudget = 24
    SeparatorLength = 2
    HeaderLength = 2
    NoticeLength = 3
    WarningLength = 4
    DOCUMENTATION_MAX_CHARS = 16
INVARIANTS
    ResponseWithinBudget
CHECK_DEADLOCK FALSE
