SPECIFICATION Spec
CONSTANTS
    RRF_K = 60
    Scale = 2382660
    MaxRank = 3
    NoParent = NoParent
    NoScore = NoScore
    Documents <- MCTwoGuides
    Scores = {10}
    Texts <- MCFewTexts
    MaxSnippets = 2
    Queries = 2
    MaxRows = 1
    MaxTotal = 4
    MaxLimit = 1
    EXCLUDE_KBASE = FALSE
INVARIANTS
    DeprecationFlagShown
CHECK_DEADLOCK FALSE
