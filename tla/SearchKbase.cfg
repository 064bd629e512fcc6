SPECIFICATION Spec
CONSTANTS
    RRF_K = 60
    Scale = 2382660
    MaxRank = 3
    NoParent = NoParent
    NoScore = NoScore
    Documents <- MCThreeKinds
    Scores = {10}
    Texts <- MCFewTexts
    MaxSnippets = 2
    Queries = 1
    MaxRows = 1
    MaxTotal = 4
    MaxLimit = 2
    EXCLUDE_KBASE = TRUE
INVARIANTS
    NoKbaseWhenExcluded
CHECK_DEADLOCK FALSE
