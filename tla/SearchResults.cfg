SPECIFICATION Spec
CONSTANTS
    RRF_K = 60
    Scale = 2382660
    MaxRank = 3
    NoParent = NoParent
    NoScore = NoScore
    Documents <- MCThreeKinds
    Scores = {4, 10}
    Texts <- MCTexts
    MaxSnippets = 2
    Queries = 2
    MaxRows = 2
    MaxTotal = 3
    MaxLimit = 2
    EXCLUDE_KBASE = FALSE
INVARIANTS
    EmptyOnlyIfNothingFound
    AgreementPrevails
    DisjointListsInterleave
    OnePlacePerDocument
    FusionLosesNoDocument
CHECK_DEADLOCK FALSE
