SPECIFICATION TextsSpec
CONSTANTS
    Sizes = {2, 5}
    Levels = {1, 2, 3}
    MaxResults = 3
    MaxEntries = 4
    MaxBudget = 24
    SeparatorLength = 2
    HeaderLength = 2
    NoticeLength = 3
    WarningLength = 4
    DOCUMENTATION_MAX_CHARS = 16
    MaxSections = 2
    MinGap = 3
    PerSection = 2
    MIN_PROBE_CHARS = 2
    PROBE_CHARS = 3
    Pages <- MCPages
    Errata <- MCNumbers
    Cves <- MCNumbers
    MaxText = 7
    MaxBody = 5
    MaxPieces = 5
INVARIANTS
    AnswerIsLongestPrefix
    WorstResultsDropFirst
    PassagesWithinBudget
    OutlineKeepsShape
    SpecificIntentWins
    NamesFindTheirDocument
    PassagesKeepTheBest
    PassagesFound
    CleaningKeepsTheTerms
CHECK_DEADLOCK FALSE
