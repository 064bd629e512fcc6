SPECIFICATION Spec
CONSTANTS
    Anchors = {chapter, topic}
    Wrappers = {wrapper}
    NoId = NoId
    None = None
    RawTags = {style}
    OtherTags = {nav}
    WordLength = 1
    MaxElements = 4
    MaxNonProse = 2
    MaxWords = 3
    MaxEvents = 7
INVARIANTS
    LocateFollowsReading
    HeadingsNameTheirSection
    LevelsFollowNesting
    BodyIsProse
SYMMETRY AnchorSymmetry
CHECK_DEADLOCK FALSE
