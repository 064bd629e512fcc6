SPECIFICATION Spec
CONSTANTS
    Calls = {c1, c2}
    Documentation = {guide, manual}
    Others = {solution}
    MAX_PASSAGES = 2
    Capacity = 1
    NoOutline = NoOutline
    Absent = Absent
    None = None
    Raised = Raised
CHECK_DEADLOCK FALSE
INVARIANTS
    TypeOK
    AnchorsBelong
    OutlineOnlyDecorates
    DocumentsAccounted
PROPERTY EveryCallEnds
