SPECIFICATION Spec
CONSTANTS
    Calls = {c1}
    Documentation = {guide}
    Others = {solution}
    MAX_PASSAGES = 1
    Capacity = 1
    NoOutline = NoOutline
    Absent = Absent
    None = None
    Raised = Raised
CHECK_DEADLOCK FALSE
INVARIANT NotFoundMeansAbsent
