SPECIFICATION Spec
CONSTANTS
    Requests = {r1, r2}
    ClientIds = {trace}
    RpcId = RpcId
    None = None
    Statuses = {200, 500}
INVARIANTS
    HttpAccounted
    OwnIdentifier
    AnswerTellsTheLog
CHECK_DEADLOCK FALSE
