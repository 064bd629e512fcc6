SPECIFICATION Spec
CONSTANTS
    Calls = {c1}
    MAX_QUERIES = 2
    MaxSubmitted = 3
    Outcomes = {"docs", "empty", "invalid", "timeout", "http", "value", "other"}
    NoError = NoError
INVARIANTS
    TypeOK
    AnswerJustified
    NoStrayRequests
    SolrAccounted
    SearchesAccounted
PROPERTIES
    EveryCallEnds
    RequestsDrain
    ServiceSpec
CHECK_DEADLOCK FALSE
