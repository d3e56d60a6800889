SPECIFICATION DuplexSpec
CONSTANTS
    c1 = c1
    c2 = c2
    status = status
    Channel = {c1, c2}
    Command = {status}
    Kind = "web"
    CanFail = TRUE
    MaxRequests = 3
    MaxTime = 1
SYMMETRY Interchangeable
INVARIANTS
    AnswersMatch
    RequestsAreWaitedFor
    ResponseSettlesRequest
CHECK_DEADLOCK FALSE
