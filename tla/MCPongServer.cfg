CONSTANTS
    Conns = {c1}
    Lines <- MCLines
    Handlers <- MCHandlers
    OutCap = 1
    MaxLines = 3
SPECIFICATION Spec
INVARIANTS
    AnswersFollowRequests
    NothingLost
PROPERTIES
    IdleConnectionsEnd
    RunReturns
    HandlersEnd
\* Everything may have come to an end.
CHECK_DEADLOCK FALSE
