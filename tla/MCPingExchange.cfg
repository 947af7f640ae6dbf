CONSTANTS
    Monitors = {"a"}
    MaxCrashes = 1
    Conns <- MCConns
    Lines <- MCLines
    Handlers <- MCHandlers
    OutCap = 1
    MaxLines = 0
SPECIFICATION ExchangeSpec
INVARIANTS
    SuccessIsAnswered
    AnswersAccepted
PROPERTY
    ProbesEnd
\* All probes are made and the server may have stopped.
CHECK_DEADLOCK FALSE
