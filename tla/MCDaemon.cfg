CONSTANTS
    Monitors = {"ping_monitor", "speed_check", "summary_reporter"}
    Servers = {"pong_server"}
    LoopsOf <- MCLoopsOf
    Unbounded = {"speed_check"}
    NoError = "nil"
SPECIFICATION Spec
INVARIANTS
    TypeOK
    NoRoleLeft
    ExitTellsFailure
PROPERTIES
    DaemonStops
    KeepsChecking
