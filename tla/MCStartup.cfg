CONSTANTS
    Parse <- MCParse
    Files <- MCFiles
    Second = 1000
    Millisecond = 1
    Half = 8388608
SPECIFICATION Spec
INVARIANTS
    RolesGetWhatTheyNeed
    OneProfilePrecedence
    SummaryIffUnits
    DisabledRolesIgnored
\* A start ends: the daemon runs or run has returned an error.
CHECK_DEADLOCK FALSE
