CONSTANTS
    Percent <- Percent64
    Configs <- MCConfigs
    MaxChecks = 8
SPECIFICATION Spec
INVARIANTS
    TypeOK
    CountersMatchResults
    EventPayload
    AlertOnFailureOrFill
PROPERTY
    ImplementsPolicy
\* A role stops driving its machine when the daemon shuts down.
CHECK_DEADLOCK FALSE
