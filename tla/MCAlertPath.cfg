CONSTANTS
    Percent <- Percent64
    channelNames <- MCChannelNames
    channels <- MCChannels
    maxAttempts = 2
    baseDelay = 4
    maxBackoffShift = 1
    Bits = 5
    MaxAlerts = 5
    UnitConfig <- MCUnitConfig
    MaxChecks = 5
SPECIFICATION PathSpec
INVARIANTS
    NoFalseAlarm
    ChannelsKnowState
PROPERTY
    UnitStops
\* All checks are made, or the unit has stopped.
CHECK_DEADLOCK FALSE
