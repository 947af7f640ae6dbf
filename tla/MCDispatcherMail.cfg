CONSTANTS
    channelNames <- MCWithMail
    channels <- MCChannels
    maxAttempts = 2
    baseDelay = 4
    maxBackoffShift = 1
    Bits = 5
    MaxAlerts = 2
SPECIFICATION Spec
PROPERTY
    DispatchReturns
