CONSTANTS
    channelNames <- MCMixed
    channels <- MCChannels
    maxAttempts = 4
    baseDelay = 4
    maxBackoffShift = 1
    Bits = 5
    MaxAlerts = 2
SPECIFICATION Spec
INVARIANTS
    TypeOK
    ReturnMeansFinished
    NoSilentLoss
    AckIsFinal
    OneCallAfterCancel
    NoSenderLeftBehind
    PausesNeverShrink
PROPERTY
    OnlyMailBlocks
