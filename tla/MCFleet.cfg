CONSTANTS
    ping = ping
    speed = speed
    Percent <- Percent64
    UnitSeq <- MCUnitSeq
    NameOf <- MCNameOf
    ConfigOf <- MCConfigOf
    SpeedUnits = {speed}
    Speeds = {3, 5}
    ThresholdMbps = 4
    historyCap = 2
    MaxChecks = 4
SPECIFICATION Spec
INVARIANTS
    TypeOK
    SlotFollowsMachine
    SummaryTellsTheLog
    AlertsFollowState
    SnapshotShowsChange
