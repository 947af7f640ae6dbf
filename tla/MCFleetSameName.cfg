CONSTANTS
    ping = ping
    speed = speed
    Percent <- Percent64
    UnitSeq <- MCUnitSeq
    NameOf <- MCSameName
    ConfigOf <- MCConfigOf
    SpeedUnits = {}
    Speeds = {3, 5}
    ThresholdMbps = 4
    historyCap = 2
    MaxChecks = 4
SPECIFICATION Spec
INVARIANT SnapshotShowsChange
