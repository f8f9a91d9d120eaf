SPECIFICATION FairSpec
CONSTANTS
    MinPing = 1
    Spacing = 1
    MinBroadcast = 1
    Tolerance = 2
    Expiration = 2
    Removal = 3
    MaxBroadcasts = 2
    MaxFaults = 1
    NoEntry = NoEntry
INVARIANTS TypeOK ListedIsAlive
PROPERTIES RemovesOnlyDead OperatingIsEnabled
