SPECIFICATION Spec
CONSTANTS
    None = None
    Maint = "maint"
    Peers <- TwoPeers
    Good = {"good"}
    Sessions = {"s1", "s2"}
    Threshold = 2
    IBDThreshold = 3
    BatchSize = 3
    Invs = {1, 3}
    NearTip = 3
    Heights = {1}
    Nets = {2}
    MaxNet = 3
    MaxFaults = 1
    StopTimeout = TRUE
INVARIANTS TypeOK NoStrandedSyncing
PROPERTY Converges
CHECK_DEADLOCK FALSE
