SPECIFICATION Spec
CONSTANTS
    n1 = n1
    n2 = n2
    n3 = n3
    Signer = Signer
    Entries = {n1, n2}
    None = None
    Nodes = {n1, n2, n3}
    Peers <- LinePeers
    Ids = {1}
    KnownIds = {1}
    Values = {0}
    Keys = {"new", "old"}
    Admins = {n1}
    MaxTime = 1
    MaxAhead = 0
    Skew = 1
    Window = 1
    MaxSigned = 2
    MaxRestarts = 1
    MaxRequests = 1
    MaxEvents = 3
    MaxLossy = 1
    WriteMayFail = FALSE
INVARIANTS TypeOK ManagerNotBehind
PROPERTIES Spread MostRecentStaysActive
CHECK_DEADLOCK FALSE
