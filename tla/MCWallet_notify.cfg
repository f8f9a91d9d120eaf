SPECIFICATION Spec
CONSTANTS
    o1 = o1  o2 = o2
    a = a  b = b  c = c  d = d  s = s
    p1 = p1  p2 = p2
    None = None
    Sender = Sender
    Proc = Proc
    Txs <- AllTxs
    Base = {o1, o2}
    StakeTxs = {s}
    Inputs <- InputsDef
    Mine = {o1, o2, a, s}
    Sends = {a, c}
    Offers = {{b}}
    Peers = {p1, p2}
    MaxPending = 2
    MaxHeight = 2
    MaxAdds = 2
    MaxRemovals = 1
    MaxUndos = 1
    MaxStops = 1
    MaxCrashes = 1
    MaxMisses = 1
    MaxEvents = 3
SYMMETRY Symmetry
INVARIANTS TypeOK WalletFollowsChain PendingFollowsPool OfferedNotPooled StakeBlockValid
CHECK_DEADLOCK FALSE
