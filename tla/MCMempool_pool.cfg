SPECIFICATION Spec
CONSTANTS
    o1 = o1  o2 = o2
    a = a  b = b  c = c  d = d  e = e  s = s
    w1 = w1  w2 = w2
    None = None
    Txs <- AllTxs
    Base = {o1, o2}
    StakeTxs = {s}
    Inputs <- InputsDef
    Offers <- PoolBlocks
    MaxHeight = 1
    MaxTransactions = 1
    MaxOrphans = 1
    MaxAdds = 3
    MaxOps = 1
    Workers = {w1, w2}
INVARIANTS TypeOK SpentIndexExact PoolBound FeeIndexExact PoolFollowsChain
PROPERTIES ImplementsPool
SYMMETRY Symmetry
CHECK_DEADLOCK FALSE
