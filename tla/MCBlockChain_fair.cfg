SPECIFICATION FairSpec
CONSTANTS
    g = g
    a1 = a1
    a2 = a2
    a3 = a3
    b1 = b1
    b2 = b2
    b3 = b3
    c2 = c2
    w1 = w1
    w2 = w2
    w3 = w3
    tg = tg
    ca1 = ca1
    ca2 = ca2
    ca3 = ca3
    cb1 = cb1
    cb2 = cb2
    cb3 = cb3
    cc2 = cc2
    p = p
    q = q
    r = r
    s = s
    NoBlock = NoBlock
    NoTx = NoTx
    NoUTXO = NoUTXO
    NoWorker = NoWorker
    NoBatch = NoBatch
    Blocks <- AllBlocks
    Genesis = g
    Parent <- ParentDef
    Txs <- AllTxs
    TxsOf <- TxsOfDef
    Spends <- SpendsDef
    Minted <- MintedDef
    MaxHeight = 3
    MaxReorgDepth = 2
    Offers <- TinyOffers
    ForkBatches = FALSE
    IbdModes = {TRUE}
    Targets = {0}
    Recoveries = TRUE
    Workers = {w1, w2}
    MaxCrashes = 0
    MaxLost = 1
    Failures = {"Commit", "Sync", "SetChainState", "DeleteCorruptBlock"}
PROPERTY CallsReturn
CHECK_DEADLOCK FALSE
