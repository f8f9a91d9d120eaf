SPECIFICATION Spec
CONSTANTS
    g = g
    a1 = a1
    a2 = a2
    a3 = a3
    b1 = b1
    b2 = b2
    b3 = b3
    c2 = c2
    w1 = w1
    w2 = w2
    w3 = w3
    tg = tg
    ca1 = ca1
    ca2 = ca2
    ca3 = ca3
    cb1 = cb1
    cb2 = cb2
    cb3 = cb3
    cc2 = cc2
    p = p
    q = q
    r = r
    s = s
    NoBlock = NoBlock
    NoTx = NoTx
    NoUTXO = NoUTXO
    NoWorker = NoWorker
    NoBatch = NoBatch
    Blocks <- AllBlocks
    Genesis = g
    Parent <- ParentDef
    Txs <- AllTxs
    TxsOf <- TxsOfDef
    Spends <- SpendsDef
    Minted <- MintedDef
    MaxHeight = 3
    MaxReorgDepth = 2
    Offers <- HonestOffers
    ForkBatches = FALSE
    IbdModes = {TRUE, FALSE}
    Targets = {0, 1, 2}
    Recoveries = FALSE
    Workers = {w1}
    MaxCrashes = 2
    MaxLost = 0
    Failures = {"Commit", "deleteOrphanedBlock", "SetChainState"}
INVARIANTS TypeOK MainChainLinked UTXOMatchesChain SupplyFollowsChain BlockIndexBacked
PROPERTY ImplementsLedger
