SPECIFICATION Spec
CONSTANTS
    x = x  y = y  z = z  t = t
    a = a  b = b  c = c  d = d
    NoUTXO = NoUTXO
    NoTx = NoTx
    NoRead = NoRead
    Outs <- AllOuts
    Blocks <- AllBlocks
    Creates <- CreatesDef
    Spends <- SpendsDef
    MaxHeight = 3
    Offers <- Batches
    Undo = {"disconnect", "bypass"}
    Readers = {"r1"}
INVARIANTS TypeOK CachedOutputExists NoStaleUnspent
