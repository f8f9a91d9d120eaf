----------------------------- MODULE BlockChain -----------------------------
(***************************************************************************)
(* The block chain of one TWINS node: the Pebble database behind           *)
(* internal/storage/binary, the in-memory state of BlockChain              *)
(* (internal/blockchain) and the goroutines that change them: block        *)
(* batches from sync, staking and RPC (processBatchUnified), rollbacks     *)
(* (RollbackToHeight) and the recovery of a corrupt tip                    *)
(* (RecoverFromCorruptBlock).                                              *)
(*                                                                         *)
(* A commit of a Pebble batch is one atomic step; what happens between two *)
(* commits, and between an unlocked read and the lock that follows it, is  *)
(* a separate step, so other goroutines and crashes fall in between.       *)
(*                                                                         *)
(* Every transaction has one output, named by the transaction.  A call     *)
(* that returns an error before it has changed anything is an action that  *)
(* is not enabled.                                                         *)
(***************************************************************************)
EXTENDS Integers, Sequences

CONSTANTS
    Blocks,         \* the block hashes of this instance
    Genesis,        \* the network's genesis block
    Parent,         \* Parent[b]: Header.PrevBlockHash
    Txs,            \* transaction hashes
    TxsOf,          \* TxsOf[b]: the transactions of block b
    Spends,         \* Spends[t]: the outputs transaction t spends
    Minted,         \* Minted[b]: value of b's outputs minus value of its inputs
    Offers,         \* block batches callers may submit (sequences of blocks)
    ForkBatches,    \* whether a batch of several blocks may attach below the tip
    IbdModes,       \* answers IsInitialBlockDownload may give
    Targets,        \* heights callers may roll back to
    Recoveries,     \* whether RecoverFromCorruptBlock may be called
    MaxHeight,      \* bound: no block above this height is offered
    MaxReorgDepth,  \* Config.MaxReorgDepth
    Workers,        \* goroutines that call into BlockChain
    MaxCrashes,     \* bound: process crashes
    MaxLost,        \* bound: transaction records lost by the disk
    Failures,       \* the storage operations that may return an error
    NoBlock, NoTx, NoUTXO, NoWorker, NoBatch

Heights == 0 .. MaxHeight

ASSUME BlockAssumption ==
    /\ Genesis \in Blocks
    /\ NoBlock \notin Blocks
    /\ Parent \in [Blocks -> Blocks \cup {NoBlock}]
    /\ \A b \in Blocks : Parent[b] = NoBlock <=> b = Genesis
    /\ Offers \subseteq Seq(Blocks)

ASSUME TxAssumption ==
    /\ NoTx \notin Txs
    /\ TxsOf \in [Blocks -> SUBSET Txs]
    /\ Spends \in [Txs -> SUBSET Txs]
    /\ Minted \in [Blocks -> Int]
    \* The genesis block has only its coinbase.
    /\ \A t \in TxsOf[Genesis] : Spends[t] = {}
    \* CheckBlock refuses a block that spends one output twice.
    /\ \A b \in Blocks : \A s, t \in TxsOf[b] : s # t => Spends[s] \cap Spends[t] = {}

ASSUME BoundAssumption ==
    /\ MaxHeight \in Nat /\ MaxReorgDepth \in Nat
    /\ MaxCrashes \in Nat /\ MaxLost \in Nat
    /\ ForkBatches \in BOOLEAN /\ Recoveries \in BOOLEAN
    /\ Failures \subseteq {"Commit", "Sync", "deleteOrphanedBlock", "SetChainState",
                            "DeleteCorruptBlock"}
    /\ IbdModes \subseteq BOOLEAN
    /\ Targets \subseteq Heights
    /\ NoWorker \notin Workers

\* UTXOData: an output and, in the mark-as-spent model, its spender.  The
\* output is unspent when spentAt is 0.
UTXOData == [height : Heights, spentAt : Heights, spentBy : Txs \cup {NoTx}]

\* The chain-state record (and the pair bestHeight, bestHash).
ChainState == [height : Heights, hash : Blocks \cup {NoBlock}]

\* The key spaces of the database: compact blocks (0x01), height->hash (0x02),
\* hash->height (0x03, -1 when absent), transactions with the block that holds
\* them (0x04), UTXOs, money supply by height, chain state.
Database ==
    [blocks   : SUBSET Blocks,
     hashAt   : [Heights -> Blocks \cup {NoBlock}],
     heightOf : [Blocks -> Heights \cup {-1}],
     txIn     : [Txs -> Blocks \cup {NoBlock}],
     utxo     : [Txs -> UTXOData \cup {NoUTXO}],
     supply   : [Heights -> Int],
     tip      : ChainState]

ASSUME SentinelAssumption == NoUTXO \notin UTXOData /\ NoBatch \notin Database

VARIABLES
    db,         \* what is committed
    batch,      \* the open batch of processBatchInternal over db, or NoBatch
    best,       \* bestHeight and bestHash
    blockIndex, \* the hashes in blockIndex
    knownBlocks,\* hash -> height, -1 when absent
    lock,       \* the holder of processingMu
    rmLock,     \* the holder of RecoveryManager.mu
    pc,         \* pc[w]: where goroutine w is
    job,        \* job[w]: its local variables
    crashes, lost

mem  == <<best, blockIndex, knownBlocks>>
vars == <<db, batch, best, blockIndex, knownBlocks, lock, rmLock, pc, job, crashes, lost>>

\* Locals: a batch's new blocks, how many of them are applied and the height of
\* the first; a rollback's current and target height and the hash read for the
\* target; the height and hash of a corrupt block.
Job == [blocks : Seq(Blocks), done : Nat, h : Heights, target : Heights,
        hash : Blocks \cup {NoBlock}]
NoJob == [blocks |-> <<>>, done |-> 0, h |-> 0, target |-> 0, hash |-> NoBlock]

-----------------------------------------------------------------------------
(* Reads.                                                                  *)

Inputs(b) == UNION {Spends[t] : t \in TxsOf[b]}

\* The transaction of b that spends output t.
SpenderIn(b, t) == IF t \in Inputs(b) THEN CHOOSE s \in TxsOf[b] : t \in Spends[s]
                                      ELSE NoTx

\* storage.GetBlock: the compact block and every transaction it lists.
Readable(b) == b \in db.blocks /\ \A t \in TxsOf[b] : db.txIn[t] # NoBlock

\* hasBlock: the in-memory index first, then the store.
HasBlock(b) == b \in blockIndex \/ b \in db.blocks

\* BlockChain.GetBlockByHeight as an unlocked caller sees it: the caches of the
\* batch in progress come before the store.
BlockAtHeight(h) ==
    IF batch # NoBatch /\ batch.hashAt[h] # db.hashAt[h]
    THEN batch.hashAt[h]
    ELSE IF db.hashAt[h] # NoBlock /\ Readable(db.hashAt[h])
         THEN db.hashAt[h] ELSE NoBlock

\* A chain-state record, read the way loadChainState reads it: a fresh node has
\* none, because connecting the genesis block does not advance a tip of height 0.
TipOf(d) == IF d.tip.hash = NoBlock THEN [height |-> 0, hash |-> Genesis] ELSE d.tip

-----------------------------------------------------------------------------
(* Writes, as functions from a database to a database.                     *)

\* MarkUTXOSpent's stale spending reference, looked up in what is committed:
\* the spending block or transaction is gone, or they no longer agree.
OrphanedRef(u) ==
    \/ db.hashAt[u.spentAt] = NoBlock
    \/ db.txIn[u.spentBy] = NoBlock
    \/ db.txIn[u.spentBy] # db.hashAt[u.spentAt]

\* MarkUTXOSpent succeeds: transaction s at height h may spend output t.
CanSpend(t, s, h) ==
    LET u == batch.utxo[t]
    IN  /\ u # NoUTXO
        /\ \/ u.spentAt = 0
           \/ u.spentAt = h /\ u.spentBy = s
           \/ u.spentAt # 0 /\ OrphanedRef(u)

\* Mutant of AppliedUTXOs: an input is left as it was.
AppliedUTXOsMutNoMark(d, b, h) ==
    [t \in Txs |-> IF t \in TxsOf[b]
                   THEN [height |-> h, spentAt |-> 0, spentBy |-> NoTx]
                   ELSE d.utxo[t]]

\* Outputs are stored unspent over whatever was there; a later transaction of
\* the block may already have spent them.  Other inputs are marked spent.
AppliedUTXOs(d, b, h) ==
    [t \in Txs |->
        IF t \in TxsOf[b]
        THEN [height |-> h, spentAt |-> IF t \in Inputs(b) THEN h ELSE 0,
              spentBy |-> SpenderIn(b, t)]
        ELSE IF t \in Inputs(b)
             THEN [d.utxo[t] EXCEPT !.spentAt = h, !.spentBy = SpenderIn(b, t)]
             ELSE d.utxo[t]]

\* Mutant of MoneySupply: the previous supply is read from what is committed.
MoneySupplyMutCommitted(d, b, h) == db.supply[h - 1] + Minted[b]

\* moneySupply = prevSupply + totalValueOut - totalValueIn, where prevSupply
\* comes from the batch cache before it comes from the store.
MoneySupply(d, b, h) == d.supply[h - 1] + Minted[b]

\* StoreBlockWithHeight records every transaction with the block that holds it,
\* DeleteTransaction removes the record whatever block it names.
StoredTxs(d, b) == [t \in Txs |-> IF t \in TxsOf[b] THEN b ELSE d.txIn[t]]
DeletedTxs(b)   == [t \in Txs |-> IF t \in TxsOf[b] THEN NoBlock ELSE db.txIn[t]]

\* applyBlockToBatch: indexes, block and transactions, UTXOs, supply, and the
\* tip when the block is above the in-memory best height.
ApplyBlock(d, b, h) ==
    [blocks   |-> d.blocks \cup {b},
     hashAt   |-> [d.hashAt EXCEPT ![h] = b],
     heightOf |-> [d.heightOf EXCEPT ![b] = h],
     txIn     |-> StoredTxs(d, b),
     utxo     |-> AppliedUTXOs(d, b, h),
     supply   |-> [d.supply EXCEPT ![h] = MoneySupply(d, b, h)],
     tip      |-> IF h > best.height THEN [height |-> h, hash |-> b] ELSE d.tip]

\* UnspendUTXO: the spending reference is cleared.
Unspent(u) == [u EXCEPT !.spentAt = 0, !.spentBy = NoTx]

\* The part every removal of a block at height h shares.
WithoutBlock(d, b, h) ==
    [d EXCEPT !.blocks = @ \ {b}, !.hashAt = [@ EXCEPT ![h] = NoBlock],
              !.heightOf = [@ EXCEPT ![b] = -1]]

\* The transactions of b in reverse order: created outputs go, spent ones come
\* back, and one that is both goes.
RestoredUTXOs(b) ==
    [t \in Txs |-> IF t \in TxsOf[b] THEN NoUTXO
                   ELSE IF t \in Inputs(b) THEN Unspent(db.utxo[t]) ELSE db.utxo[t]]

\* Mutant of Disconnected: the tip is left where it was.
DisconnectedMutTip(b) ==
    LET h == db.heightOf[b]
    IN  [WithoutBlock(db, b, h) EXCEPT !.txIn = DeletedTxs(b), !.utxo = RestoredUTXOs(b)]

\* disconnectBlock's batch: created outputs deleted, inputs unspent,
\* transaction records, block and indexes deleted, tip set to the parent.
Disconnected(b) ==
    LET h == db.heightOf[b]
    IN  [WithoutBlock(db, b, h) EXCEPT
            !.txIn = DeletedTxs(b), !.utxo = RestoredUTXOs(b),
            !.tip = [height |-> h - 1, hash |-> Parent[b]]]

\* deleteOrphanedBlock: outputs are deleted and inputs unspent in one Pebble
\* batch whose reads go to the committed database, so the restored copy of an
\* output that the block both created and spent is written after its deletion.
SpentBy(b, t) ==
    /\ t \in Inputs(b)
    /\ db.utxo[t] # NoUTXO
    /\ db.utxo[t].spentAt = db.heightOf[b]
    /\ db.utxo[t].spentBy = SpenderIn(b, t)

OrphanUTXOs(b) ==
    [t \in Txs |-> IF ~Readable(b) THEN db.utxo[t]
                   ELSE IF SpentBy(b, t) THEN Unspent(db.utxo[t])
                   ELSE IF t \in TxsOf[b] THEN NoUTXO
                   ELSE db.utxo[t]]

OrphanDeleted(b) ==
    LET h == db.heightOf[b]
    IN  [db EXCEPT
            !.blocks = @ \ {b},
            !.heightOf = [@ EXCEPT ![b] = -1],
            !.hashAt = [@ EXCEPT ![h] = IF db.hashAt[h] = b THEN NoBlock ELSE db.hashAt[h]],
            !.txIn = [t \in Txs |-> IF Readable(b) /\ t \in TxsOf[b]
                                    THEN NoBlock ELSE db.txIn[t]],
            !.utxo = OrphanUTXOs(b)]

\* DeleteCorruptBlock: the transaction hashes come from the compact block if it
\* is still there; UTXOs are found by the heights they were created or spent at.
CorruptHashes(b) == IF b \in db.blocks THEN TxsOf[b] ELSE {}

CorruptUTXOs(b, h) ==
    [t \in Txs |->
        IF /\ db.utxo[t] # NoUTXO /\ db.utxo[t].height = h
           /\ t \in CorruptHashes(b) \/ b \notin db.blocks
        THEN NoUTXO
        ELSE IF db.utxo[t] # NoUTXO /\ db.utxo[t].spentAt = h
             THEN Unspent(db.utxo[t]) ELSE db.utxo[t]]

CorruptDeleted(b, h) ==
    [WithoutBlock(db, b, h) EXCEPT
        !.txIn = [t \in Txs |-> IF t \in CorruptHashes(b) THEN NoBlock ELSE db.txIn[t]],
        !.utxo = CorruptUTXOs(b, h)]

-----------------------------------------------------------------------------
(* processBatchUnified.                                                    *)

Init ==
    /\ db = [blocks   |-> {Genesis},
             hashAt   |-> [h \in Heights |-> IF h = 0 THEN Genesis ELSE NoBlock],
             heightOf |-> [b \in Blocks |-> IF b = Genesis THEN 0 ELSE -1],
             txIn     |-> [t \in Txs |-> IF t \in TxsOf[Genesis] THEN Genesis ELSE NoBlock],
             utxo     |-> [t \in Txs |-> IF t \in TxsOf[Genesis]
                              THEN [height |-> 0, spentAt |-> 0, spentBy |-> NoTx]
                              ELSE NoUTXO],
             supply   |-> [h \in Heights |-> IF h = 0 THEN Minted[Genesis] ELSE 0],
             tip      |-> [height |-> 0, hash |-> NoBlock]]
    /\ batch = NoBatch
    /\ best = [height |-> 0, hash |-> NoBlock]
    /\ blockIndex = {Genesis}
    /\ knownBlocks = [b \in Blocks |-> IF b = Genesis THEN 0 ELSE -1]
    /\ lock = NoWorker /\ rmLock = NoWorker
    /\ pc = [w \in Workers |-> "idle"]
    /\ job = [w \in Workers |-> NoJob]
    /\ crashes = 0 /\ lost = 0

\* The offered batch without the leading blocks that already exist.
NewBlocks(s) ==
    {SubSeq(s, k + 1, Len(s)) :
        k \in {k \in 0 .. Len(s) - 1 : /\ \A i \in 1 .. k : HasBlock(s[i])
                                       /\ ~HasBlock(s[k + 1])}}

\* preValidateBatch: the first block's parent exists and the batch is a chain.
PreValidateBatch(blocks) ==
    /\ HasBlock(Parent[blocks[1]])
    /\ \A i \in 2 .. Len(blocks) : Parent[blocks[i]] = blocks[i - 1]

\* Mutant of HeightAdvances: a block at the tip's own height is let through.
HeightAdvancesMutEqual(blocks, h) == Len(blocks) = 1 => h >= best.height

\* "Variant 3": a single block must land above the current tip.
HeightAdvances(blocks, h) == Len(blocks) = 1 => h > best.height

\* ValidateBlock on a single block outside initial download looks every input
\* up in committed storage; batches and initial download skip the lookup.
InputsAvailable(blocks) ==
    \E ibd \in IbdModes :
        ibd \/ Len(blocks) > 1 \/ \A t \in Inputs(blocks[1]) : db.utxo[t] # NoUTXO

\* processBatchInternal up to its loop, under processingMu: filter, single-block
\* checks, pre-validation, height of the first block from the stored parent.
StartBatch(w, s) ==
    /\ pc[w] = "idle" /\ lock = NoWorker
    /\ \E blocks \in NewBlocks(s) :
        LET parent == Parent[blocks[1]]
            h == db.heightOf[parent] + 1
        IN  /\ PreValidateBatch(blocks)
            /\ h > 0
            /\ HeightAdvances(blocks, h)
            /\ InputsAvailable(blocks)
            /\ ForkBatches \/ Len(blocks) = 1 \/ parent = TipOf(db).hash
            /\ h + Len(blocks) - 1 <= MaxHeight
            /\ job' = [job EXCEPT ![w] = [NoJob EXCEPT !.blocks = blocks, !.h = h]]
    /\ lock' = w
    /\ pc' = [pc EXCEPT ![w] = "apply"]
    /\ batch' = db
    /\ UNCHANGED <<db, mem, rmLock, crashes, lost>>

\* Mutant of NextHeight: height++ also runs before the first block.
NextHeightMutFirst(w) == job[w].h + job[w].done + 1

\* The block that the next turn of the loop works on, and its height.
NextBlock(w)  == job[w].blocks[job[w].done + 1]
NextHeight(w) == job[w].h + job[w].done
AllApplied(w) == job[w].done = Len(job[w].blocks)

\* Every input from outside the block can be marked spent.
InputsSpendable(b, h) ==
    \A t \in Inputs(b) \ TxsOf[b] : CanSpend(t, SpenderIn(b, t), h)

\* One turn of the loop: the next block goes into the batch.
ApplyNext(w) ==
    /\ pc[w] = "apply" /\ ~AllApplied(w)
    /\ InputsSpendable(NextBlock(w), NextHeight(w))
    /\ batch' = ApplyBlock(batch, NextBlock(w), NextHeight(w))
    /\ job' = [job EXCEPT ![w].done = @ + 1]
    /\ UNCHANGED <<db, mem, lock, rmLock, pc, crashes, lost>>

\* Mutant of Return: processingMu is not released.
ReturnMutKeepsLock(w) ==
    /\ pc' = [pc EXCEPT ![w] = "idle"]
    /\ job' = [job EXCEPT ![w] = NoJob]
    /\ UNCHANGED <<lock, rmLock>>

\* The call returns: the goroutine is idle and holds no lock.
Return(w) ==
    /\ pc' = [pc EXCEPT ![w] = "idle"]
    /\ job' = [job EXCEPT ![w] = NoJob]
    /\ lock' = NoWorker
    /\ rmLock' = IF rmLock = w THEN NoWorker ELSE rmLock

\* MarkUTXOSpent fails for the next block, or batch.Commit fails after the last:
\* the error return drops the whole batch.
AbortBatch(w) ==
    /\ pc[w] = "apply"
    /\ IF AllApplied(w) THEN "Commit" \in Failures
       ELSE ~InputsSpendable(NextBlock(w), NextHeight(w))
    /\ batch' = NoBatch
    /\ Return(w)
    /\ UNCHANGED <<db, mem, crashes, lost>>

\* batch.Commit.
CommitBatch(w) ==
    /\ pc[w] = "apply" /\ AllApplied(w)
    /\ db' = batch
    /\ pc' = [pc EXCEPT ![w] = "publish"]
    /\ UNCHANGED <<batch, mem, lock, rmLock, job, crashes, lost>>

\* Mutant of PublishBatch: the in-memory tip is not moved.
PublishBatchMutTip(w) ==
    /\ pc[w] = "publish"
    /\ blockIndex' = blockIndex \cup {job[w].blocks[i] : i \in 1 .. Len(job[w].blocks)}
    /\ batch' = NoBatch
    /\ Return(w)
    /\ UNCHANGED <<db, best, knownBlocks, crashes, lost>>

\* The in-memory state after the commit: the tip if it advanced, blockIndex and
\* knownBlocks for every block of the batch; the batch caches are dropped.
PublishBatch(w) ==
    LET blocks == job[w].blocks
        n == Len(blocks)
        lastHeight == job[w].h + n - 1
        heightIn(b) == job[w].h + (CHOOSE i \in 1 .. n : blocks[i] = b) - 1
        new == {blocks[i] : i \in 1 .. n}
    IN  /\ pc[w] = "publish"
        /\ best' = IF lastHeight > best.height
                   THEN [height |-> lastHeight, hash |-> blocks[n]] ELSE best
        /\ blockIndex' = blockIndex \cup new
        /\ knownBlocks' = [b \in Blocks |-> IF b \in new THEN heightIn(b) ELSE knownBlocks[b]]
        /\ batch' = NoBatch
        /\ Return(w)
        /\ UNCHANGED <<db, crashes, lost>>

\* storage.Sync fails after the commit: the call returns an error, and the blocks
\* are on disk but not in memory.
SyncFails(w) ==
    /\ "Sync" \in Failures
    /\ pc[w] = "publish"
    /\ batch' = NoBatch
    /\ Return(w)
    /\ UNCHANGED <<db, mem, crashes, lost>>

-----------------------------------------------------------------------------
(* RollbackToHeight.                                                       *)

\* The reads and checks that precede the lock.
StartRollback(w, target) ==
    /\ pc[w] = "idle"
    /\ target < best.height
    /\ best.height - target <= MaxReorgDepth
    /\ BlockAtHeight(target) # NoBlock
    /\ pc' = [pc EXCEPT ![w] = "waiting"]
    /\ job' = [job EXCEPT ![w] = [NoJob EXCEPT !.h = best.height, !.target = target,
                                               !.hash = BlockAtHeight(target)]]
    /\ UNCHANGED <<db, batch, mem, lock, rmLock, crashes, lost>>

\* Mutant of LockRollback: the lock is taken whoever holds it.
LockRollbackMutNoWait(w) ==
    /\ pc[w] = "waiting"
    /\ lock' = w
    /\ pc' = [pc EXCEPT ![w] = "disconnect"]
    /\ UNCHANGED <<db, batch, mem, rmLock, job, crashes, lost>>

\* processingMu for the rest of the rollback.
LockRollback(w) ==
    /\ pc[w] = "waiting" /\ lock = NoWorker
    /\ lock' = w
    /\ pc' = [pc EXCEPT ![w] = "disconnect"]
    /\ UNCHANGED <<db, batch, mem, rmLock, job, crashes, lost>>

\* The height index has no readable block here: logged, and the loop goes on.
SkipHeight(w) ==
    LET b == db.hashAt[job[w].h]
    IN  /\ pc[w] = "disconnect" /\ job[w].h > job[w].target
        /\ b = NoBlock \/ ~Readable(b)
        /\ job' = [job EXCEPT ![w].h = @ - 1]
        /\ UNCHANGED <<db, batch, mem, lock, rmLock, pc, crashes, lost>>

\* disconnectBlock's early returns: no hash->height entry, an input's UTXO is
\* missing, or the commit fails.
DisconnectFails(w) ==
    LET b == db.hashAt[job[w].h]
    IN  /\ pc[w] = "disconnect" /\ job[w].h > job[w].target
        /\ b # NoBlock /\ Readable(b)
        /\ \/ db.heightOf[b] = -1
           \/ \E t \in Inputs(b) : db.utxo[t] = NoUTXO
           \/ "Commit" \in Failures
        /\ Return(w)
        /\ UNCHANGED <<db, batch, mem, crashes, lost>>

\* Mutant of Forget: the block stays in blockIndex.
ForgetMutIndex(b) ==
    /\ knownBlocks' = [knownBlocks EXCEPT ![b] = -1]
    /\ UNCHANGED blockIndex

\* The block leaves both in-memory maps.
Forget(b) ==
    /\ blockIndex' = blockIndex \ {b}
    /\ knownBlocks' = [knownBlocks EXCEPT ![b] = -1]

\* disconnectBlock: the commit, then the memory if the parent can be loaded;
\* otherwise the call returns with the memory unchanged.
DisconnectNext(w) ==
    LET b == db.hashAt[job[w].h]
        parent == Parent[b]
    IN  /\ pc[w] = "disconnect" /\ job[w].h > job[w].target
        /\ b # NoBlock /\ Readable(b)
        /\ db.heightOf[b] > 0 /\ \A t \in Inputs(b) : db.utxo[t] # NoUTXO
        /\ db' = Disconnected(b)
        /\ IF Readable(parent)
           THEN /\ best' = [height |-> db.heightOf[b] - 1, hash |-> parent]
                /\ Forget(b)
                /\ job' = [job EXCEPT ![w].h = @ - 1]
                /\ UNCHANGED <<lock, rmLock, pc>>
           ELSE Return(w) /\ UNCHANGED mem
        /\ UNCHANGED <<batch, crashes, lost>>

\* CleanOrphanedBlocks(target): one commit per orphan.
CleanOrphan(w) ==
    /\ pc[w] = "disconnect" /\ job[w].h = job[w].target
    /\ \E b \in Blocks : db.heightOf[b] > job[w].target /\ db' = OrphanDeleted(b)
    /\ UNCHANGED <<batch, mem, lock, rmLock, pc, job, crashes, lost>>

\* cleanKnownBlocksAboveHeight.
KnownUpTo(h) == [b \in Blocks |-> IF knownBlocks[b] > h THEN -1 ELSE knownBlocks[b]]

\* Mutant of FinishRollback: cleanKnownBlocksAboveHeight is not called.
FinishRollbackMutNoTrim(w) ==
    LET target == [height |-> job[w].target, hash |-> job[w].hash]
    IN  /\ pc[w] = "disconnect" /\ job[w].h = job[w].target
        /\ "deleteOrphanedBlock" \in Failures \/ \A b \in Blocks : db.heightOf[b] <= job[w].target
        /\ best' = target
        /\ db' = [db EXCEPT !.tip = target] \/ ("SetChainState" \in Failures /\ db' = db)
        /\ Return(w)
        /\ UNCHANGED <<batch, blockIndex, knownBlocks, crashes, lost>>

\* No orphan is left, but for those whose deletion failed: knownBlocks is
\* trimmed, and memory and then the chain-state record take the target read
\* before the lock.
FinishRollback(w) ==
    LET target == [height |-> job[w].target, hash |-> job[w].hash]
    IN  /\ pc[w] = "disconnect" /\ job[w].h = job[w].target
        /\ "deleteOrphanedBlock" \in Failures \/ \A b \in Blocks : db.heightOf[b] <= job[w].target
        /\ knownBlocks' = KnownUpTo(job[w].target)
        /\ best' = target
        /\ db' = [db EXCEPT !.tip = target] \/ ("SetChainState" \in Failures /\ db' = db)
        /\ Return(w)
        /\ UNCHANGED <<batch, blockIndex, crashes, lost>>

-----------------------------------------------------------------------------
(* RecoverFromCorruptBlock.                                                *)

\* rm.mu, and the reads that precede processingMu.  The caller passes the
\* current best height.
StartRecovery(w) ==
    LET b == db.hashAt[best.height]
    IN  /\ Recoveries
        /\ pc[w] = "idle" /\ rmLock = NoWorker
        /\ best.height > 0
        /\ b # NoBlock /\ b \in db.blocks
        /\ rmLock' = w
        /\ pc' = [pc EXCEPT ![w] = "recover"]
        /\ job' = [job EXCEPT ![w] = [NoJob EXCEPT !.h = best.height, !.hash = b]]
        /\ UNCHANGED <<db, batch, mem, lock, crashes, lost>>

\* SetChainState(parent) comes first, in a commit of its own.
RecoverySetTip(w) ==
    /\ pc[w] = "recover" /\ lock = NoWorker
    /\ lock' = w
    /\ db' = [db EXCEPT !.tip = [height |-> job[w].h - 1, hash |-> Parent[job[w].hash]]]
    /\ pc' = [pc EXCEPT ![w] = "delete"]
    /\ UNCHANGED <<batch, mem, rmLock, job, crashes, lost>>

\* DeleteCorruptBlock, then memory.  knownBlocks is left alone.
RecoveryDelete(w) ==
    LET b == job[w].hash
    IN  /\ pc[w] = "delete"
        /\ db' = CorruptDeleted(b, job[w].h)
        /\ best' = [height |-> job[w].h - 1, hash |-> Parent[b]]
        /\ blockIndex' = blockIndex \ {b}
        /\ Return(w)
        /\ UNCHANGED <<batch, knownBlocks, crashes, lost>>

\* SetChainState or DeleteCorruptBlock fails: the call returns, and in the second
\* case the chain-state record has already moved.
RecoveryFails(w) ==
    /\ \/ "SetChainState" \in Failures /\ pc[w] = "recover" /\ lock = NoWorker
       \/ "DeleteCorruptBlock" \in Failures /\ pc[w] = "delete"
    /\ Return(w)
    /\ UNCHANGED <<db, batch, mem, crashes, lost>>

\* DeleteCorruptBlock's own Sync fails after its commit: the block is gone on disk
\* and not in memory.
RecoverySyncFails(w) ==
    /\ "Sync" \in Failures
    /\ pc[w] = "delete"
    /\ db' = CorruptDeleted(job[w].hash, job[w].h)
    /\ Return(w)
    /\ UNCHANGED <<batch, mem, crashes, lost>>

-----------------------------------------------------------------------------
(* The environment.                                                        *)

\* buildBlockIndex: every hash->height record, once the tip block is loaded.
TipLoaded == db.tip.hash # NoBlock /\ Readable(db.tip.hash)
BuildKnownBlocks == IF TipLoaded THEN db.heightOf ELSE [b \in Blocks |-> -1]

\* The process stops between two commits and starts again.  loadChainState
\* restores the tip, and writes genesis as the tip when there is no chain-state
\* record; blockIndex and knownBlocks are built only when the tip block itself
\* can be loaded from its record.
CrashRestart ==
    /\ crashes < MaxCrashes
    /\ crashes' = crashes + 1
    /\ best' = TipOf(db)
    /\ blockIndex' = IF TipLoaded THEN {db.tip.hash} ELSE {}
    /\ knownBlocks' = BuildKnownBlocks
    /\ batch' = NoBatch
    /\ lock' = NoWorker /\ rmLock' = NoWorker
    /\ pc' = [w \in Workers |-> "idle"]
    /\ job' = [w \in Workers |-> NoJob]
    /\ db' = [db EXCEPT !.tip = TipOf(db)] \/ ("SetChainState" \in Failures /\ db' = db)
    /\ UNCHANGED lost

\* External: the disk loses one transaction record.
LoseTx(t) ==
    /\ lost < MaxLost
    /\ batch = NoBatch
    /\ db.txIn[t] # NoBlock
    /\ db' = [db EXCEPT !.txIn[t] = NoBlock]
    /\ lost' = lost + 1
    /\ UNCHANGED <<batch, mem, lock, rmLock, pc, job, crashes>>

\* A goroutine that has started a call goes on with it.
Step(w) ==
    \/ ApplyNext(w) \/ AbortBatch(w) \/ CommitBatch(w) \/ PublishBatch(w) \/ SyncFails(w)
    \/ LockRollback(w) \/ SkipHeight(w) \/ DisconnectFails(w) \/ DisconnectNext(w)
    \/ CleanOrphan(w) \/ FinishRollback(w)
    \/ RecoverySetTip(w) \/ RecoveryDelete(w) \/ RecoveryFails(w)
    \/ RecoverySyncFails(w)

Next ==
    \/ \E w \in Workers :
        \/ \E s \in Offers : StartBatch(w, s)
        \/ \E h \in Targets : StartRollback(w, h)
        \/ StartRecovery(w)
        \/ Step(w)
    \/ CrashRestart
    \/ \E t \in Txs : LoseTx(t)

Spec == Init /\ [][Next]_vars

\* A goroutine is scheduled again and again, and sync.Mutex, whose starvation
\* mode hands the lock to the longest waiter, lets a waiter in eventually.
FairSpec == Spec /\ \A w \in Workers : SF_vars(Step(w))

-----------------------------------------------------------------------------
(* Properties.                                                             *)

\* The committed chain as a reader of the height index sees it.
Chain == [i \in 1 .. TipOf(db).height + 1 |-> db.hashAt[i - 1]]

Abstract == INSTANCE Ledger WITH chain <- Chain

\* Seen through the height index and the chain-state record, the node behaves as
\* Ledger: a commit appends blocks that extend the chain and spend what it
\* holds, or takes back the last block; a crash, an aborted batch and the
\* cleaning up after a rollback change nothing.
ImplementsLedger == Abstract!Spec

\* Type correctness of the database, the open batch, the memory and the locals.
TypeOK ==
    /\ db \in Database
    /\ batch \in Database \cup {NoBatch}
    /\ best \in ChainState
    /\ blockIndex \subseteq Blocks
    /\ knownBlocks \in [Blocks -> Heights \cup {-1}]
    /\ lock \in Workers \cup {NoWorker}
    /\ rmLock \in Workers \cup {NoWorker}
    /\ pc \in [Workers -> {"idle", "apply", "publish", "waiting", "disconnect",
                           "recover", "delete"}]
    /\ job \in [Workers -> Job]
    /\ crashes \in 0 .. MaxCrashes
    /\ lost \in 0 .. MaxLost

\* The committed height index is one chain: from the chain-state record down to
\* genesis every height names a stored block whose parent is the block one
\* height below.  It holds between any two commits, so after any crash.  While
\* nobody is at work no block is stored above the tip, where it would make the
\* node answer ErrAllBlocksExist when it is offered again.
MainChainLinked ==
    LET tip == TipOf(db)
    IN  /\ db.hashAt[0] = Genesis
        /\ db.hashAt[tip.height] = tip.hash
        /\ \A h \in 0 .. tip.height :
              /\ db.hashAt[h] \in db.blocks
              /\ db.heightOf[db.hashAt[h]] = h
              /\ h > 0 => Parent[db.hashAt[h]] = db.hashAt[h - 1]
        /\ lock = NoWorker =>
              \A b \in Blocks : /\ b \in db.blocks => db.heightOf[b] \in 0 .. tip.height
                               /\ db.heightOf[b] >= 0 => b \in db.blocks

\* The heights of the committed chain whose block creates, or spends, output t.
Creators(t) == {h \in 0 .. TipOf(db).height : t \in TxsOf[db.hashAt[h]]}
Spenders(t) == {h \in 0 .. TipOf(db).height : t \in Inputs(db.hashAt[h])}

\* The UTXO set is the one the committed chain defines: an output is present iff
\* a block of the chain creates it, with that height, and its spender is the
\* transaction of the chain that spends it.  A rollback that stops half way, an
\* aborted batch or a crash leaves no trace of blocks that are not in the chain.
UTXOMatchesChain ==
    lock = NoWorker => \A t \in Txs :
        IF Creators(t) = {} THEN db.utxo[t] = NoUTXO
        ELSE /\ db.utxo[t] # NoUTXO
             /\ db.utxo[t].height \in Creators(t)
             /\ IF Spenders(t) = {} THEN db.utxo[t].spentAt = 0
                ELSE \E h \in Spenders(t) :
                        /\ db.utxo[t].spentAt = h
                        /\ db.utxo[t].spentBy = SpenderIn(db.hashAt[h], t)

\* processingMu serializes the writers: whoever applies, publishes, disconnects
\* or deletes holds it, and a batch is open only then.
SingleWriter ==
    /\ \A w \in Workers : pc[w] \in {"apply", "publish", "disconnect", "delete"} => lock = w
    /\ batch # NoBatch <=> \E w \in Workers : pc[w] \in {"apply", "publish"}

\* No output is spent twice on the committed chain.
NoDoubleSpend ==
    \A h, k \in 0 .. TipOf(db).height :
        h # k => Inputs(db.hashAt[h]) \cap Inputs(db.hashAt[k]) = {}

\* The stored supply of every height of the chain is the supply one height below
\* plus what the chain's block minted, although a disconnect leaves the supply
\* record of its height behind.
SupplyFollowsChain ==
    \A h \in 1 .. TipOf(db).height :
        db.supply[h] = db.supply[h - 1] + Minted[db.hashAt[h]]

\* When nobody holds processingMu, memory and the chain-state record name the
\* same tip.
TipAgreement == lock = NoWorker => best.height = TipOf(db).height
                                   /\ best.hash \in {TipOf(db).hash, db.tip.hash}

\* hasBlock's fast path: no stale entry makes the node refuse a block it lacks.
BlockIndexBacked == lock = NoWorker => blockIndex \subseteq db.blocks

\* Every call that was started returns: no goroutine keeps processingMu or waits
\* for it for ever.
CallsReturn == \A w \in Workers : pc[w] # "idle" ~> pc[w] = "idle"

\* HasBlock's fast path, which decides whether an announced block is requested:
\* no stale entry hides a block the node lacks.
KnownBlocksBacked ==
    lock = NoWorker => \A b \in Blocks : knownBlocks[b] # -1 => b \in db.blocks
=============================================================================
