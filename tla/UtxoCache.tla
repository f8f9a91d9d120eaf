----------------------------- MODULE UtxoCache -----------------------------
(***************************************************************************)
(* The UTXO cache that BlockChain.New wraps around the database            *)
(* (internal/storage/cached_storage.go).  Batches of the block processor   *)
(* and of disconnectBlock go through CachedBatch, whose Commit writes the  *)
(* database first and then updates the LRU cache; the mempool, RPC,        *)
(* masternode and wallet goroutines read through GetUTXO meanwhile.        *)
(*                                                                         *)
(* CleanOrphanedBlocks and DeleteCorruptBlock are not overridden by        *)
(* CachedStorage: they change the database and leave the cache alone.      *)
(*                                                                         *)
(* An output's record is its height and its spender; the spender is named  *)
(* by its block.  Building a batch touches nothing shared, so a batch is   *)
(* one action up to its commit; a batch that fails changes nothing.        *)
(***************************************************************************)
EXTENDS Integers, Sequences

CONSTANTS
    Outs,       \* outpoints
    Blocks,     \* blocks
    Creates,    \* Creates[b]: the outputs b creates
    Spends,     \* Spends[b]: the outputs b spends
    Offers,     \* batches (sequences of blocks) that may be connected
    Undo,       \* how blocks are taken back: "disconnect", "bypass"
    Readers,    \* goroutines that call GetUTXO beside the block processor
    MaxHeight,  \* bound: length of the chain
    NoUTXO, NoTx, NoRead

ASSUME CacheAssumption ==
    /\ Creates \in [Blocks -> SUBSET Outs]
    /\ Spends \in [Blocks -> SUBSET Outs]
    /\ Offers \subseteq Seq(Blocks)
    /\ Undo \subseteq {"disconnect", "bypass"}
    /\ MaxHeight \in Nat
    /\ NoTx \notin Blocks

\* types.UTXO as the mark-as-spent model sees it.
UTXO == [height : 1 .. MaxHeight, by : Blocks \cup {NoTx}]

ASSUME AbsentAssumption ==
    /\ NoUTXO \notin UTXO
    /\ NoRead \notin [out : Outs, utxo : UTXO]

VARIABLES
    chain,  \* the connected blocks
    store,  \* the committed UTXO records
    cache,  \* CachedStorage.utxoCache, NoUTXO where there is no entry
    step,   \* where CachedBatch.Commit is: "idle", "delete", "spend" or "add"
    todo,   \* deletedUTXOs, spentUTXOs and storedUTXOs of that batch
    reads,  \* reads[r]: the record reader r has fetched and not yet cached
    raced   \* history: the outputs whose entry the code does not keep in step

vars == <<chain, store, cache, step, todo, reads, raced>>

NoOps == [deleted |-> {}, spent |-> {}, stored |-> [o \in Outs |-> NoUTXO]]

Init ==
    /\ chain = <<>>
    /\ store = [o \in Outs |-> NoUTXO]
    /\ cache = [o \in Outs |-> NoUTXO]
    /\ step = "idle"
    /\ todo = NoOps
    /\ reads = [r \in Readers |-> NoRead]
    /\ raced = {}

\* The outputs of s that some reader has fetched and has still to cache: what
\* CacheUTXO adds later is the record of before.
InFlight(s) == {o \in s : \E r \in Readers : reads[r] # NoRead /\ reads[r].out = o}

-----------------------------------------------------------------------------
(* The block processor.                                                    *)

Created(bs) == UNION {Creates[bs[i]] : i \in 1 .. Len(bs)}
Spent(bs)   == UNION {Spends[bs[i]] : i \in 1 .. Len(bs)}

\* Mutant of Stored: an output gets the height of its block's parent.
StoredMutParent(bs, o) ==
    [height |-> Len(chain) + (CHOOSE i \in 1 .. Len(bs) : o \in Creates[bs[i]]) - 1, by |-> NoTx]

\* The record StoreUTXO writes, unspent, for an output the batch creates.
Stored(bs, o) ==
    [height |-> Len(chain) + (CHOOSE i \in 1 .. Len(bs) : o \in Creates[bs[i]]), by |-> NoTx]

\* The block of the batch that spends o.
Spender(bs, o) == bs[CHOOSE i \in 1 .. Len(bs) : o \in Spends[bs[i]]]

\* The blocks are new, create new outputs, and each spends, once, outputs that
\* are unspent in the store or created up to there in the batch.
Connectable(bs) ==
    /\ Len(bs) > 0 /\ Len(chain) + Len(bs) <= MaxHeight
    /\ \A o \in Created(bs) : store[o] = NoUTXO
    /\ \A i, j \in 1 .. Len(bs) :
          i # j => /\ Creates[bs[i]] \cap Creates[bs[j]] = {}
                   /\ Spends[bs[i]] \cap Spends[bs[j]] = {}
    /\ \A i \in 1 .. Len(bs) : \A o \in Spends[bs[i]] :
          \/ store[o] # NoUTXO /\ store[o].by = NoTx
          \/ \E j \in 1 .. i : o \in Creates[bs[j]]

\* The store after MarkUTXOSpent and StoreUTXO of the whole batch.
ConnectedStore(bs) ==
    [o \in Outs |->
        LET u == IF o \in Created(bs) THEN Stored(bs, o) ELSE store[o]
        IN  IF o \in Spent(bs) THEN [height |-> u.height, by |-> Spender(bs, o)] ELSE u]

\* Mutant of ConnectOps: MarkUTXOSpent is not tracked.
ConnectOpsMutNoSpent(bs) ==
    [deleted |-> {}, spent |-> {},
     stored |-> [o \in Outs |-> IF o \in Created(bs) THEN Stored(bs, o) ELSE NoUTXO]]

\* What CachedBatch has tracked by the time it is committed.
ConnectOps(bs) ==
    [deleted |-> {}, spent |-> Spent(bs),
     stored |-> [o \in Outs |-> IF o \in Created(bs) THEN Stored(bs, o) ELSE NoUTXO]]

\* applyBlockToBatch for every block, then Batch.Commit of the wrapped batch.
Connect(bs) ==
    /\ step = "idle"
    /\ Connectable(bs)
    /\ chain' = chain \o bs
    /\ store' = ConnectedStore(bs)
    /\ todo' = ConnectOps(bs)
    /\ step' = "delete"
    /\ raced' = raced \cup (Created(bs) \cap Spent(bs)) \cup InFlight(Spent(bs))
    /\ UNCHANGED <<cache, reads>>

\* The store without block b: what it created is gone, what it spent is unspent.
DisconnectedStore(b) ==
    [o \in Outs |-> IF o \in Creates[b] THEN NoUTXO
                    ELSE IF o \in Spends[b] /\ store[o] # NoUTXO
                         THEN [height |-> store[o].height, by |-> NoTx]
                    ELSE store[o]]

\* Mutant of DisconnectOps: DeleteUTXOWithData is not tracked either.
DisconnectOpsMutNone(b) == NoOps

\* DeleteUTXOWithData is tracked; UnspendUTXO is the wrapped batch's own.
DisconnectOps(b) == [NoOps EXCEPT !.deleted = Creates[b]]

\* disconnectBlock's batch, up to the commit of the wrapped batch.
Disconnect ==
    /\ "disconnect" \in Undo
    /\ step = "idle" /\ Len(chain) > 0
    /\ chain' = SubSeq(chain, 1, Len(chain) - 1)
    /\ store' = DisconnectedStore(chain[Len(chain)])
    /\ todo' = DisconnectOps(chain[Len(chain)])
    /\ step' = "delete"
    /\ raced' = raced \cup InFlight(Creates[chain[Len(chain)]])
    /\ UNCHANGED <<cache, reads>>

\* DeleteCorruptBlock takes the last block back in the database, behind the
\* cache's back.
Bypass ==
    /\ "bypass" \in Undo
    /\ step = "idle" /\ Len(chain) > 0
    /\ chain' = SubSeq(chain, 1, Len(chain) - 1)
    /\ store' = DisconnectedStore(chain[Len(chain)])
    /\ raced' = raced \cup Creates[chain[Len(chain)]]
    /\ UNCHANGED <<cache, step, todo, reads>>

\* The entries of s are removed from the cache.
Without(s) == [o \in Outs |-> IF o \in s THEN NoUTXO ELSE cache[o]]

\* CachedBatch.Commit after the database: deletions, then spent outputs, then
\* additions.  Readers run in between.
ApplyDeletions ==
    /\ step = "delete"
    /\ cache' = Without(todo.deleted)
    /\ step' = "spend"
    /\ UNCHANGED <<chain, store, todo, reads, raced>>

InvalidateSpent ==
    /\ step = "spend"
    /\ cache' = Without(todo.spent)
    /\ step' = "add"
    /\ UNCHANGED <<chain, store, todo, reads, raced>>

ApplyAdditions ==
    /\ step = "add"
    /\ cache' = [o \in Outs |-> IF todo.stored[o] # NoUTXO THEN todo.stored[o] ELSE cache[o]]
    /\ step' = "idle"
    /\ todo' = NoOps
    /\ UNCHANGED <<chain, store, reads, raced>>

\* GetUTXO called by block validation, on the goroutine that also commits.
ValidationRead(o) ==
    /\ step = "idle"
    /\ cache[o] = NoUTXO /\ store[o] # NoUTXO
    /\ cache' = [cache EXCEPT ![o] = store[o]]
    /\ UNCHANGED <<chain, store, step, todo, reads, raced>>

-----------------------------------------------------------------------------
(* The readers and the environment.                                        *)

\* GetUTXO by another goroutine: a miss reads the database ...
FetchUTXO(r, o) ==
    /\ reads[r] = NoRead
    /\ cache[o] = NoUTXO /\ store[o] # NoUTXO
    /\ reads' = [reads EXCEPT ![r] = [out |-> o, utxo |-> store[o]]]
    /\ UNCHANGED <<chain, store, cache, step, todo, raced>>

\* ... and then adds what it has read.
CacheUTXO(r) ==
    /\ reads[r] # NoRead
    /\ cache' = [cache EXCEPT ![reads[r].out] = reads[r].utxo]
    /\ reads' = [reads EXCEPT ![r] = NoRead]
    /\ UNCHANGED <<chain, store, step, todo, raced>>

\* External: the LRU library drops an entry to make room.
Evict(o) ==
    /\ cache[o] # NoUTXO
    /\ cache' = Without({o})
    /\ UNCHANGED <<chain, store, step, todo, reads, raced>>

\* FlushUTXOCache, which the sync loop calls when it detects a stall.
FlushCache ==
    /\ cache' = Without(Outs)
    /\ UNCHANGED <<chain, store, step, todo, reads, raced>>

\* The process stops, perhaps between the two halves of a commit, and starts
\* again with an empty cache.
Restart ==
    /\ cache' = Without(Outs)
    /\ step' = "idle"
    /\ todo' = NoOps
    /\ reads' = [r \in Readers |-> NoRead]
    /\ raced' = {}
    /\ UNCHANGED <<chain, store>>

Next ==
    \/ \E bs \in Offers : Connect(bs)
    \/ Disconnect \/ Bypass
    \/ ApplyDeletions \/ InvalidateSpent \/ ApplyAdditions
    \/ \E o \in Outs : ValidationRead(o)
    \/ \E r \in Readers, o \in Outs : FetchUTXO(r, o)
    \/ \E r \in Readers : CacheUTXO(r)
    \/ \E o \in Outs : Evict(o)
    \/ FlushCache \/ Restart

Spec == Init /\ [][Next]_vars

-----------------------------------------------------------------------------
(* Properties.                                                             *)

\* Type correctness of the store, the cache and the commit in progress.
TypeOK ==
    /\ chain \in Seq(Blocks)
    /\ store \in [Outs -> UTXO \cup {NoUTXO}]
    /\ cache \in [Outs -> UTXO \cup {NoUTXO}]
    /\ step \in {"idle", "delete", "spend", "add"}
    /\ todo \in [deleted : SUBSET Outs, spent : SUBSET Outs,
                 stored : [Outs -> UTXO \cup {NoUTXO}]]
    /\ reads \in [Readers -> [out : Outs, utxo : UTXO] \cup {NoRead}]
    /\ raced \subseteq Outs

\* A reader is never served an output that is not committed, or at a height it
\* was not created at, in whatever order commits, reads, evictions, flushes and
\* restarts fall.  The exceptions are two: a read was in flight when the block
\* that created the output was taken back, or the block was taken back by
\* DeleteCorruptBlock.  And between the commit of a disconnect and its deletions
\* an entry may outlive its output.
CachedOutputExists ==
    \A o \in Outs \ raced : cache[o] # NoUTXO =>
        \/ store[o] # NoUTXO /\ store[o].height = cache[o].height
        \/ step = "delete" /\ o \in todo.deleted

\* The record r says that o is spent by the block that spent it, or o is unspent.
Fresh(o, r) == (store[o] # NoUTXO /\ store[o].by # NoTx) => r.by = store[o].by

\* Once a commit is complete, an output spent in the database is not served as
\* unspent, nor as spent by another block.  The exceptions are two: a read was in
\* flight when the output was spent, or it was created and spent in one batch.
NoStaleUnspent ==
    step = "idle" => \A o \in Outs \ raced : cache[o] # NoUTXO => Fresh(o, cache[o])
=============================================================================
