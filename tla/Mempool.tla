------------------------------ MODULE Mempool ------------------------------
(* The transaction pool (mempool/mempool.go, mempool/orphans.go) under the  *)
(* goroutines that use it: workers that add transactions (peer read loops,  *)
(* RPC), the block processor that removes confirmed ones after its commit,  *)
(* the expiry routine, RPC removals and the Clear of the sync state         *)
(* machine.  A transaction has one output, named by the transaction.        *)
EXTENDS Integers, Sequences, FiniteSets, SequencesExt

CONSTANTS
    Txs,             \* transactions
    Base,            \* the ones confirmed from the start
    StakeTxs,        \* coinstakes: second transaction of a block, never pooled
    Inputs,          \* Inputs[t]: the outputs t spends
    Offers,          \* blocks that may be connected, as sets of transactions
    MaxHeight,       \* bound on the number of connected blocks
    MaxTransactions, \* config.MaxTransactions
    MaxOrphans,      \* config.MaxOrphans
    MaxAdds,         \* bound on the calls of AddTransaction
    MaxOps,          \* bound on removals, expiries, rebuilds, clears, rollbacks and
                     \* failures of storage.Sync
    Workers,         \* goroutines that call AddTransaction
    None

PoolTxs == Txs \ (Base \cup StakeTxs)

ASSUME TxAssumption ==
    /\ IsFiniteSet(Txs) /\ Base \subseteq Txs /\ StakeTxs \subseteq Txs
    /\ Base \cap StakeTxs = {}
    /\ Inputs \in [Txs -> SUBSET Txs]
    /\ \A t \in PoolTxs : Inputs[t] # {}
    /\ Offers \subseteq SUBSET (PoolTxs \cup StakeTxs)
    /\ None \notin Txs

ASSUME BoundAssumption ==
    /\ MaxHeight \in Nat /\ MaxTransactions \in Nat \ {0} /\ MaxOrphans \in Nat \ {0}
    /\ MaxAdds \in Nat /\ MaxOps \in Nat /\ IsFiniteSet(Workers)

VARIABLES
    chain,          \* connected blocks, oldest first
    txs,            \* mp.txs
    spentOutpoints, \* mp.spentOutpoints
    byFeeRate,      \* mp.byFeeRate: how often each transaction is listed
    orphans,        \* mp.orphans, oldest first
    count,          \* mp.stats.TransactionCount
    pc, job,        \* position and locals of each worker
    block,          \* block whose transactions are being removed, and toRemove
    owed,           \* removals whose statistics update is outstanding
    clearing,       \* progress of Clear
    adds, ops,      \* calls so far, for the bounds
    raced, reset    \* history: see Overlaps and ClearStats

poolVars == <<txs, spentOutpoints, byFeeRate>>
workerVars == <<pc, job, adds>>
history == <<raced, reset>>
vars == <<chain, poolVars, orphans, count, workerVars, block, owed, clearing, ops, history>>

Job == [tx : PoolTxs \cup {None}, nested : BOOLEAN, queue : Seq(PoolTxs), cands : SUBSET PoolTxs]
NoJob == [tx |-> None, nested |-> FALSE, queue |-> <<>>, cands |-> {}]
NoBlock == [txs |-> {}, collected |-> TRUE, toRemove |-> {}]

Init ==
    /\ chain = <<>> /\ txs = {} /\ orphans = <<>> /\ count = 0
    /\ spentOutpoints = [o \in Txs |-> None]
    /\ byFeeRate = [t \in Txs |-> 0]
    /\ pc = [w \in Workers |-> "idle"] /\ job = [w \in Workers |-> NoJob]
    /\ block = NoBlock /\ owed = 0 /\ clearing = "no" /\ adds = 0 /\ ops = 0
    /\ raced = {} /\ reset = FALSE

-----------------------------------------------------------------------------
(* What the pool reads of the chain.                                       *)

Confirmed == Base \cup UNION {chain[i] : i \in DOMAIN chain}
SpentOnChain == UNION {Inputs[t] : t \in Confirmed \ Base}
\* GetUTXO finds the output and isUTXOGenuinelySpent answers no.
Unspent == Confirmed \ SpentOnChain

\* A block whose transactions spend unspent outputs, each at most once.
ValidBlock(b) ==
    /\ Cardinality(b \cap StakeTxs) <= 1
    /\ \A t \in b : t \notin Confirmed /\ Inputs[t] \subseteq Unspent
    /\ \A t, u \in b : t # u => Inputs[t] \cap Inputs[u] = {}

-----------------------------------------------------------------------------
(* addTransaction.                                                         *)

\* Workers between the insertion of their transaction and its statistics.
Uncounted == {w \in Workers : pc[w] \in {"index", "count"}}
\* Workers that have validated their transaction and not yet returned.
InFlight == {w \in Workers : pc[w] \in {"capacity", "insert", "index", "count"}}

\* isOrphan
IsOrphan(t) == \E o \in Inputs[t] : o \notin txs /\ o \notin Confirmed

\* Mutant of Conflicts: only the same transaction counts.
ConflictsMutSame(t) == t \in txs

\* checkConflicts, and its repetition under the write lock
Conflicts(t) == \E o \in Inputs[t] : spentOutpoints[o] # None

\* The orphans s without t, which they list at most once.
Without(t, s) ==
    IF t \in ToSet(s) THEN RemoveAt(s, CHOOSE i \in DOMAIN s : s[i] = t) ELSE s

\* addTransaction returns an error: the call is over, or it was made by
\* processOrphans, which drops the orphan unless inputs are still missing.
Fail(w, missing) ==
    /\ pc' = [pc EXCEPT ![w] = IF job[w].nested THEN "next" ELSE "idle"]
    /\ job' = [job EXCEPT ![w] = IF job[w].nested THEN [job[w] EXCEPT !.tx = None] ELSE NoJob]
    /\ orphans' = IF job[w].nested /\ ~missing THEN Without(job[w].tx, orphans) ELSE orphans

GoTo(w, step) == pc' = [pc EXCEPT ![w] = step] /\ UNCHANGED <<job, orphans>>

\* AddTransaction is called.
Add(w, t) ==
    /\ pc[w] = "idle" /\ adds < MaxAdds
    /\ adds' = adds + 1
    /\ pc' = [pc EXCEPT ![w] = "check"]
    /\ job' = [job EXCEPT ![w] = [NoJob EXCEPT !.tx = t]]
    /\ UNCHANGED <<chain, poolVars, orphans, count, block, owed, clearing, history, ops>>

\* HasTransaction and isOrphan.
Check(w) ==
    /\ pc[w] = "check"
    /\ IF job[w].tx \in txs THEN Fail(w, FALSE)
       ELSE GoTo(w, IF IsOrphan(job[w].tx) THEN "orphan" ELSE "validate")
    /\ UNCHANGED <<chain, poolVars, count, adds, block, owed, clearing, history, ops>>

\* addOrphan with evictOldestOrphan
StoredOrphans(t) ==
    IF t \in ToSet(orphans) THEN orphans
    ELSE Append(IF Len(orphans) >= MaxOrphans THEN Tail(orphans) ELSE orphans, t)

\* The transaction that was found to lack inputs is stored as an orphan and
\* addTransaction returns RejectOrphan.
StoreOrphan(w) ==
    /\ pc[w] = "orphan"
    /\ orphans' = StoredOrphans(job[w].tx)
    /\ pc' = [pc EXCEPT ![w] = IF job[w].nested THEN "next" ELSE "idle"]
    /\ job' = [job EXCEPT ![w] = IF job[w].nested THEN [job[w] EXCEPT !.tx = None] ELSE NoJob]
    /\ UNCHANGED <<chain, poolVars, count, adds, block, owed, clearing, history, ops>>

\* checkConflicts, then validateTransaction: every input must be an output of
\* a confirmed transaction (RejectOrphan otherwise) that no confirmed
\* transaction spends.  Outputs of pooled transactions are not found.
Validate(w) ==
    /\ pc[w] = "validate"
    /\ IF Conflicts(job[w].tx) THEN Fail(w, FALSE)
       ELSE IF Inputs[job[w].tx] \subseteq Unspent THEN GoTo(w, "capacity")
       ELSE Fail(w, ~(Inputs[job[w].tx] \subseteq Confirmed))
    /\ UNCHANGED <<chain, poolVars, count, adds, block, owed, clearing, history, ops>>

\* checkCapacity reads the statistics, not the map.
CheckCapacity(w) ==
    /\ pc[w] = "capacity"
    /\ IF count >= MaxTransactions THEN Fail(w, FALSE) ELSE GoTo(w, "insert")
    /\ UNCHANGED <<chain, poolVars, count, adds, block, owed, clearing, history, ops>>

\* The map and the spent-outpoint index, under the write lock.
Insert(w) ==
    LET t == job[w].tx IN
    /\ pc[w] = "insert"
    /\ \/ /\ Conflicts(t)
          /\ Fail(w, FALSE)
          /\ UNCHANGED poolVars
       \/ /\ ~Conflicts(t)
          /\ txs' = txs \cup {t}
          /\ spentOutpoints' = [o \in Txs |-> IF o \in Inputs[t] THEN t ELSE spentOutpoints[o]]
          /\ GoTo(w, "index")
          /\ UNCHANGED byFeeRate
    /\ UNCHANGED <<chain, count, adds, block, owed, clearing, history, ops>>

\* updateIndexes
UpdateIndexes(w) ==
    /\ pc[w] = "index"
    /\ byFeeRate' = [byFeeRate EXCEPT ![job[w].tx] = @ + 1]
    /\ GoTo(w, "count")
    /\ UNCHANGED <<chain, txs, spentOutpoints, count, adds, block, owed, clearing, history, ops>>

\* Mutant of UpdateAddStats: the statistics are forgotten.
UpdateAddStatsMutNoCount(w) ==
    /\ pc[w] = "count"
    /\ pc' = [pc EXCEPT ![w] = "next"]
    /\ job' = [job EXCEPT ![w] = [job[w] EXCEPT !.tx = None, !.nested = TRUE, !.queue = Append(@, job[w].tx)]]
    /\ orphans' = IF job[w].nested THEN Without(job[w].tx, orphans) ELSE orphans
    /\ UNCHANGED <<chain, poolVars, count, adds, block, owed, clearing, history, ops>>

\* updateAddStats.  addTransaction returns: its transaction joins the queue of
\* processOrphans, and leaves the orphans if it came from there.
UpdateAddStats(w) ==
    /\ pc[w] = "count"
    /\ count' = count + 1
    /\ pc' = [pc EXCEPT ![w] = "next"]
    /\ job' = [job EXCEPT ![w] = [job[w] EXCEPT !.tx = None, !.nested = TRUE, !.queue = Append(@, job[w].tx)]]
    /\ orphans' = IF job[w].nested THEN Without(job[w].tx, orphans) ELSE orphans
    /\ UNCHANGED <<chain, poolVars, adds, block, owed, clearing, history, ops>>

\* processOrphans: retry the next candidate, or take the orphans of the next
\* parent of the queue, or return.
ProcessOrphans(w) ==
    /\ pc[w] = "next"
    /\ \/ \E t \in job[w].cands :
            /\ pc' = [pc EXCEPT ![w] = "check"]
            /\ job' = [job EXCEPT ![w] = [job[w] EXCEPT !.tx = t, !.cands = @ \ {t}]]
       \/ /\ job[w].cands = {} /\ job[w].queue # <<>>
          /\ job' = [job EXCEPT ![w] = [job[w] EXCEPT !.queue = Tail(@),
                        !.cands = {t \in ToSet(orphans) : Head(job[w].queue) \in Inputs[t]}]]
          /\ UNCHANGED pc
       \/ /\ job[w].cands = {} /\ job[w].queue = <<>>
          /\ pc' = [pc EXCEPT ![w] = "idle"]
          /\ job' = [job EXCEPT ![w] = NoJob]
    /\ UNCHANGED <<chain, poolVars, orphans, count, adds, block, owed, clearing, history, ops>>

AddStep(w) ==
    \/ Check(w) \/ StoreOrphan(w) \/ Validate(w) \/ CheckCapacity(w)
    \/ Insert(w) \/ UpdateIndexes(w) \/ UpdateAddStats(w) \/ ProcessOrphans(w)

-----------------------------------------------------------------------------
(* Removal.                                                                *)

\* History: the transactions of S that are removed while their own insertion
\* has not reached the fee-rate index and the statistics.
Overlaps(S) == {t \in S : \E w \in Uncounted : job[w].tx = t}

\* Mutant of Removed: the inputs stay in the spent-outpoint index.
RemovedMutKeepsSpent(S) ==
    /\ txs' = txs \ S
    /\ UNCHANGED spentOutpoints
    /\ byFeeRate' = [t \in Txs |-> IF t \in S /\ byFeeRate[t] > 0 THEN byFeeRate[t] - 1 ELSE byFeeRate[t]]
    /\ raced' = raced \cup Overlaps(S)
    /\ owed' = owed + Cardinality(S)

\* Mutant of Removed: the first entry of byFeeRate is kept.
RemovedMutKeepsIndex(S) ==
    /\ txs' = txs \ S
    /\ spentOutpoints' = [o \in Txs |-> IF spentOutpoints[o] \in S THEN None ELSE spentOutpoints[o]]
    /\ UNCHANGED byFeeRate
    /\ raced' = raced \cup Overlaps(S)
    /\ owed' = owed + Cardinality(S)

\* The pool lets go of S, a subset of txs: map, spent-outpoint index and one
\* entry each of the fee-rate index, under the write lock.
Removed(S) ==
    /\ txs' = txs \ S
    /\ spentOutpoints' = [o \in Txs |-> IF spentOutpoints[o] \in S THEN None ELSE spentOutpoints[o]]
    /\ byFeeRate' = [t \in Txs |-> IF t \in S /\ byFeeRate[t] > 0 THEN byFeeRate[t] - 1 ELSE byFeeRate[t]]
    /\ raced' = raced \cup Overlaps(S)
    /\ owed' = owed + Cardinality(S)

\* Mutant of UpdateRemoveStats: the subtraction does not stop at zero.
UpdateRemoveStatsMutBelow ==
    /\ owed > 0
    /\ owed' = owed - 1
    /\ count' = count - 1
    /\ UNCHANGED <<chain, poolVars, orphans, workerVars, block, clearing, history, ops>>

\* The statistics of one removal, with the subtraction that stops at zero.
UpdateRemoveStats ==
    /\ owed > 0
    /\ owed' = owed - 1
    /\ count' = IF count > 0 THEN count - 1 ELSE 0
    /\ UNCHANGED <<chain, poolVars, orphans, workerVars, block, clearing, history, ops>>

\* RemoveTransaction, called by RPC.
RemoveTransaction(t) ==
    /\ t \in txs
    /\ Removed({t})
    /\ ops < MaxOps /\ ops' = ops + 1
    /\ UNCHANGED <<chain, orphans, count, workerVars, block, clearing, reset>>

\* removeExpired.  No addTransaction takes as long as MaxTransactionAge.
RemoveExpired(S) ==
    /\ S # {} /\ S \subseteq txs /\ Overlaps(S) = {}
    /\ Removed(S)
    /\ ops < MaxOps /\ ops' = ops + 1
    /\ UNCHANGED <<chain, orphans, count, workerVars, block, clearing, reset>>

\* UpdatePriority rebuilds the fee-rate index from the map.
UpdatePriority ==
    /\ txs # {}
    /\ byFeeRate' = [t \in Txs |-> IF t \in txs THEN 1 ELSE 0]
    /\ raced' = raced \cup {job[w].tx : w \in {v \in Workers : pc[v] = "index"}}
    /\ ops < MaxOps /\ ops' = ops + 1
    /\ UNCHANGED <<chain, txs, spentOutpoints, orphans, count, workerVars, block, owed, clearing, reset>>

\* Clear: first the maps, ...
ClearMaps ==
    /\ clearing = "no"
    /\ clearing' = "stats"
    /\ txs' = {}
    /\ spentOutpoints' = [o \in Txs |-> None]
    /\ byFeeRate' = [t \in Txs |-> 0]
    /\ raced' = raced \cup {job[w].tx : w \in Uncounted}
    /\ ops < MaxOps /\ ops' = ops + 1
    /\ UNCHANGED <<chain, orphans, count, workerVars, block, owed, reset>>

\* ... then the statistics; what was added meanwhile is no longer counted,
\* and what was removed before is subtracted twice, ...
ClearStats ==
    /\ clearing = "stats"
    /\ clearing' = "orphans"
    /\ count' = 0
    /\ reset' = (reset \/ txs # {} \/ owed > 0 \/ Uncounted # {})
    /\ UNCHANGED <<chain, poolVars, orphans, workerVars, block, owed, raced, ops>>

\* ... then the orphans.
ClearOrphans ==
    /\ clearing = "orphans"
    /\ clearing' = "no"
    /\ orphans' = <<>>
    /\ UNCHANGED <<chain, poolVars, count, workerVars, block, owed, history, ops>>

-----------------------------------------------------------------------------
(* The block processor.                                                    *)

Ordinary(b) == b \ StakeTxs
SpentByOrdinary(b) == UNION {Inputs[t] : t \in Ordinary(b)}

\* Mutant of Collected: conflicting transactions are left in the pool.
CollectedMutConfirmed(b) == txs \cap Ordinary(b)

\* RemoveConfirmedTransactions, phases 1 and 2: coinbase and coinstake are
\* skipped.
Collected(b) ==
    {t \in txs : t \in Ordinary(b) \/ Inputs[t] \cap SpentByOrdinary(b) # {}}

\* A block is committed and storage.Sync returns; its transactions are still in
\* the pool.  When Sync fails the pool is never told of the block.
Commit(b) ==
    /\ block = NoBlock /\ Len(chain) < MaxHeight
    /\ ValidBlock(b)
    /\ chain' = Append(chain, b)
    /\ \/ /\ block' = [NoBlock EXCEPT !.txs = b, !.collected = FALSE]
          /\ raced' = raced \cup {job[w].tx : w \in InFlight}
          /\ UNCHANGED ops
       \/ /\ ops < MaxOps /\ ops' = ops + 1
          /\ raced' = raced \cup {job[w].tx : w \in InFlight} \cup Collected(b)
          /\ UNCHANGED block
    /\ UNCHANGED <<poolVars, orphans, count, workerVars, owed, clearing, reset>>

Connect(b) == b \in Offers /\ Commit(b)

CollectConfirmed ==
    /\ ~block.collected
    /\ block' = IF Collected(block.txs) = {} THEN NoBlock
                ELSE [block EXCEPT !.collected = TRUE, !.toRemove = Collected(block.txs)]
    /\ UNCHANGED <<chain, poolVars, orphans, count, workerVars, owed, clearing, history, ops>>

\* Phase 3: one RemoveTransaction after the other.
RemoveNext(t) ==
    /\ t \in block.toRemove
    /\ block' = IF block.toRemove = {t} THEN NoBlock
                ELSE [block EXCEPT !.toRemove = @ \ {t}]
    /\ Removed({t} \cap txs)
    /\ UNCHANGED <<chain, orphans, count, workerVars, clearing, reset, ops>>

\* A rollback takes the last block back; the pool is not told.
Disconnect ==
    /\ block = NoBlock /\ chain # <<>>
    /\ chain' = Front(chain)
    /\ raced' = raced \cup {t \in PoolTxs : Inputs[t] \cap Last(chain) # {}}
    /\ ops < MaxOps /\ ops' = ops + 1
    /\ UNCHANGED <<poolVars, orphans, count, workerVars, block, owed, clearing, reset>>

Next ==
    \/ \E w \in Workers, t \in PoolTxs : Add(w, t)
    \/ \E w \in Workers : AddStep(w)
    \/ UpdateRemoveStats
    \/ \E t \in PoolTxs : RemoveTransaction(t)
    \/ \E S \in SUBSET PoolTxs : RemoveExpired(S)
    \/ UpdatePriority
    \/ ClearMaps \/ ClearStats \/ ClearOrphans
    \/ \E b \in Offers : Connect(b)
    \/ CollectConfirmed
    \/ \E t \in PoolTxs : RemoveNext(t)
    \/ Disconnect

Spec == Init /\ [][Next]_vars

-----------------------------------------------------------------------------
(* Properties.                                                             *)

\* Type correctness.
TypeOK ==
    /\ chain \in Seq(SUBSET Txs)
    /\ txs \subseteq PoolTxs
    /\ spentOutpoints \in [Txs -> PoolTxs \cup {None}]
    /\ byFeeRate \in [Txs -> Nat]
    /\ orphans \in Seq(PoolTxs) /\ count \in Nat /\ owed \in Nat
    /\ pc \in [Workers -> {"idle", "check", "orphan", "validate", "capacity",
                           "insert", "index", "count", "next"}]
    /\ job \in [Workers -> Job]
    /\ \A w \in Workers : pc[w] \notin {"idle", "next"} => job[w].tx # None
    /\ block \in [txs : SUBSET Txs, collected : BOOLEAN, toRemove : SUBSET PoolTxs]
    /\ clearing \in {"no", "stats", "orphans"}
    /\ raced \subseteq Txs /\ reset \in BOOLEAN /\ adds \in 0 .. MaxAdds /\ ops \in 0 .. MaxOps

\* The O(1) conflict index is exact: an outpoint maps to a transaction exactly
\* when that transaction is pooled and spends it.  Conflict detection reads
\* nothing else.
SpentIndexExact ==
    \A o \in Txs, t \in PoolTxs :
        (spentOutpoints[o] = t) <=> (t \in txs /\ o \in Inputs[t])

\* The pool keeps what Pool promises: whatever the goroutines do between the
\* check for conflicts and the insertion, no two pooled transactions spend the
\* same output.
P == INSTANCE Pool WITH pool <- txs
ImplementsPool == P!Spec

\* config.MaxTransactions is checked against statistics that lag behind the
\* map, so concurrent additions overshoot it, by one per further goroutine and
\* no more, unless a Clear reset the statistics under an addition or removal.
PoolBound ==
    ~reset => Cardinality(txs) <= MaxTransactions + Cardinality(Workers) - 1

\* The orphan pool keeps to config.MaxOrphans and lists no orphan twice.
OrphanBound ==
    /\ Len(orphans) <= MaxOrphans
    /\ \A i, j \in DOMAIN orphans : orphans[i] = orphans[j] => i = j

\* Transactions that are in the map and still have to be indexed.
Unindexed == {job[w].tx : w \in {v \in Workers : pc[v] = "index"}}

\* The fee-rate index, from which blocks are filled, lists a transaction
\* exactly once while it is pooled and not at all afterwards, unless it was
\* removed, or the index rebuilt, between its insertion and its indexing; and
\* even then it can be chosen for a block as long as it is pooled.
FeeIndexExact ==
    /\ \A t \in PoolTxs \ raced : byFeeRate[t] = IF t \in txs \ Unindexed THEN 1 ELSE 0
    /\ \A t \in txs \ Unindexed : byFeeRate[t] > 0

\* Once the transactions of a block are removed, every pooled transaction is
\* unconfirmed and spends outputs of the chain only, so that any choice of
\* pooled transactions can be put in a block in any order, and none that the
\* chain's ordinary transactions spend; unless it was validated before the
\* commit of a block and inserted after it, a rollback took its inputs away, or
\* storage.Sync failed after the commit of the block that concerns it.
PoolFollowsChain ==
    block = NoBlock =>
        \A t \in txs \ raced :
            /\ t \notin Confirmed
            /\ Inputs[t] \subseteq
                   Confirmed \ UNION {SpentByOrdinary(chain[i]) : i \in DOMAIN chain}
=============================================================================
