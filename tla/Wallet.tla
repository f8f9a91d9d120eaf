------------------------------- MODULE Wallet -------------------------------
(* The wallet's view of the chain and of the pool, and the staking worker   *)
(* that uses both (wallet/notifications.go, wallet/staking.go,              *)
(* wallet/transactions.go, wallet/wallet.go, consensus/staking_worker.go).  *)
(*                                                                          *)
(* The block processor commits first and tells the wallet and the pool      *)
(* afterwards, unless storage.Sync fails in between; the pool's callbacks   *)
(* run after its locks are released, on the goroutine that added or removed *)
(* the transaction.  The pool is Pool, which Mempool implements, with the   *)
(* fee-rate index from which stake blocks are filled.                       *)
(* A transaction has one output, named by the transaction.                  *)
EXTENDS Integers, Sequences, FiniteSets, SequencesExt

CONSTANTS
    Txs,         \* transactions
    Base,        \* the ones confirmed from the start
    StakeTxs,    \* coinstakes the wallet can make, one per stakeable output
    Inputs,      \* Inputs[t]: the outputs t spends
    Mine,        \* transactions whose output belongs to the wallet
    Sends,       \* transactions the wallet may be asked to send
    Offers,      \* blocks that arrive from the network, as sets of transactions
    Peers,       \* goroutines that add transactions and remove pooled ones
    Sender, Proc, \* the goroutines of SendMany and of the block processor
    MaxPending,  \* MaxPendingTransactions
    MaxHeight,   \* bound on the connected blocks
    MaxAdds,     \* bound on the transactions added to the pool
    MaxRemovals, \* bound on removals by expiry, RPC or Clear
    MaxUndos,    \* bound on disconnected blocks
    MaxStops,    \* bound on clean restarts
    MaxCrashes,  \* bound on crashes
    MaxMisses,   \* bound on the failures of storage.Sync after a commit
    MaxEvents,   \* bound on these five together
    None

PoolTxs == Txs \ (Base \cup StakeTxs)
Callers == Peers \cup {Sender, Proc}
Call == [kind : {"insert", "accept", "index", "track", "evict"}, tx : Txs]

ASSUME WalletAssumption ==
    /\ IsFiniteSet(Txs) /\ Base \subseteq Txs /\ StakeTxs \subseteq Txs \ Base
    /\ Inputs \in [Txs -> SUBSET Txs] /\ Mine \subseteq Txs
    /\ \A t \in Base : Inputs[t] \subseteq Base
    /\ Sends \subseteq PoolTxs /\ Offers \subseteq SUBSET (Txs \ Base)
    /\ Sender \notin Peers /\ Proc \notin Peers \cup {Sender}
    /\ None \notin Txs \cup Call

ASSUME WalletBoundAssumption ==
    /\ MaxPending \in Nat /\ MaxHeight \in Nat /\ MaxAdds \in Nat
    /\ MaxRemovals \in Nat /\ MaxUndos \in Nat /\ MaxStops \in Nat
    /\ MaxCrashes \in Nat /\ MaxMisses \in Nat /\ MaxEvents \in Nat

VARIABLES
    chain,        \* committed blocks, oldest first
    best,         \* bestHeight, in memory
    pool,         \* the pool's transactions
    byFeeRate,    \* mp.byFeeRate: how often each transaction is listed
    utxos,        \* w.utxos: "absent", "unspent" (Spendable) or "spent"
    transactions, \* w.transactions: "absent", "evicted" (BlockHeight -1), "confirmed"
    pendingTxs, pendingSpent, pendingUTXOs,
    call,         \* call[g]: what goroutine g is about to do for a transaction
    proc,         \* what the block processor has left to do
    stake,        \* the attempt of the staking worker
    cacheFile,    \* txcache.dat: the state saved by the last clean shutdown
    raced,        \* history: see Leaves
    untracked,    \* history: transactions announced and not tracked: MaxPending,
                  \* or an input NotifyBlocks has not yet brought; or evicted while
                  \* pooled, by a late call or with the one they spend from
    overtaken,    \* history: transactions tracked while a conflicting one was still
                  \* pending, one of the two having left the pool
    dropped,      \* history: spent outputs that a rescan did not load
    stale,        \* history: transactions whose pooling a commit overtook
    missed,       \* history: outputs of blocks the wallet was not told of
    budget        \* operations left, for the bounds

poolVars == <<pool, byFeeRate, raced>>
pendingVars == <<pendingTxs, pendingSpent, pendingUTXOs>>
walletVars == <<utxos, transactions, pendingVars>>
trackVars == <<untracked, overtaken, dropped>>
historyVars == <<trackVars, stale, missed>>
vars == <<chain, best, poolVars, walletVars, call, proc, stake, cacheFile, historyVars, budget>>

P == INSTANCE Pool

ProcState == [step : {"idle", "notify", "undo", "collect", "remove"},
              blk : SUBSET Txs, toRemove : SUBSET Txs]
ProcIdle == [step |-> "idle", blk |-> {}, toRemove |-> {}]
StakeIdle == [step |-> "idle", tip |-> <<>>, out |-> None, txs |-> {}, astray |-> FALSE]

-----------------------------------------------------------------------------
(* What storage answers.                                                    *)

Confirmed == Base \cup UNION {chain[i] : i \in DOMAIN chain}
SpentIn(b) == UNION {Inputs[t] : t \in b}
Unspent == Confirmed \ SpentIn(Confirmed)

ValidBlock(b) ==
    /\ b \cap Confirmed = {} /\ SpentIn(b) \subseteq Unspent
    /\ \A t, u \in b : t # u => Inputs[t] \cap Inputs[u] = {}

\* rescanBlockchainLocked for every address: the address index holds unspent
\* outputs only, and every transaction of the chain that concerns the wallet.
Rescanned ==
    LET free == Unspent IN [o \in Txs |-> IF o \in Mine \cap free THEN "unspent" ELSE "absent"]
RescannedTxs ==
    LET known == Confirmed IN
    [t \in Txs |-> IF t \in known /\ (t \in Mine \/ Inputs[t] \cap Mine # {})
                   THEN "confirmed" ELSE "absent"]

Init ==
    /\ chain = <<>> /\ best = 0 /\ pool = {} /\ byFeeRate = [t \in Txs |-> 0]
    /\ utxos = Rescanned /\ transactions = RescannedTxs
    /\ pendingTxs = {} /\ pendingSpent = [o \in Txs |-> None] /\ pendingUTXOs = {}
    /\ call = [g \in Callers |-> None]
    /\ proc = ProcIdle /\ stake = StakeIdle /\ cacheFile = None
    /\ raced = {} /\ untracked = {} /\ overtaken = {} /\ dropped = {}
    /\ stale = {} /\ missed = {}
    /\ budget = [adds |-> MaxAdds, removals |-> MaxRemovals, undos |-> MaxUndos,
                 stops |-> MaxStops, crashes |-> MaxCrashes, misses |-> MaxMisses]

\* Something of kind k that happens now and then may still happen.
May(k) ==
    /\ budget[k] > 0
    /\ (MaxRemovals - budget.removals) + (MaxUndos - budget.undos) + (MaxStops - budget.stops)
         + (MaxCrashes - budget.crashes) + (MaxMisses - budget.misses) < MaxEvents

-----------------------------------------------------------------------------
(* The pool's goroutines.                                                   *)

\* The goroutines that are about to do one of kinds for t.
At(kinds, t) == {g \in Callers : call[g] # None /\ call[g].tx = t /\ call[g].kind \in kinds}

\* The goroutines that still have to tell the wallet that t is in the pool:
\* SendMany tells it again when AddTransaction has returned.
Announcing(t) == At({"accept", "track"}, t) \cup ({Sender} \cap At({"index"}, t))

\* The goroutines that have put t in the pool and not yet in the fee-rate index.
Indexing(t) == At({"accept", "index"}, t)

\* addTransaction by g up to checkCapacity: t is not pooled, conflicts with no
\* pooled transaction and spends unspent outputs.
Validate(g, t) ==
    /\ call[g] = None /\ budget.adds > 0
    /\ t \notin pool /\ P!Free(t)
    /\ t \notin Confirmed /\ Inputs[t] \subseteq Unspent
    /\ call' = [call EXCEPT ![g] = [kind |-> "insert", tx |-> t]]
    /\ budget' = [budget EXCEPT !.adds = @ - 1]
    /\ UNCHANGED <<chain, best, poolVars, walletVars, proc, stake, cacheFile, historyVars>>

Receive(g, t) == g \in Peers /\ Validate(g, t)

\* The write lock is taken and conflicts are looked for again, the chain is not.
Insert(g) ==
    /\ call[g] # None /\ call[g].kind = "insert"
    /\ \/ /\ P!Accept(call[g].tx)
          /\ call' = [call EXCEPT ![g].kind = "accept"]
       \/ /\ call[g].tx \in pool \/ ~P!Free(call[g].tx)
          /\ call' = [call EXCEPT ![g] = None]
          /\ UNCHANGED pool
    /\ UNCHANGED <<chain, best, byFeeRate, raced, walletVars, proc, stake, cacheFile, historyVars, budget>>

\* updateIndexes, after the callback.
UpdateIndexes(g) ==
    /\ call[g] # None /\ call[g].kind = "index"
    /\ byFeeRate' = [byFeeRate EXCEPT ![call[g].tx] = @ + 1]
    /\ call' = [call EXCEPT ![g] = IF g = Sender THEN [@ EXCEPT !.kind = "track"] ELSE None]
    /\ UNCHANGED <<chain, best, pool, raced, walletVars, proc, stake, cacheFile, historyVars, budget>>

\* Mutant of Selectable: pending spends are not looked at.
SelectableMutPending(o) == utxos[o] = "unspent"

\* What SelectUTXOs and GetStakeableUTXOs offer for spending.
Selectable(o) == utxos[o] = "unspent" /\ pendingSpent[o] = None

\* SendMany with SelectUTXOs; pending change is offered too, and refused by the
\* pool as long as it is not confirmed.
Send(t) ==
    /\ t \in Sends
    /\ \A o \in Inputs[t] : Selectable(o) \/ o \in pendingUTXOs
    /\ Validate(Sender, t)

\* RemoveTransaction by g, up to the callback: the map and one entry of the
\* fee-rate index.  History: t leaves the pool while a goroutine is still about
\* to announce it, or to index it.
Leaves(g, t) ==
    /\ P!Remove({t})
    /\ byFeeRate' = [byFeeRate EXCEPT ![t] = IF @ > 0 THEN @ - 1 ELSE 0]
    /\ raced' = IF Announcing(t) # {} THEN raced \cup {t} ELSE raced
    /\ stale' = IF Indexing(t) # {} THEN stale \cup {t} ELSE stale
    /\ call' = [call EXCEPT ![g] = [kind |-> "evict", tx |-> t]]

\* Expiry, RPC or Clear.
RemovePooled(g, t) ==
    /\ g \in Peers /\ call[g] = None /\ t \in pool /\ May("removals")
    /\ Leaves(g, t)
    /\ budget' = [budget EXCEPT !.removals = @ - 1]
    /\ UNCHANGED <<chain, best, walletVars, proc, stake, cacheFile, trackVars, missed>>

-----------------------------------------------------------------------------
(* The wallet's callbacks.                                                  *)

\* categorizeTransactionLocked finds an address of the wallet.
Relevant(t) == t \in Mine \/ \E o \in Inputs[t] : utxos[o] # "absent" \/ o \in pendingUTXOs

\* The checks OnMempoolTransaction makes under mu and pendingMu.
Tracks(t) ==
    /\ transactions[t] # "confirmed" /\ t \notin pendingTxs
    /\ Relevant(t) /\ Cardinality(pendingTxs) < MaxPending

\* Transactions that left the pool before they were announced, or whose eviction
\* the wallet has still to be told.
Left == raced \cup {call[g].tx : g \in {h \in Callers : call[h] # None /\ call[h].kind = "evict"}}

\* The callback of addTransaction is followed by updateIndexes.
Returned(g) ==
    [call EXCEPT ![g] = IF @.kind = "accept" THEN [@ EXCEPT !.kind = "index"] ELSE None]

OnMempoolTransaction(g) ==
    LET t == call[g].tx IN
    /\ call[g] # None /\ call[g].kind \in {"accept", "track"}
    /\ call' = Returned(g)
    /\ IF Tracks(t)
       THEN /\ pendingTxs' = pendingTxs \cup {t}
            /\ pendingSpent' = [o \in Txs |-> IF o \in Inputs[t] THEN t ELSE pendingSpent[o]]
            /\ pendingUTXOs' = pendingUTXOs \cup ({t} \cap Mine)
       ELSE UNCHANGED pendingVars
    /\ untracked' = IF t \in pendingTxs' THEN untracked \ {t} ELSE untracked \cup {t}
    /\ overtaken' =
           IF Tracks(t) /\ \E u \in pendingTxs : {t, u} \cap Left # {} /\ Inputs[u] \cap Inputs[t] # {}
           THEN overtaken \cup {t} ELSE overtaken
    /\ UNCHANGED <<chain, best, poolVars, utxos, transactions, proc, stake, cacheFile, dropped,
                   stale, missed, budget>>

\* Mutant of Forget: the spent outpoints stay.
ForgetMutSpent(S) ==
    /\ pendingTxs' = pendingTxs \ S
    /\ pendingUTXOs' = pendingUTXOs \ S
    /\ UNCHANGED pendingSpent

\* The pending transactions S are forgotten: their outpoints leave pendingSpent
\* whoever spends them there, and their outputs leave pendingUTXOs.
Forget(S) ==
    /\ pendingTxs' = pendingTxs \ S
    /\ pendingSpent' = [o \in Txs |-> IF o \in SpentIn(S) THEN None ELSE pendingSpent[o]]
    /\ pendingUTXOs' = pendingUTXOs \ S

\* evictPendingTxCollectLocked: t and the pending transactions that spend, at
\* any distance, what it creates: the smallest set that holds t and with every
\* transaction the one recorded as spending its output.
Cascade(t) ==
    {u \in pendingTxs : \A S \in SUBSET pendingTxs :
        (/\ {t} \cap pendingTxs \subseteq S
         /\ \A v \in S : {pendingSpent[v]} \cap pendingTxs \subseteq S) => u \in S}

EvictPendingTx(g) ==
    /\ call[g] # None /\ call[g].kind = "evict"
    /\ call' = [call EXCEPT ![g] = None]
    /\ Forget(Cascade(call[g].tx))
    /\ transactions' = [t \in Txs |-> IF t \in Cascade(call[g].tx) /\ transactions[t] = "absent"
                                      THEN "evicted" ELSE transactions[t]]
    /\ untracked' = untracked \cup (Cascade(call[g].tx) \cap pool)
    /\ UNCHANGED <<chain, best, poolVars, utxos, proc, stake, cacheFile, overtaken, dropped,
                   stale, missed, budget>>

-----------------------------------------------------------------------------
(* The block processor.                                                     *)

\* What RemoveConfirmedTransactions takes out of the pool for block b: it skips
\* the coinstake.
Superseded(b) ==
    {t \in pool : t \in b \ StakeTxs \/ Inputs[t] \cap SpentIn(b \ StakeTxs) # {}}

\* Transactions that have been validated and are not yet in the pool.
Validated == {t \in PoolTxs : At({"insert"}, t) # {}}

\* The batch is committed, and storage.Sync returns; when it fails, neither the
\* wallet nor the pool is told and the tip in memory stays.  History: the
\* transactions and outputs for which it comes too early.
Commit(b) ==
    /\ proc.step = "idle" /\ Len(chain) < MaxHeight
    /\ ValidBlock(b)
    /\ chain' = Append(chain, b)
    /\ \/ /\ proc' = [ProcIdle EXCEPT !.step = "notify", !.blk = b]
          /\ stale' = stale \cup Validated
          /\ UNCHANGED <<missed, budget>>
       \/ /\ May("misses")
          /\ budget' = [budget EXCEPT !.misses = @ - 1]
          /\ stale' = stale \cup Validated \cup Superseded(b)
          /\ missed' = missed \cup b \cup SpentIn(b)
          /\ UNCHANGED proc
    /\ UNCHANGED <<best, poolVars, walletVars, call, cacheFile, trackVars>>

Connect(b) == Commit(b) /\ UNCHANGED stake

\* Mutant of ConnectedUTXOs: outputs of others are taken for the wallet's.
ConnectedUTXOsMutForeign(b) ==
    [o \in Txs |-> IF o \in SpentIn(b) THEN "spent" ELSE IF o \in b THEN "unspent" ELSE utxos[o]]

\* processBlock: outputs of the block, then inputs among the known outputs.
ConnectedUTXOs(b) ==
    [o \in Txs |-> IF o \notin b \cap Mine /\ utxos[o] = "absent" THEN "absent"
                   ELSE IF o \in SpentIn(b) THEN "spent"
                   ELSE IF o \in b \cap Mine THEN "unspent" ELSE utxos[o]]

\* NotifyBlocks, with promotePendingTxsFromBlock.
NotifyBlocks ==
    LET blk == proc.blk IN
    /\ proc.step = "notify"
    /\ proc' = [proc EXCEPT !.step = "collect"]
    /\ utxos' = ConnectedUTXOs(blk)
    /\ transactions' =
         [t \in Txs |-> IF t \in blk /\ (t \in Mine \/ \E o \in Inputs[t] : utxos'[o] # "absent")
                        THEN "confirmed" ELSE transactions[t]]
    /\ Forget(blk \cap pendingTxs)
    /\ UNCHANGED <<chain, best, poolVars, call, stake, cacheFile, historyVars, budget>>

\* The end of processBatchUnified: the tip in memory follows.
Publish == proc' = ProcIdle /\ best' = Len(chain)

\* RemoveConfirmedTransactions, phases 1 and 2.
CollectConfirmed ==
    LET r == Superseded(proc.blk) IN
    /\ proc.step = "collect"
    /\ \/ r = {} /\ Publish
       \/ r # {} /\ proc' = [proc EXCEPT !.step = "remove", !.toRemove = r] /\ UNCHANGED best
    /\ UNCHANGED <<chain, poolVars, walletVars, call, stake, cacheFile, historyVars, budget>>

RemoveConfirmed(t) ==
    /\ proc.step = "remove" /\ call[Proc] = None /\ t \in proc.toRemove
    /\ proc' = [proc EXCEPT !.toRemove = @ \ {t}]
    /\ \/ t \in pool /\ Leaves(Proc, t)
       \/ t \notin pool /\ UNCHANGED <<poolVars, call, stale>>
    /\ UNCHANGED <<chain, best, walletVars, stake, cacheFile, trackVars, missed, budget>>

RemovedAll ==
    /\ proc.step = "remove" /\ call[Proc] = None /\ proc.toRemove = {}
    /\ Publish
    /\ UNCHANGED <<chain, poolVars, walletVars, call, stake, cacheFile, historyVars, budget>>

\* disconnectBlock commits and the tip in memory follows; the pool is not told.
\* A rollback from a tip that is not yet in memory is left out.
Disconnect ==
    /\ proc.step = "idle" /\ chain # <<>> /\ May("undos")
    /\ best = Len(chain)
    /\ chain' = Front(chain) /\ best' = best - 1
    /\ proc' = [ProcIdle EXCEPT !.step = "undo", !.blk = Last(chain)]
    /\ budget' = [budget EXCEPT !.undos = @ - 1]
    /\ UNCHANGED <<poolVars, walletVars, call, stake, cacheFile, historyVars>>

\* Mutant of DisconnectedUTXOs: the inputs are not restored.
DisconnectedUTXOsMutInputs(b) == [o \in Txs |-> IF o \in b THEN "absent" ELSE utxos[o]]

DisconnectedUTXOs(b) ==
    [o \in Txs |-> IF o \in b THEN "absent"
                   ELSE IF o \in SpentIn(b) /\ utxos[o] # "absent" THEN "unspent" ELSE utxos[o]]

\* NotifyBlockDisconnected, with demotePendingFromDisconnectedBlock.
NotifyBlockDisconnected ==
    LET blk == proc.blk IN
    /\ proc.step = "undo"
    /\ proc' = ProcIdle
    /\ utxos' = DisconnectedUTXOs(blk)
    /\ transactions' = [t \in Txs |-> IF t \in blk THEN "absent" ELSE transactions[t]]
    /\ Forget(blk \cap pendingTxs)
    /\ UNCHANGED <<chain, best, poolVars, call, stake, cacheFile, historyVars, budget>>

\* The wallet has been told of the committed chain.
Notified == proc.step \notin {"notify", "undo"}

-----------------------------------------------------------------------------
(* The staking worker.                                                      *)

\* tryStake: the tip is read, then an output of GetStakeableUTXOs is chosen;
\* its kernel is found valid.  History: the wallet had not yet been told of the
\* tip.
StakeSelect(s) ==
    /\ stake.step = "idle" /\ s \in StakeTxs /\ s \notin Confirmed
    /\ \A o \in Inputs[s] : Selectable(o)
    /\ stake' = [step |-> "build", tip |-> chain, out |-> s, txs |-> {}, astray |-> ~Notified]
    /\ UNCHANGED <<chain, best, poolVars, walletVars, call, proc, cacheFile, historyVars, budget>>

\* The fee-rate index, from which GetTransactionsForBlock takes.
Listed == {t \in PoolTxs : byFeeRate[t] > 0}

\* Mutant of StakeBuild: the height is that of the committed tip.
StakeBuildMutCommitted ==
    /\ stake.step = "build"
    /\ stake' = IF Len(chain) # Len(stake.tip) THEN StakeIdle
                ELSE [stake EXCEPT !.step = "submit", !.txs = {stake.out} \cup Listed,
                                       !.astray = @ \/ ~IsPrefix(stake.tip, chain)]
    /\ UNCHANGED <<chain, best, poolVars, walletVars, call, proc, cacheFile, historyVars, budget>>

\* The height in memory is compared with that of the tip that was read, then
\* createStakeBlock takes the listed transactions.  History: the chain no
\* longer has the tip, although its height is the same.
StakeBuild ==
    /\ stake.step = "build"
    /\ stake' = IF best # Len(stake.tip) THEN StakeIdle
                ELSE [stake EXCEPT !.step = "submit", !.txs = {stake.out} \cup Listed,
                                       !.astray = @ \/ ~IsPrefix(stake.tip, chain)]
    /\ UNCHANGED <<chain, best, poolVars, walletVars, call, proc, cacheFile, historyVars, budget>>

\* handleSuccessfulStake: the block is connected if it extends the tip and is
\* valid, and the attempt is over either way.
StakeSubmit ==
    /\ stake.step = "submit" /\ proc.step = "idle"
    /\ stake' = StakeIdle
    /\ \/ stake.tip = chain /\ Commit(stake.txs)
       \/ /\ stake.tip # chain \/ ~ValidBlock(stake.txs)
          /\ UNCHANGED <<chain, best, poolVars, walletVars, call, proc, cacheFile, historyVars, budget>>

-----------------------------------------------------------------------------
(* Stops and starts.                                                        *)

\* Pool and pending state are gone, no call is in progress.
Fresh ==
    /\ pool' = {} /\ byFeeRate' = [t \in Txs |-> 0] /\ best' = Len(chain)
    /\ raced' = {} /\ untracked' = {} /\ overtaken' = {} /\ stale' = {}
    /\ pendingTxs' = {} /\ pendingSpent' = [o \in Txs |-> None] /\ pendingUTXOs' = {}
    /\ call' = [g \in Callers |-> None] /\ proc' = ProcIdle /\ stake' = StakeIdle
    /\ UNCHANGED chain

\* A shutdown saves txcache.dat without the evicted transactions, and the next
\* start loads it.  A shutdown at a tip that is not yet in memory is left out.
CleanRestart ==
    /\ May("stops") /\ budget' = [budget EXCEPT !.stops = @ - 1]
    /\ proc.step = "idle" /\ best = Len(chain) /\ \A g \in Callers : call[g] = None
    /\ Fresh
    /\ transactions' = [t \in Txs |-> IF transactions[t] = "evicted" THEN "absent" ELSE transactions[t]]
    /\ cacheFile' = [chain |-> chain, utxos |-> utxos, transactions |-> transactions',
                      dropped |-> dropped, missed |-> missed]
    /\ UNCHANGED <<utxos, dropped, missed>>

\* After a crash the cache is loaded if it was saved at this tip, otherwise
\* RescanAllAddresses runs.
CrashRestart ==
    /\ May("crashes") /\ budget' = [budget EXCEPT !.crashes = @ - 1]
    /\ Fresh
    /\ IF cacheFile # None /\ cacheFile.chain = chain
       THEN /\ utxos' = cacheFile.utxos /\ transactions' = cacheFile.transactions
            /\ dropped' = cacheFile.dropped /\ missed' = cacheFile.missed
       ELSE /\ utxos' = Rescanned /\ transactions' = RescannedTxs
            /\ dropped' = Mine \cap SpentIn(Confirmed) /\ missed' = {}
    /\ UNCHANGED cacheFile

Next ==
    \/ \E g \in Peers, t \in PoolTxs : Receive(g, t) \/ RemovePooled(g, t)
    \/ \E t \in Sends : Send(t)
    \/ \E g \in Callers : Insert(g) \/ OnMempoolTransaction(g) \/ UpdateIndexes(g) \/ EvictPendingTx(g)
    \/ \E b \in Offers : Connect(b)
    \/ NotifyBlocks \/ CollectConfirmed \/ RemovedAll
    \/ \E t \in PoolTxs : RemoveConfirmed(t)
    \/ Disconnect \/ NotifyBlockDisconnected
    \/ \E s \in StakeTxs : StakeSelect(s)
    \/ StakeBuild \/ StakeSubmit
    \/ CleanRestart \/ CrashRestart

Spec == Init /\ [][Next]_vars

-----------------------------------------------------------------------------
(* Properties.                                                              *)

\* Type correctness.
TypeOK ==
    /\ chain \in Seq(SUBSET Txs) /\ best \in 0 .. Len(chain)
    /\ pool \subseteq PoolTxs /\ byFeeRate \in [Txs -> Nat]
    /\ utxos \in [Txs -> {"absent", "unspent", "spent"}]
    /\ \A o \in Txs : utxos[o] # "absent" => o \in Mine
    /\ transactions \in [Txs -> {"absent", "evicted", "confirmed"}]
    /\ pendingTxs \subseteq PoolTxs
    /\ pendingSpent \in [Txs -> PoolTxs \cup {None}]
    /\ pendingUTXOs \subseteq Mine
    /\ call \in [Callers -> Call \cup {None}]
    /\ proc \in ProcState
    /\ stake.step \in {"idle", "build", "submit"}

Quiet == proc.step = "idle" /\ \A g \in Callers : call[g] = None

\* The wallet's spendable outputs are those the chain has for it, whenever the
\* block processor is not between its commit and its notification: through
\* connects, rollbacks, shutdowns and crashes.  Only an output that was spent
\* when a crash made the wallet rescan may be missing after a rollback, and only
\* the outputs that a block made or spent whose storage.Sync failed may be wrong.
WalletFollowsChain ==
    LET spendable == Mine \cap Unspent IN
    Notified => \A o \in Txs \ missed :
        /\ utxos[o] = "unspent" => o \in spendable
        /\ o \in spendable \ dropped => utxos[o] = "unspent"

\* A confirmed transaction is never pending again, however late its callback.
ConfirmedNotPending == \A t \in pendingTxs : transactions[t] # "confirmed"

\* pendingSpent and pendingUTXOs are those of the pending transactions, but for
\* the outpoints of a transaction tracked while a conflicting one was still
\* pending, one of the two having left the pool: the later call takes them over.
PendingIndexExact ==
    /\ \A o \in Txs \ SpentIn(overtaken), t \in PoolTxs :
          (pendingSpent[o] = t) <=> (t \in pendingTxs /\ o \in Inputs[t])
    /\ pendingUTXOs = pendingTxs \cap Mine

\* When no call is in progress the wallet tracks nothing as pending that is not
\* in the pool, unless it left the pool before it was announced.
NoStalePending == Quiet => pendingTxs \ raced \subseteq pool

\* What the wallet holds as pending follows the pool and the chain, in whatever
\* order the callbacks of mempool and block processor arrive.
PendingFollowsPool == ConfirmedNotPending /\ PendingIndexExact /\ NoStalePending

\* The wallet was not told of a block that made or spent the output of t, or
\* that made or spent what t spends.
Untold(t) == ({t} \cup Inputs[t]) \cap missed # {}

\* An output that coin selection or the staking worker is offered is not spent
\* by a pooled transaction that has been announced, unless the wallet could not
\* track that one or was not told of a block that concerns it, or a late call
\* has taken the outpoint away.
OfferedNotPooled ==
    \A o \in Txs \ SpentIn(overtaken), t \in pool :
        (Selectable(o) /\ o \in Inputs[t]) => Announcing(t) # {} \/ t \in untracked \/ Untold(t)

\* The outputs that the coinstakes of the chain spend.
Staked == SpentIn(Confirmed \cap StakeTxs)

\* A stake block whose tip is still the tip, and was it when the block was built
\* and when the output was selected, with the wallet told of it, is valid: no
\* transaction of the fee-rate index is confirmed or conflicts with the chain,
\* however commit, removals, insertions and the reads of the worker interleave.
\* It is valid up to pooled transactions that came to spend the staked output
\* after it was selected, that spend what a coinstake of the chain has spent,
\* whose inputs a rollback has taken away, or that a commit or removal overtook
\* between their validation and their indexing; and unless the wallet was not
\* told of a block that concerns the coinstake.
StakeBlockValid ==
    (/\ stake.step = "submit" /\ stake.tip = chain /\ ~stake.astray /\ ~Untold(stake.out)) =>
        ValidBlock({t \in stake.txs :
            \/ t = stake.out
            \/ /\ Inputs[t] \cap (Inputs[stake.out] \cup Staked) = {}
               /\ Inputs[t] \subseteq Confirmed /\ t \notin stale})
=============================================================================
