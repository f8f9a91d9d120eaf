# TLA+ models of TWINS-go

This directory holds TLA+ models of the node in `src/`, the TLC configurations
that check them, and TLAPS proofs about them. Paths below are relative to
`src/internal/` unless they start with `src/`.

## 1. The system

TWINS-go is a proof-of-stake full node with masternodes. Its core is a block
chain over one Pebble database, changed by several goroutines: the sync loop,
the staking worker, RPC calls and the recovery manager.

| Component | State | Operations that change it | Hard behaviour |
|---|---|---|---|
| Block processor (`blockchain/unified_processor.go`, `process.go`) | best block/hash/height, `blockIndex`, `knownBlocks`, batch caches, `processingMu` | `processBatchUnified`, `applyBlockToBatch`, `disconnectBlock` | commit and publication are two steps; three callers share a lock |
| Binary storage (`storage/binary`) | key spaces for blocks, the two height indexes, transactions, UTXOs, supply, chain state | `BinaryBatch`, `CleanOrphanedBlocks`, `DeleteCorruptBlock` | reads in a batch that see, or do not see, the batch's own writes; crash between commits |
| Recovery manager (`blockchain/recovery.go`) | `mu`, attempts, state | `RollbackToHeight`, `RecoverFromCorruptBlock`, `RecoverFromFork` | reads before the lock; several commits; stops half way |
| Chain state (`blockchain/blockchain.go`) | as the processor | `loadChainState`, `buildBlockIndex`, genesis | restart from whatever was committed |
| UTXO cache (`storage/cached_storage.go`) | LRU of UTXO records | `CachedBatch.Commit`, `GetUTXO`, `FlushCache` | cache updated after the database, fills race with commits |
| Sporks (`spork/`, `p2p/handlers_advanced.go`) | p2p map, `Manager.active`, `spk:` records | `handleSpork`, `ProcessMessage`, `UpdateSpork`, `handleGetSporks`, `LoadFromStorage` | two maps with different rules, relay, lost messages, restart |
| Invalidation (`blockchain/invalidation.go`) | invalid set, node status | `InvalidateBlock`, `ReconsiderBlock` | several writes, partial state |
| Chain validator (`blockchain/chain_validator.go`) | - | start-up checks and repair | repair of an inconsistent index |
| Consensus rules (`consensus/`) | stake modifiers, payment records | validation, retarget, kernel, payments | 256-bit arithmetic, caches |
| Staking worker (`consensus/staking_worker.go`, `pos.go`) | tip it builds on; `stakingActive`, `stakingWorker`, `running`, `stopCh` | `tryStake`, `createStakeBlock`, `handleSuccessfulStake`; `StartStaking`, `StopStaking`, `Stop` | stale tip, stale pool; starts and stops from four kinds of goroutine; shutdown |
| Mempool (`mempool/`) | `txs`, spent-outpoint and fee-rate index, orphans, statistics | `AddTransaction`, `RemoveTransaction`, `removeExpired`, `UpdatePriority`, `Clear`, `RemoveConfirmedTransactions` | four locks; validated against a UTXO set that moves |
| Wallet (`wallet/`) | UTXOs, transactions, pending maps, cache file, keys | `OnMempoolTransaction`, `EvictPendingTx`, `NotifyBlocks`, `NotifyBlockDisconnected`, sending, rescan; `Unlock`, `Lock`, `ChangePassphrase` | callbacks late and in any order, crash; auto-lock timer, a mutex taken twice |
| P2P sync (`p2p/sync*.go`) | state machine, `syncing`, `done` channel, rotation, heights | `updateConsensusState`, `Transition`, `startSync`, `stopSync`, `processBatch`, `syncMaintenance` | sessions that overlap, timeouts, forks, lost consensus |
| Masternodes (`masternode/`) | list, seen broadcasts and pings, cache; votes, payment queue | `ProcessBroadcast`, `ProcessPing`, `updateMasternodes`, `CleanSeenMaps`, `LoadCache` | gossip in any order; decisions without the lock |
| P2P server and peers (`p2p/`) | peers, addresses, relay sets | handlers | sockets, handshakes |
| Time, daemon, RPC, CLI, GUI, `src/pkg/*` | - | - | wiring, formatting, cryptography |

Sync, staking and RPC call `processBatchUnified`; sync, the chain validator and
invalidation call the recovery manager; both write the database through the
cache wrapper. Validation, the mempool, RPC, the wallet and masternodes read
through it. After a commit the block processor tells the wallet, then the
mempool; the mempool tells the wallet of every transaction that enters or
leaves. A received spork goes through the p2p map and then, by the handler
the daemon installs (`daemon/node_p2p.go:245`), to the Manager the consensus
rules read. The wallet starts and stops the staking worker by callbacks after
an unlock and a lock, the setting `staking.enabled` by its subscriber.

What makes these parts correct: the committed state is one chain and its exact
UTXO set, whatever fails and wherever the process stops; memory agrees with it
when no call is in progress; no stale entry makes the node refuse a block it
lacks; every call returns; the cache serves nothing the database contradicts;
sporks in force never go back and reach every node that lost messages have not
cut off; the pool never holds two
spenders of one output and keeps in step with the chain; the wallet's coins are
the chain's and its pending transactions the pool's, however late it hears of
them; a node that is behind catches up; the masternode list keeps who pings and
only them; the node stakes exactly when its setting and its wallet allow it,
and the worker is gone before the storage closes. `PROJECT.json` lists the
hazards by source line with the property that covers each.

## 2. Modules

| Module | Models |
|---|---|
| `BlockChain` | block processor, binary storage, rollback and corrupt-tip recovery, restart |
| `Ledger` | what a node's chain promises: it grows by blocks that extend it and spend what it holds, or loses its last block |
| `UtxoCache` | the LRU cache in front of the database |
| `Mempool` | the transaction pool under concurrent additions, removals and blocks |
| `Pool` | what a pool promises: transactions enter one at a time, none that conflicts, and leave in any number. `Mempool` implements it, `Wallet` is built on it |
| `Wallet` | the wallet's coins and pending transactions, and the staking worker, against chain and pool |
| `Staking` | the wallet's lock and auto-lock, the setting `staking.enabled`, start and stop of the staking worker, shutdown |
| `Sync` | the sync state machine, the session goroutine, the maintenance ticker |
| `Masternode` | the life of one entry of the masternode list |
| `Spork` | both spork maps, their database and the relay among nodes |
| `MC*` | constants for TLC; every `MC<Module>_<run>.cfg` is a run |
| `*_proofs` | theorems and proofs |

### BlockChain

`db` is what is committed, as a record with one field per key space;
`batch` is the open indexed batch, represented by the database it would
produce. `best`, `blockIndex` and `knownBlocks` are the in-memory state,
`lock` is `processingMu`, `rmLock` is `RecoveryManager.mu`, and `pc[w]`,
`job[w]` are the position and the locals of goroutine `w`.

A commit of a Pebble batch is one atomic step (Pebble's default write options
sync the log). A call is cut wherever another goroutine or a crash can observe
a difference:

* `StartBatch` (filter, single-block checks, pre-validation, under the lock),
  `ApplyNext` per block, `CommitBatch` or `AbortBatch`, then `PublishBatch` or
  `SyncFails`;
* `StartRollback` (the reads *before* the lock), `LockRollback`, then per
  height `DisconnectNext`, `SkipHeight` or `DisconnectFails`, `CleanOrphan` per
  orphan, `FinishRollback`;
* `StartRecovery`, `RecoverySetTip`, `RecoveryDelete`, with `RecoveryFails` and
  `RecoverySyncFails` for the error returns;
* `CrashRestart` at any point (the daemon's shutdown does not save anything
  either, so a shutdown is the same step); `LoseTx` is the corruption that the
  recovery is for.

Abstractions: a transaction has one output, named by the transaction; a block
is a set of transactions whose order inside the block is valid; consensus
validation other than the availability of inputs is a precondition of the
offers (`CheckBlock`'s refusal of a block that spends an output twice is
`TxAssumption`). A call that returns before it changes anything is a disabled
action. A batch above the maximum size is processed in chunks under one lock;
the chunks appear as consecutive offers. A fresh node has no chain-state
record, because connecting genesis does not advance a tip of height 0
(`TipOf`); the next start writes one, unless the write fails (`CrashRestart`).
The model reads the database directly; the cache in front of it is `UtxoCache`. Not represented: address history, stake modifiers, PoS metadata,
notifications (`Wallet` and `Mempool` have those), checkpoints, statistics.
`reorganizeChain` and `addOrphan` are never reached in the code.

`Abstract == INSTANCE Ledger WITH chain <- Chain`, where `Chain` reads the
height index up to the chain-state record; `ImplementsLedger` is
`Abstract!Spec`.

### UtxoCache

`store` is the committed UTXO set, `cache` the LRU, `step` and `todo` the part
of `CachedBatch.Commit` that still has to update the cache, `reads` the GetUTXO
calls of other goroutines between their database read and their cache fill.
`Undo` says how blocks are taken back: `disconnect` goes through `CachedBatch`,
`bypass` is `DeleteCorruptBlock`, which `CachedStorage` does not override.

The code does not keep every entry in step, and the history variable `raced`
names the outputs for which it does not: an output created and spent in one
batch (it is added after the spent ones were removed, as unspent), an output
whose record changed while a read of it was in flight, and an output whose
block was removed behind the cache. The properties hold of all others. A restart
empties `raced` with the cache.

### Mempool and Pool

`txs`, `spentOutpoints`, `byFeeRate`, `orphans` and `count` are the fields of
`TxMempool`, each under its own lock; `pc[w]` and `job[w]` are a goroutine
inside `addTransaction` or `processOrphans`. `addTransaction` is cut at every
lock: `Check`, `Validate` (or `StoreOrphan`), `CheckCapacity`, `Insert`,
`UpdateIndexes`, `UpdateAddStats`, then `ProcessOrphans`, which calls it again
for the candidates. A removal takes its transactions out of the three maps in
one step and owes the statistics; `Clear` has three steps. The block processor
commits, collects and removes one transaction after the other; a commit whose
`storage.Sync` fails returns before it tells the pool
(`blockchain/unified_processor.go:528`), and a disconnect does not tell it either.
History: `raced` are transactions whose removal, re-indexing or block fell into
their own insertion, whose inputs a rollback took away, or which a block of which
the pool was not told confirmed or superseded; `reset` says that a `Clear` met work in progress.

### Wallet

`chain` and `best` are the committed blocks and the height in memory, `pool` and
`byFeeRate` the pool's map and its fee-rate index. `call[g]` is what goroutine `g`
is about to do for a transaction: `addTransaction` is `Validate` (against the chain
and the pool of that moment), `Insert` (under the write lock, which looks at
conflicts again and not at the chain), the callback `OnMempoolTransaction` and
`UpdateIndexes`, and a removal takes a transaction out of the map and the index
before its callback `EvictPendingTx`; other goroutines run between any two of
these. `proc` is the block processor after its commit, which `storage.Sync` may
end before wallet and pool are told; `stake` the staking worker's attempt:
`StakeSelect`, `StakeBuild`, which compares the height in memory and takes what the
fee-rate index lists, `StakeSubmit`. The index counts how often a transaction is
listed: `UpdateIndexes` does not look whether it is listed already, and a removal
that comes before it takes nothing out, so a transaction can stay listed for good
without being pooled. Left out are the order and the size limits of
`GetTransactionsForBlock` (its `SpendsPending` is never set), a rollback and a clean stop while the height in memory is behind the committed one.
`CleanRestart` writes the cache file; `CrashRestart` loads it if its tip is still the tip and
rescans otherwise. History: `raced` (left the pool before the wallet was told
it had entered), `stale` (a commit came between validation and insertion, a
removal between insertion and indexing, or the block that confirms or supersedes
it was never announced), `missed` (outputs made or spent by a block whose Sync
failed), `untracked` (announced and not tracked: the limit of pending
transactions, or a callback out of order), `overtaken` (tracked while a
conflicting transaction was still pending, of which one had left the pool: each
of the two then changes the other's entries), `dropped` (outputs that were spent
when the wallet rescanned, which a rollback therefore cannot restore), and
`astray` in a stake attempt (the wallet had not been told of the tip, or the
chain was another one of the same height when the block was built).

### Staking

`encrypted`, `unlocked`, `stakingOnly`, `unlockTime` are fields of the wallet,
`active` and `slot` the engine's `stakingActive` and `stakingWorker`,
`worker[k]` a `StakingWorker` object (loop position, `running`, whether `stopCh`
is closed). The wallet's critical sections are single steps; the one read lock
that is held over several is the worker's between `TakeReadLock` and
`SignCoinstake`, and a waiting writer keeps new readers out, as in Go's
`RWMutex`. `StartStaking` and `StopStaking` are cut at every access to the flag,
the pointer and the worker: `CompareAndSwap`, `CheckUnlocked`, `CreateWorker`,
`RunWorker`, and `LoadActive`, `StoreInactive`, `FetchWorker`, `StopWorker`,
`AwaitWorker`, `ClearWorker`. `Lock` goes on into `StopStaking` and `Unlock` into
the callback `OnUnlock` after the mutex is released. `Shutdown` is the engine's
`Stop`; `down` says that it has returned. Of keys and passphrases only right and
wrong is kept. `setgenerate`, which starts and stops past the setting, and the
node's time limit for `Stop` are left out. History: `raced` (two starts or stops
overlapped, or one began after the shutdown), `forgot` (a wrong passphrase
cancelled the auto-lock), `silent` (the wallet was locked without the callback).
`NoDeadlock` states with explicit guards when a call (`Waits`) or a worker
(`MayGo`) cannot take its next step, where `ENABLED` would say the same.

### Sync

`calls[a]` is the call stack of goroutine `a`, so that `stopSync`,
`Transition`'s callback and `updateConsensusState`, which call each other,
interleave with the other goroutines at every call. `done` and `closed` are the
channel by which `stopSync` learns that a session has ended; `owner` is the
session that drains the shared answer channels. Of blocks only the number is
kept. Heights are small, thresholds are constants. `peerTip` is what a session
aims at: `Launch` sets it, and `HandleInventoryAnnouncement` and `LegacyFallback`
raise it while the session runs. An announcement is taken to follow the chain's
tip whether its blocks are known or not, so it may lift the target beyond what any
peer has (`Target` prefers it during a batch). How a batch ends is an action each:
`BatchAccepted`, `BatchRolledBack` (recovery, fork search, reactive index
recovery), `BatchKnown` (fork search over blocks the node has: no error and no
progress), `BatchRejected`, `BatchTimeout`; after three rounds of the rotation
`RebuildPeerList` evaluates consensus before the loop goes on.

### Masternode

The Manager's maps are keyed by the outpoint or by a hash over it, so the model
is one outpoint. Times are ages in ping intervals. `ReceiveBroadcast`,
`CheckCollateral`, `StoreMasternode` and `ReceivePing`, `ApplyPing` are the
message handler between its locks; `UpdateStatuses`, `RemoveDead`,
`ClearSeenBroadcasts` the update loop between its phases. `MarkBroadcastSeen` is the
answer to a `dseg` request, which writes the seen map from a goroutine of its own;
the status it has read a moment before is read in the same step.
`MoveCollateral`, `SleepDetected` (the gap between two checks that makes
`IsBlockchainSynced` forget that the chain was in sync; the time asleep itself
passes as ordinary intervals) and `Restart` are the faults. `stable` turns true once and for all when the network
begins to deliver; `due` is what still happens in the current interval.

### Spork

One clock, any number of nodes, each with the p2p map (`cache`), the Manager
(`active`) and the database (`db`). A packet queue per node loses its content
when the node restarts. `LoseSpork` and `LoseAsk` drop what the code drops: a
send that finds the write queue full for 30 seconds (`peer.go:394`), a write
that keeps failing (`peer.go:464`), a message that finds `msgChan` full
(`peer.go:636`); nobody notices and nobody sends it again. `RequestSporks` is
masternode sync asking all peers once more. The history `lost` names the links
on which something was dropped that the receiver has not asked for since, and
`forgot` the nodes whose map a restart emptied while something of theirs was
dropped or unanswered; `Spread` promises delivery unless such links cut the node
off. A message carries the key that signed it (`new`, `old` or `bad`).
`UpdateSpork` is only possible on `Admins`. The 64-byte development signature
and the `received` map, which nothing reads, are left out.

## 3. Runs

Every property of a passing run has a mutant in `PROJECT.json`: a plausible bug
of the code, as an operator next to the one it replaces, under which TLC finds
the property violated.

Passing:

| Run | Instance | Properties |
|---|---|---|
| `BlockChain_serial` | 1 goroutine, 8 blocks on three branches up to height 3, 14 offers, rollback to any height, 2 crashes, failing commits, orphan deletions and chain-state writes | one linked chain and no block above it; UTXO set equals the chain's; supply; `blockIndex` backed; refines `Ledger` (which implies that the chain spends no output twice) |
| `BlockChain_race` | 3 goroutines, rollbacks and batches of blocks that hold only a coinbase | writers exclude each other, memory and disk agree, `knownBlocks` backed |
| `BlockChain_fair` | 2 goroutines, batches, rollbacks and recoveries, 1 lost transaction record, failing commits, syncs, chain-state writes and corrupt-block deletions | every call returns |
| `UtxoCache_follow` | 4 blocks, batches that spend their own outputs, both ways of taking blocks back, a concurrent reader, evictions, flushes, restarts | cache holds nothing the database lacks and serves no spent output as unspent, but for `raced` |
| `Mempool_pool` | 2 goroutines, 5 transactions (two conflicting, two children of one), 2 blocks of which one may not be told to the pool, capacity 1, 1 orphan | index exactness, the capacity bound, agreement with the chain, refines `Pool` |
| `Wallet_notify` | 2 coins, 4 transactions, a coinstake, a network block, 2 goroutines that fill the pool and the sender, three out of a rollback, a removal, a failing Sync, a stop and a crash | coins equal the chain's; pending exactly the pool's; offered coins are free; a stake block from the fee-rate index on an unmoved tip is valid |
| `Staking_lock` | 3 goroutines, 3 worker objects, 3 calls of any kind besides callbacks and timers | one worker, reachable, stopped before the storage closes; staking follows setting and wallet; a timed unlock keeps its timer; only the worker's second read lock can make all wait |
| `Sync_follow` | 2 sessions, one mute and one good peer, heights up to 3, batches of up to 3, announcements of 1 or 3 blocks, 1 fault (an announcement beyond the network's height is one) | the flag is never stranded; the node catches up |
| `Masternode_list` | 2 broadcasts, 1 fault (collateral, sleep or restart), 3 intervals to removal | only the dead are removed, none stays, who pings is enabled for good |
| `Spork_spread` | 3 nodes in a line, 2 keys, an administrator, clocks not ahead; 2 messages, a restart and a round of `RequestSporks`, three of these together; drops on one link at a time | the Manager is never behind the p2p map or the database; the spork in force never goes back; an accepted spork reaches every node that drops have not cut off |

Runs that end in a violation; each is a place where the code does not do what
its own comment says (quoted under `findings`):

| Run | What happens |
|---|---|
| `BlockChain_double_spend` | two blocks of one batch spend one output: `MarkUTXOSpent` looks for the first spender in committed storage only |
| `Masternode_spent` | the collateral of a masternode is spent; its output keeps a record, which is all that `IsUTXOSpent` asks for, and the masternode stays enabled |

### Conditions of the passing runs

The passing runs and the theorems state their properties under conditions, and
each condition is needed: lifting it makes TLC find a counterexample. To see
one, change the constants of the named run as shown.

| Change | Property that fails | Why |
|---|---|---|
| `BlockChain_serial` with `Workers = {w1, w2}` | `BlockIndexBacked` | a batch commits while a rollback waits for the lock; its blocks are then deleted as orphans and stay in `blockIndex`. With two rollbacks the second makes a block that the first deleted the tip |
| `BlockChain_serial` with `ForkBatches = TRUE` | `MainChainLinked` | a batch of several blocks that attaches below the tip rewrites the height index under an unmoved tip |
| `BlockChain_race` with `Failures = {"Sync"}` | `TipAgreement` | after a failed Sync the disk is ahead of memory |
| `BlockChain_race` with `Failures = {"Commit"}` | `TipAgreement` | a rollback stops half way, at a tip that another goroutine's batch had moved |
| `BlockChain_race` with `MaxCrashes = 1` | `TipAgreement` | a crash in a rollback that met a batch leaves an orphan above the tip; the orphan's child is accepted, and a later rollback disconnects it on disk but cannot read the block below it to update memory |
| `BlockChain_race` with `Recoveries = TRUE` | `KnownBlocksBacked` | corrupt-tip recovery leaves the block in `knownBlocks` |
| `BlockChain_serial` with `FewOffers`, `Targets = {}`, `Recoveries = TRUE`, `MaxLost = 1`, `MaxCrashes = 1` (with 0 it passes) | `MainChainLinked` | a crash between its two commits leaves the corrupt block above the tip, where it hides its own replacement |
| `Spork_spread` with `MaxAhead = 1` | `MostRecentStaysActive` | `UpdateSpork` compares no times |
| `Spork_spread` with `MaxRestarts = 2` | `Spread` | the nodes whose p2p maps hold the spork restart before they have relayed it, and a restarted map answers `getsporks` with nothing, although the Manager has the spork |
| `Spork_spread` with `MaxRestarts = 0`, `MaxAhead = 1`, `Admins = {}` | `Spread` | the p2p maps accept an old-key spork whose signer's clock is ahead, the Managers refuse it, and it keeps an earlier signed new-key spork from being relayed |
| `Spork_spread` with `WriteMayFail = TRUE` | `Spread` | a node that accepts a spork, fails to write it and restarts is left out of the relay by the peers that got it from that node |

More behaviours that are in the models and contradict no property that is
stated: a lone block that spends its own output is refused while the same block
in a batch is accepted (`InputsAvailable`); a restarted node answers
`getsporks` with nothing until it has received sporks again (`Restart`); a late
eviction deletes the reservation of a coin that a later, conflicting transaction
has made, because `wallet/notifications.go:949` does not look whose entry it is
(`overtaken`); a stake attempt compares the height of its tip and not its hash
(`consensus/staking_worker.go:421`), so it goes on over another tip of the same
height and the processor refuses its block (`astray`); after a
disconnect the cache may serve a restored output as spent, because
`CachedBatch` does not override `UnspendUTXO` (`Disconnect`); a rollback leaves
the children of its transactions in the pool, and a stake block built from it is
refused (`StakeBlockValid` names them); a transaction removed between its
insertion and its indexing stays in the fee-rate index, and every stake block that
takes it is refused (`stale`); after a commit whose Sync fails the wallet and the
pool are never told of the block (`missed`, `stale`, and `raced` in `Mempool`);
blocks that a peer announces a second time send a session after a height nobody
has (`HandleInventoryAnnouncement`); two sync sessions may run at once,
because `stopSync` clears the flag before it waits. In `Staking`, overlapping
starts and stops may call a nil worker, close `stopCh` twice or leave a worker
that nobody stops (`raced`); a writer that arrives between the worker's two read
locks stops the wallet for good (`Stuck`); a wrong passphrase cancels the
auto-lock of an unlocked wallet (`forgot`); `ChangePassphrase` leaves the wallet
locked and staking active (`silent`), although the comment at
`wallet/wallet.go:1141` speaks of restoring the lock state.

### Bounds

Three heights are enough for a rollback over two blocks, a batch of three, a
fork at height 1 and at height 2, and a block at, below and above the tip.
Transactions: one is in two branches, one pair spends inside a block, one pair
conflicts. Two crashes allow a crash during the calls that follow a restart;
one lost record corrupts any block, the tip included. Where goroutines meet
there are two, which cover the pairs of calls, or three, so that a batch falls
between two rollbacks that have both read before the lock. Blocks that
hold only a coinbase are always accepted again, which is what makes
orphans above the tip matter in `BlockChain_race`. In `UtxoCache` four blocks create,
spend, spend again on another branch and spend their own output. In `Mempool` a
capacity of one makes two additions overshoot it, one orphan slot makes every
second orphan evict, and three additions let a parent arrive between its two
children. In `Wallet` one removal, one rollback and one network block meet every
order of the callbacks of two additions and come between their validation,
insertion and indexing; a stop and a crash let the cache file of a
clean stop be loaded after a crash, a failing Sync leaves one block untold (three of these five at most in one
behaviour; all five together pass as well, in three minutes), and two interchangeable peers let one
announce while the other evicts. In `Staking` three calls make an unlock, a lock or setting and a
shutdown meet with the callbacks they start, and with three objects no start
waits for a free one. In `Sync` two sessions are the fewest that overlap; a full
announcement (3) and a single block below and above the network's height make all
the cases of `HandleInventoryAnnouncement`, and announcements beyond the network
count as faults because they would otherwise never end; the safety properties
hold with two faults as well. An instance that starts at heights 0 and 1 with the network at 2 and 3 passes
as well. In `Masternode` the intervals keep the order of the code's constants
(pings 300 s apart, expiration at 7200 s, removal at 7800 s), and
two broadcasts let a replay of the old one meet the new one. In `Spork` the
clock goes to 1 with a window of 1, so messages are in the past and current; two
signed messages give every order of an old and a new one. Every bound is a
constant: `MaxHeight`, `MaxCrashes`, `MaxLost`, `MaxAdds`, `MaxOps`,
`MaxRemovals`, `MaxUndos`, `MaxRestarts`, `MaxStops`, `MaxMisses`,
`MaxNet`, `MaxFaults`,
`MaxBroadcasts`, `MaxCalls`, `MaxTime`, `MaxAhead`, `MaxSigned`, `MaxRequests`,
`MaxEvents`, `MaxLossy`.

Deadlock is checked except where the system may stop because the bounds on its
environment are used up (`Spork`, `Mempool`, `Wallet`, `Sync`, `Staking`, which has `NoDeadlock` instead) and in
`BlockChain_fair` (after a failed Sync every offered block may already be
stored, so nothing is left to call).

### Fairness

* `BlockChain!FairSpec`: strong fairness of every goroutine's next step. The Go
  scheduler runs every runnable goroutine, and `sync.Mutex` hands the lock to
  the longest waiter once it has waited a millisecond (starvation mode), so a
  waiter is not overtaken for ever. New calls have no fairness.
* `Spork!Spec`: weak fairness of handling what is queued: `messageHandler` takes
  every message out of `msgChan`. Delivery itself is not assumed, since any
  message may be dropped before. Signing, drops, requests, restarts and the clock
  have no fairness.
* `Sync!Spec`: weak fairness of each goroutine, the ticker included. A good peer
  answers before the timeout; faults are bounded, so they end. Sessions that
  overlap for ever are excluded by `Converges` itself: the code does nothing
  against them.
* `Masternode!FairSpec`: weak fairness of both goroutines, and, once `stable`,
  of what an operator and its peers do in every ping interval: one ping signed
  and delivered, the broadcast offered again (peers answer `dseg` with it). The
  clock waits for what is due, as intervals are long against these steps.

## 4. Proofs

The theorems hold for all values of the constants that satisfy the named
assumptions: any block tree, any transactions, any number of goroutines, nodes
and readers.

* `Spork_proofs`: `SporkTypeCorrect`; `ManagerHoldsNewest` and
  `ActiveNeverOlder`, assuming `Admins = {} \/ MaxAhead = 0`. The invariant
  `ManagerNotBehind` is inductive only together with the fact that, where an
  administrator exists, nothing in any queue or map is signed in the future
  (`NoneFromFuture` in `OrderInv`), since `UpdateSpork` does not compare times.
  Without the assumption `MostRecentStaysActive` is false (the table above).
  Failing writes and unknown identifiers are covered. What `Spread` says of a
  network that has come to rest is proved in two ways. With any number of
  restarts: `NoNeighbourForgotten` and `QuietNeighboursHold`, from `RelayInv`,
  in which a spork a neighbour lacks is queued for it, owed to its
  `getsporks` or dropped on that link (`lost`), and a node that has not told the neighbour from which it got a
  spork can count on it having the spork (`SenderHolds`). Without restarts, as
  long as the links without drops connect the nodes: `QuietMapsAgree` and, with
  the old key out of use, `QuietManagersHold`, from `FloodInv`, in which the two
  ends of every connection agree, or the difference is in a queue, asked for or
  dropped. `Symmetric` says that a connection has two ends, and holds of the
  run's line of three; `Connected`, a predicate of the state, that neither the
  network nor drops cut a set of nodes off from the rest.
* `BlockChain_proofs`, without further assumptions: `BlockChainTypeCorrect` and
  `WritersExclude` from `WriterInv` = `TypeOK /\ SingleWriter /\ LocalsOK`. Type
  correctness needs the locals: a rollback's height stays above its target, a
  recovery's height is positive and its hash a block, the blocks of a batch fit
  below `MaxHeight`, and only the holder of the lock has an open batch. Equally
  without conditions `NobodyKeepsALock` (`LocksReleasable`: whoever holds a lock
  is inside the section it guards and can go on there) from `CallInv`, and
  `CallsShorten` for finitely many blocks, which hashes of 256 bits imply: the
  bound `Left` counts the blocks of a batch, the heights of a rollback and the
  stored blocks above its target that it may have to clean, and blocks are
  stored only by who holds the lock. With fairness these two make
  `CallsReturn`.
* `BlockChain_proofs` under `Orderly`: `MainChainAlwaysLinked`,
  `UTXOAlwaysMatchesChain`, `ChainSpendsOnce`, `SupplyAlwaysFollowsChain`,
  `TipsAlwaysAgree`, `BlockIndexAlwaysBacked`, `KnownBlocksAlwaysBacked` and
  `BlockChainImplementsLedger`, with crashes anywhere and failing commits,
  orphan deletions and chain-state writes. `OrderInv` adds to `WriterInv` that
  the store is sound (`Sound`: the indexes hold one chain and nothing else, the
  transaction index and the UTXO records are those of the chain, spent outputs
  keep the height and the transaction that spent them, the supply adds up), that
  an open batch is the sound continuation of the store (`BatchOK`), that a
  rollback's unlocked reads are still true, and that memory lags by at most the
  batch being published. Records of spent outputs are in it because a rollback
  restores the UTXO set from them alone.
* `BlockChain_proofs` under `Steady`: `TipsAgreeInRaces` and
  `KnownBlocksBackedInRaces`, for any number of goroutines that roll back and
  connect at once. A second rollback may then end with a tip that is no longer
  stored, so `SteadyInv` cannot speak of one chain. It says that every stored
  block lies at its height in the tree (`Filed`, with `Depth`), that no
  transaction is in two stored blocks and none spends what a higher one creates
  (`Distinct`), that below every rollback in progress, and below the tip when
  there is none, the height index is linked and has its inputs (`ChainBelow`),
  and that an entry of `knownBlocks` without a block lies above the target of a
  rollback that is still going to trim it.
* `UtxoCache_proofs`: `CacheTypeCorrect`, `CacheFollowsStore` and
  `SpentNotServedUnspent`, without further assumptions. The second strengthens
  `CachedOutputExists` with what is still to be added (`PendingStored`) and
  what readers carry (`InFlightStored`); the third strengthens
  `NoStaleUnspent` to the middle of a commit (`Coherent`, `PendingFresh`,
  `InFlightFresh`).
* `Mempool_proofs`: `MempoolTypeCorrect`, `SpentIndexAlwaysExact`,
  `OrphansBounded` (with the fact that the orphan list has no duplicates) and
  `MempoolImplementsPool`: `Insert` is a step of `Pool` because the index that
  `Conflicts` reads is exact, every other step removes or leaves `txs` alone.
  `FeeIndexAlwaysExact` adds who is between insertion and indexing (`FeeInv`),
  `PoolBounded` that the map is ahead of the statistics by one transaction per
  goroutine between the two (`CountInv`), `PoolAlwaysFollowsChain` that what
  validation found holds until the insertion and that what the last block
  conflicts with is about to be removed (`ChainInv`).
* `Sync_proofs`: `SyncTypeCorrect` and `SyncingNeverStranded`. The flag is
  cleared by whoever is deepest in the calls, so the invariant says what the
  call stacks look like (`Shaped`: calls on top of one step of the loop), which
  bounds the frames each action can meet. `CallsStayShallow` and `RoundsEnd`: the
  functions of the state machine call each other, but every step replaces itself
  by calls that need fewer steps (`Cost`) and less of the stack (`Room`), so that
  no goroutine is more than five calls deep and each of its rounds ends after at
  most eighteen of its steps, whatever announcements raise.
* `Wallet_proofs`: `WalletTypeCorrect`, `CoinsAlwaysFollowChain`,
  `PendingAlwaysFollowsPool`, `OfferedNeverPooled` and `StakeBlockAlwaysValid`.
  The invariants speak of two chains besides the committed one: what the wallet
  has been told (`Told`) and what the pool has been cleared of (`Settled`).
  `ChainInv` says the coins follow `Told` and the cache file follows the chain
  it was saved with; `PendingInv` that what is pending is pooled or an eviction
  is on its way; `OfferInv` that a pooled transaction is pending or there is a
  named reason why not; `CleanInv` that what the pool holds, and what has been validated and is on its
  way into it, spends nothing `Settled` has spent, but for `stale` transactions;
  `ListInv` that what the fee-rate index lists is in the pool once, or about to be
  listed, or `stale`; `StakeInv` the same of an attempt and its tip.
* `Masternode_proofs`: `MasternodeTypeCorrect`, `SilentNotListed` and
  `OnlyDeadRemoved`, for any times in the order `TimesAssumption` states. The
  invariant `ListInv` adds to `ListedIsAlive` what holds in the middle of a
  round (`RoundInv`: what is not alive is dead and about to be removed), that
  the handler carries a ping inside the tolerance (`HandlerOK`), that only
  signed broadcasts are listed (`EntrySigned`) and that the status `Removed`
  means silence (`RemovedIsSilent`). `EnabledForGood` is the lasting half of
  `OperatingIsEnabled`: once the newest broadcast is enabled and its pings are on
  schedule (`KeptEnabled`), every step leaves it so. It assumes
  `Spacing <= Expiration` (minutes against hours in the code).
* `Staking_proofs`: `StakingTypeCorrect`, `TimedUnlockEnds`,
  `EngineAlwaysConsistent` and `StakingAlwaysFollowsSettings`, for any number of
  goroutines, worker objects and calls. While `raced` is false at most one
  goroutine is inside a start or a stop; `EngineInv` says for each of its
  positions what flag, pointer and workers look like, and `SettingsInv` in
  addition which setting and lock state that goroutine has seen and still may
  rely on. `NeverAllWait` needs no such condition, also for overlapping starts
  and stops: `WaitInv` says that a worker that has been started keeps its
  goroutine until somebody has waited for its end, that whoever waits for a
  worker waits for one that is running and whose channel is closed, that no two
  wait for the same worker, and that only finitely many have been started. It
  assumes finitely many goroutines and, as the heap never runs out of workers, infinitely many
  `Workers`. `StuckForEver` shows that the exception it leaves, `Stuck`, is
  final.

`Orderly` and `Steady` are the rows of the conditions table as formulas.
`Orderly`: batches attach at the tip (`ForkBatches = FALSE`), no recovery of
corrupt tips, no failing Sync, no lost record, either one goroutine or no
rollbacks, and no batch that spends an output in two of its blocks (the run
`BlockChain_double_spend`). `Steady` gives up crashes and failures for any number
of goroutines with rollbacks and asks that the blocks form a tree. Both ask of
the blocks what transaction hashes imply: on a chain no transaction occurs
twice, and none spends an output that is created later (`NoRepeats`,
`NoEarlySpends`). The blocks and offers of `BlockChain_serial` satisfy `Orderly`,
those of `BlockChain_race` satisfy `Steady`. The assumptions of the modules are
of the same kind: `TxAssumption` says that a block spends no output twice and
that genesis spends nothing, `WalletAssumption` that the transactions confirmed
from the start spend only each other.

Only model-checked: the liveness properties `CallsReturn`, `Spread`, `Converges`
and `OperatingIsEnabled`, since TLAPS proves no liveness under fairness. Of each
the safety part is proved: that calls get shorter and no lock is kept
(`CallsShorten`, `NobodyKeepsALock`), that a network at rest has told everyone
(`QuietNeighboursHold`, `QuietManagersHold`), that rounds end and the flag is not
stranded (`RoundsEnd`, `SyncingNeverStranded`), and that what is enabled stays so
(`EnabledForGood`). What remains with TLC is that the scheduler's fairness turns
these into progress. Outside `Orderly` and `Steady` the properties of the chain
are neither proved nor checked where the conditions table shows them false.
Induction over data and `RECURSIVE` operators are out of the prover's reach, so
the modules use neither: that a chain is linked is stated of neighbours, and
what holds along it is carried in the invariant.

## 5. Not modelled

The repository has about 130,000 lines of implementation. More than half of them
are the desktop GUI, RPC and CLI formatting, configuration, encodings, sockets,
cryptography, script evaluation and 256-bit target arithmetic: data and layout
without the interleavings these models are about. Of the rest the models take
the state changes whose order matters. Left out, with the reason:

* `RecoverFromFork` after its rollback (`CleanOrphanedData`, `ResetChainState`),
  which runs without `processingMu`; the rollback itself is modelled.
* `InvalidateBlock`, `ReconsiderBlock` and the chain validator: operator commands
  and a start-up scan that end in the modelled rollback.
* The quorum check of forks and peer scores of `p2p/sync*.go`; the effect of a
  detected fork is `BatchRolledBack`.
* Masternode payments, winner votes, scores and the payment queue: functions of
  block hashes and a sorted list.
* The wallet's key material, history, autocombine and balances per address.
* The peers' connections, handshakes and address book.
* `reorganizeChain`, `addOrphan`, `RequestSync`, `handleSyncRequest`,
  `HandleReorg`, `requestMissingBlocks` and `checkIBDMode`, which nothing calls.

What would be worth adding next: the code after `RecoverFromFork`'s rollback as
actions of `BlockChain`; winner votes and the payment queue; a composition of
`BlockChain` and `UtxoCache`; what remains of the chain's properties when a
rollback that stopped half way met other goroutines.
