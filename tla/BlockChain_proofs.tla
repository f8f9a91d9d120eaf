-------------------------- MODULE BlockChain_proofs --------------------------
(***************************************************************************)
(* Proofs about BlockChain for every block tree and every set of           *)
(* goroutines.  Types and mutual exclusion hold for every combination of   *)
(* offers, rollbacks, recoveries, crashes and lost records.  What the      *)
(* chain promises (links, UTXO set, supply, memory, the refinement of      *)
(* Ledger) holds under Orderly, defined below, with crashes and failing    *)
(* writes.  What still holds when rollbacks meet batches and each other,   *)
(* that memory and disk agree, is proved under Steady.                     *)
(***************************************************************************)
EXTENDS BlockChain, FiniteSetTheorems, SequenceTheorems, TLAPS

-----------------------------------------------------------------------------
(* What the writes return.                                                 *)

\* A spender is a transaction exactly for the outputs the block spends.
LEMMA SpenderInType ==
    ASSUME NEW b \in Blocks, NEW t
    PROVE  SpenderIn(b, t) \in Txs \cup {NoTx}
  <1>1. TxsOf[b] \subseteq Txs
    BY TxAssumption DEF TxAssumption
  <1>2. CASE t \in Inputs(b)
    <2>1. \E s \in TxsOf[b] : t \in Spends[s]
      BY <1>2 DEF Inputs
    <2> QED
      BY <1>1, <1>2, <2>1 DEF SpenderIn
  <1>3. CASE t \notin Inputs(b)
    BY <1>3 DEF SpenderIn
  <1> QED
    BY <1>2, <1>3

\* applyBlockToBatch's UTXO writes, when every input from outside can be spent.
LEMMA AppliedUTXOsType ==
    ASSUME NEW d \in Database, NEW b \in Blocks, NEW h \in Heights,
           \A t \in Inputs(b) \ TxsOf[b] : d.utxo[t] # NoUTXO
    PROVE  AppliedUTXOs(d, b, h) \in [Txs -> UTXOData \cup {NoUTXO}]
  <1>1. d.utxo \in [Txs -> UTXOData \cup {NoUTXO}]
    BY DEF Database
  <1>2. 0 \in Heights
    BY BoundAssumption DEF BoundAssumption, Heights
  <1>3. ASSUME NEW t \in Txs
        PROVE  AppliedUTXOs(d, b, h)[t] \in UTXOData \cup {NoUTXO}
    <2>1. SpenderIn(b, t) \in Txs \cup {NoTx}
      BY SpenderInType
    <2>2. CASE t \in TxsOf[b]
      BY <1>2, <2>1, <2>2 DEF AppliedUTXOs, UTXOData
    <2>3. CASE t \notin TxsOf[b] /\ t \in Inputs(b)
      <3>1. d.utxo[t] \in UTXOData
        BY <1>1, <2>3
      <3> QED
        BY <2>1, <2>3, <3>1 DEF AppliedUTXOs, UTXOData
    <2>4. CASE t \notin TxsOf[b] /\ t \notin Inputs(b)
      BY <1>1, <2>4 DEF AppliedUTXOs
    <2> QED
      BY <2>2, <2>3, <2>4
  <1> QED
    BY <1>3 DEF AppliedUTXOs

\* UnspendUTXO returns an output record.
LEMMA UnspentType ==
    ASSUME NEW u \in UTXOData PROVE Unspent(u) \in UTXOData
  <1>1. 0 \in Heights
    BY BoundAssumption DEF BoundAssumption, Heights
  <1> QED
    BY <1>1 DEF Unspent, UTXOData

\* A database is what its seven key spaces are.
LEMMA DatabaseParts ==
    ASSUME NEW d \in Database
    PROVE  /\ d.blocks \subseteq Blocks
           /\ d.hashAt \in [Heights -> Blocks \cup {NoBlock}]
           /\ d.heightOf \in [Blocks -> Heights \cup {-1}]
           /\ d.txIn \in [Txs -> Blocks \cup {NoBlock}]
           /\ d.utxo \in [Txs -> UTXOData \cup {NoUTXO}]
           /\ d.supply \in [Heights -> Int]
           /\ d.tip \in ChainState
           /\ d # NoBatch
  BY SentinelAssumption DEF Database, SentinelAssumption

\* applyBlockToBatch keeps the database well typed.
LEMMA ApplyBlockType ==
    ASSUME NEW d \in Database, NEW b \in Blocks, NEW h \in Heights, h > 0,
           \A t \in Inputs(b) \ TxsOf[b] : d.utxo[t] # NoUTXO
    PROVE  ApplyBlock(d, b, h) \in Database
  <1> DEFINE hashAt == [d.hashAt EXCEPT ![h] = b]
             heightOf == [d.heightOf EXCEPT ![b] = h]
             txIn == StoredTxs(d, b)
             utxo == AppliedUTXOs(d, b, h)
             supply == [d.supply EXCEPT ![h] = MoneySupply(d, b, h)]
             tip == IF h > best.height THEN [height |-> h, hash |-> b] ELSE d.tip
  <1>1. hashAt \in [Heights -> Blocks \cup {NoBlock}]
        /\ heightOf \in [Blocks -> Heights \cup {-1}]
        /\ txIn \in [Txs -> Blocks \cup {NoBlock}]
    BY DatabaseParts DEF StoredTxs
  <1>2. utxo \in [Txs -> UTXOData \cup {NoUTXO}]
    BY AppliedUTXOsType
  <1>3. supply \in [Heights -> Int]
    <2>1. d.supply \in [Heights -> Int] /\ h - 1 \in Heights /\ Minted[b] \in Int
      BY DatabaseParts, BoundAssumption, TxAssumption
      DEF Heights, BoundAssumption, TxAssumption
    <2>2. MoneySupply(d, b, h) \in Int
      BY <2>1 DEF MoneySupply
    <2> QED
      BY <2>1, <2>2
  <1>4. tip \in ChainState
    BY DatabaseParts DEF ChainState
  <1>5. d.blocks \cup {b} \in SUBSET Blocks
    BY DatabaseParts
  <1>6. ApplyBlock(d, b, h) =
          [blocks |-> d.blocks \cup {b}, hashAt |-> hashAt, heightOf |-> heightOf,
           txIn |-> txIn, utxo |-> utxo, supply |-> supply, tip |-> tip]
    BY DEF ApplyBlock
  <1> HIDE DEF hashAt, heightOf, txIn, utxo, supply, tip
  <1> QED
    BY <1>1, <1>2, <1>3, <1>4, <1>5, <1>6 DEF Database

\* What every removal of a block shares keeps the database well typed.
LEMMA WithoutBlockType ==
    ASSUME NEW d \in Database, NEW b \in Blocks, NEW h \in Heights
    PROVE  WithoutBlock(d, b, h) \in Database
  <1> DEFINE hashAt == [d.hashAt EXCEPT ![h] = NoBlock]
             heightOf == [d.heightOf EXCEPT ![b] = -1]
  <1>1. hashAt \in [Heights -> Blocks \cup {NoBlock}]
        /\ heightOf \in [Blocks -> Heights \cup {-1}]
        /\ d.blocks \ {b} \in SUBSET Blocks
    BY DatabaseParts
  <1>2. WithoutBlock(d, b, h) =
          [d EXCEPT !.blocks = d.blocks \ {b}, !.hashAt = hashAt, !.heightOf = heightOf]
    BY DEF WithoutBlock
  <1> HIDE DEF hashAt, heightOf
  <1> QED
    BY <1>1, <1>2 DEF Database

\* Heights below a height are heights.
LEMMA HeightsBelow ==
    ASSUME NEW h \in Heights, h > 0 PROVE h - 1 \in Heights
  BY BoundAssumption DEF Heights, BoundAssumption

\* Writing the chain-state record keeps the database well typed.
LEMMA SetTipType ==
    ASSUME NEW d \in Database, NEW h \in Heights, NEW b \in Blocks \cup {NoBlock}
    PROVE  [d EXCEPT !.tip = [height |-> h, hash |-> b]] \in Database
  <1>1. [height |-> h, hash |-> b] \in ChainState
    BY DEF ChainState
  <1> QED
    BY <1>1 DEF Database

\* disconnectBlock's batch keeps the database well typed.
LEMMA DisconnectedType ==
    ASSUME db \in Database, NEW b \in Blocks, db.heightOf[b] > 0,
           \A t \in Inputs(b) : db.utxo[t] # NoUTXO
    PROVE  Disconnected(b) \in Database
  <1> DEFINE h == db.heightOf[b]
             x == DeletedTxs(b)
             u == RestoredUTXOs(b)
             tip == [height |-> h - 1, hash |-> Parent[b]]
  <1>1. h \in Heights
    BY DatabaseParts
  <1>2. h - 1 \in Heights
    BY <1>1, HeightsBelow
  <1>3. tip \in ChainState
    BY <1>2, BlockAssumption DEF BlockAssumption, ChainState
  <1>4. x \in [Txs -> Blocks \cup {NoBlock}]
    BY DatabaseParts DEF DeletedTxs
  <1>5. u \in [Txs -> UTXOData \cup {NoUTXO}]
    <2>1. db.utxo \in [Txs -> UTXOData \cup {NoUTXO}]
      BY DatabaseParts
    <2>2. \A t \in Txs : t \in Inputs(b) => Unspent(db.utxo[t]) \in UTXOData
      BY <2>1, UnspentType
    <2> QED
      BY <2>1, <2>2 DEF RestoredUTXOs
  <1>6. WithoutBlock(db, b, h) \in Database
    BY <1>1, WithoutBlockType
  <1>7. Disconnected(b) = [WithoutBlock(db, b, h) EXCEPT !.txIn = x, !.utxo = u, !.tip = tip]
    BY DEF Disconnected
  <1> HIDE DEF h, x, u, tip
  <1> QED
    BY <1>3, <1>4, <1>5, <1>6, <1>7 DEF Database

\* deleteOrphanedBlock keeps the database well typed.
LEMMA OrphanDeletedType ==
    ASSUME db \in Database, NEW b \in Blocks, db.heightOf[b] \in Heights
    PROVE  OrphanDeleted(b) \in Database
  <1> DEFINE h == db.heightOf[b]
             hashAt == [db.hashAt EXCEPT ![h] = IF db.hashAt[h] = b THEN NoBlock
                                                ELSE db.hashAt[h]]
             heightOf == [db.heightOf EXCEPT ![b] = -1]
             x == [t \in Txs |-> IF Readable(b) /\ t \in TxsOf[b]
                                 THEN NoBlock ELSE db.txIn[t]]
  <1>1. /\ hashAt \in [Heights -> Blocks \cup {NoBlock}]
        /\ heightOf \in [Blocks -> Heights \cup {-1}]
        /\ x \in [Txs -> Blocks \cup {NoBlock}]
        /\ db.blocks \ {b} \in SUBSET Blocks
    BY DatabaseParts
  <1>2. OrphanUTXOs(b) \in [Txs -> UTXOData \cup {NoUTXO}]
    <2>1. db.utxo \in [Txs -> UTXOData \cup {NoUTXO}]
      BY DatabaseParts
    <2>2. \A t \in Txs : SpentBy(b, t) => Unspent(db.utxo[t]) \in UTXOData
      BY <2>1, UnspentType DEF SpentBy
    <2> QED
      BY <2>1, <2>2 DEF OrphanUTXOs
  <1>3. OrphanDeleted(b) = [db EXCEPT !.blocks = db.blocks \ {b}, !.heightOf = heightOf,
                                      !.hashAt = hashAt, !.txIn = x,
                                      !.utxo = OrphanUTXOs(b)]
    BY DEF OrphanDeleted
  <1> HIDE DEF hashAt, heightOf, x
  <1> QED
    BY <1>1, <1>2, <1>3 DEF Database

\* DeleteCorruptBlock keeps the database well typed.
LEMMA CorruptDeletedType ==
    ASSUME db \in Database, NEW b \in Blocks, NEW h \in Heights
    PROVE  CorruptDeleted(b, h) \in Database
  <1> DEFINE x == [t \in Txs |-> IF t \in CorruptHashes(b) THEN NoBlock ELSE db.txIn[t]]
  <1>1. x \in [Txs -> Blocks \cup {NoBlock}]
    BY DatabaseParts
  <1>2. CorruptUTXOs(b, h) \in [Txs -> UTXOData \cup {NoUTXO}]
    <2>1. db.utxo \in [Txs -> UTXOData \cup {NoUTXO}]
      BY DatabaseParts
    <2>2. \A t \in Txs : db.utxo[t] # NoUTXO => Unspent(db.utxo[t]) \in UTXOData
      BY <2>1, UnspentType
    <2> QED
      BY <2>1, <2>2 DEF CorruptUTXOs
  <1>3. CorruptDeleted(b, h)
          = [WithoutBlock(db, b, h) EXCEPT !.txIn = x, !.utxo = CorruptUTXOs(b, h)]
    BY DEF CorruptDeleted
  <1>4. WithoutBlock(db, b, h) \in Database
    BY WithoutBlockType
  <1> HIDE DEF x
  <1> QED
    BY <1>1, <1>2, <1>3, <1>4 DEF Database

-----------------------------------------------------------------------------
(* Type correctness and mutual exclusion.                                  *)

\* What a goroutine's locals satisfy at each point of its call: the loop's
\* heights stay in range, a rollback never starts below its target, and a
\* recovery works on a block above genesis.
LocalsOK(w) ==
    /\ pc[w] \in {"apply", "publish"} =>
        /\ Len(job[w].blocks) >= 1 /\ job[w].done <= Len(job[w].blocks)
        /\ job[w].h >= 1 /\ job[w].h + Len(job[w].blocks) - 1 <= MaxHeight
    /\ pc[w] \in {"waiting", "disconnect"} => job[w].target <= job[w].h
    /\ pc[w] \in {"recover", "delete"} => job[w].h >= 1 /\ job[w].hash \in Blocks

\* The inductive invariant.  TypeOK alone is not inductive: the next height, the
\* batch and the parent height are in range only because of what a goroutine
\* has checked before and because processingMu keeps the others out.
WriterInv == TypeOK /\ SingleWriter /\ \A w \in Workers : LocalsOK(w)

\* A fresh node satisfies the inductive invariant.
LEMMA InitWriter == Init => WriterInv
  <1> SUFFICES ASSUME Init PROVE WriterInv
    OBVIOUS
  <1> USE BlockAssumption, TxAssumption, BoundAssumption
  <1>0. 0 \in Heights /\ Heights \subseteq Int
    BY DEF BoundAssumption, Heights
  <1>1. db \in Database
    <2>1. [height |-> 0, spentAt |-> 0, spentBy |-> NoTx] \in UTXOData
      BY <1>0 DEF UTXOData
    <2>2. [height |-> 0, hash |-> NoBlock] \in ChainState
      BY <1>0 DEF ChainState
    <2>3. [h \in Heights |-> IF h = 0 THEN Minted[Genesis] ELSE 0] \in [Heights -> Int]
      BY DEF BlockAssumption, TxAssumption
    <2> QED
      BY <1>0, <2>1, <2>2, <2>3 DEF Init, Database, BlockAssumption
  <1>2. NoJob \in Job
    BY <1>0 DEF NoJob, Job
  <1>3. best \in ChainState
    BY <1>0 DEF Init, ChainState
  <1>4. TypeOK
    BY <1>0, <1>1, <1>2, <1>3 DEF Init, TypeOK, BlockAssumption, BoundAssumption
  <1>5. SingleWriter
    BY DEF Init, SingleWriter
  <1> QED
    BY <1>4, <1>5 DEF WriterInv, LocalsOK, Init

Writing == {"apply", "publish", "disconnect", "delete"}

\* While nobody holds processingMu nobody is writing and no batch is open; while
\* w holds it nobody else is writing.
LEMMA LockMeansWriter ==
    ASSUME WriterInv, NEW w \in Workers
    PROVE  /\ lock = NoWorker => (pc[w] \notin Writing /\ batch = NoBatch)
           /\ (pc[w] \in Writing) => (lock = w /\ \A v \in Workers \ {w} : pc[v] \notin Writing)
           /\ (pc[w] \in {"disconnect", "delete"}) => batch = NoBatch
           /\ (pc[w] \in {"apply", "publish"}) => batch \in Database
  BY BoundAssumption DEF WriterInv, TypeOK, SingleWriter, Writing, BoundAssumption

\* A call that returns, leaving well-typed data and no open batch, leaves the
\* invariant.
LEMMA ReturnKeeps ==
    ASSUME WriterInv, NEW w \in Workers, pc[w] \in Writing \/ lock = NoWorker, Return(w),
           db' \in Database, batch' = NoBatch, best' \in ChainState,
           blockIndex' \subseteq Blocks, knownBlocks' \in [Blocks -> Heights \cup {-1}],
           UNCHANGED <<crashes, lost>>
    PROVE  WriterInv'
  <1>1. NoJob \in Job
    BY BoundAssumption DEF NoJob, Job, Heights, BoundAssumption
  <1>2. \A v \in Workers : pc'[v] = (IF v = w THEN "idle" ELSE pc[v])
    BY DEF WriterInv, TypeOK, Return
  <1>3. \A v \in Workers : v # w => job'[v] = job[v]
    BY DEF WriterInv, TypeOK, Return
  <1>4. TypeOK'
    BY <1>1 DEF WriterInv, TypeOK, Return
  <1>5. \A v \in Workers : pc'[v] \notin Writing
    BY <1>2, LockMeansWriter DEF Writing
  <1>6. SingleWriter'
    BY <1>5 DEF SingleWriter, Writing
  <1>7. \A v \in Workers : LocalsOK(v)'
    BY <1>2, <1>3 DEF LocalsOK, WriterInv
  <1> QED
    BY <1>4, <1>6, <1>7 DEF WriterInv

\* The blocks of a batch that remain after the filter are blocks, at least one.
LEMMA NewBlocksType ==
    ASSUME NEW s \in Offers, NEW blocks \in NewBlocks(s)
    PROVE  blocks \in Seq(Blocks) /\ Len(blocks) >= 1
  <1>1. s \in Seq(Blocks)
    BY BlockAssumption DEF BlockAssumption
  <1>2. PICK k \in 0 .. Len(s) - 1 : blocks = SubSeq(s, k + 1, Len(s))
    BY DEF NewBlocks
  <1>3. Len(s) \in Nat /\ k + 1 \in 1 .. Len(s) /\ Len(s) \in 1 .. Len(s)
    BY <1>1
  <1>4. SubSeq(s, k + 1, Len(s)) \in Seq(Blocks)
        /\ Len(SubSeq(s, k + 1, Len(s))) = Len(s) - (k + 1) + 1
    BY <1>1, <1>3, SubSeqProperties
  <1> QED
    BY <1>2, <1>3, <1>4

\* A batch is opened only by the goroutine that takes the free lock.
LEMMA StartBatchKeeps ==
    ASSUME WriterInv, NEW w \in Workers, NEW s \in Offers, StartBatch(w, s)
    PROVE  WriterInv'
  <1>1. PICK blocks \in NewBlocks(s) :
            LET parent == Parent[blocks[1]]
                h == db.heightOf[parent] + 1
            IN  /\ PreValidateBatch(blocks)
                /\ h > 0
                /\ h + Len(blocks) - 1 <= MaxHeight
                /\ job' = [job EXCEPT ![w] = [NoJob EXCEPT !.blocks = blocks, !.h = h]]
    BY DEF StartBatch
  <1> DEFINE h == db.heightOf[Parent[blocks[1]]] + 1
  <1>2. blocks \in Seq(Blocks) /\ Len(blocks) >= 1 /\ blocks[1] \in Blocks
    <2>1. blocks \in Seq(Blocks) /\ Len(blocks) >= 1
      BY NewBlocksType
    <2> QED
      BY <2>1
  <1>3. Parent[blocks[1]] \in Blocks
    BY <1>1, <1>2, BlockAssumption
    DEF PreValidateBatch, HasBlock, WriterInv, TypeOK, Database, BlockAssumption
  <1>4. h \in Heights /\ h >= 1 /\ h + Len(blocks) - 1 <= MaxHeight
    <2>1. db.heightOf[Parent[blocks[1]]] \in Heights \cup {-1}
      BY <1>3, DatabaseParts DEF WriterInv, TypeOK
    <2>2. h > 0 /\ h + Len(blocks) - 1 <= MaxHeight
      BY <1>1
    <2> HIDE DEF h
    <2>3. h \in Int
      BY <2>1, BoundAssumption DEF h, Heights, BoundAssumption
    <2>4. Len(blocks) \in Nat
      BY <1>2
    <2> QED
      BY <1>2, <2>2, <2>3, <2>4, BoundAssumption DEF Heights, BoundAssumption
  <1> DEFINE j == [NoJob EXCEPT !.blocks = blocks, !.h = h]
  <1>5. job' = [job EXCEPT ![w] = j]
    BY <1>1
  <1> HIDE DEF h
  <1>6. j \in Job
    <2>1. 0 \in Heights
      BY BoundAssumption DEF Heights, BoundAssumption
    <2> QED
      BY <1>2, <1>4, <2>1 DEF NoJob, Job
  <1>7. /\ j.blocks = blocks /\ j.done = 0 /\ j.h = h
    BY DEF NoJob
  <1> HIDE DEF j
  <1>8. /\ pc' = [pc EXCEPT ![w] = "apply"] /\ lock' = w /\ batch' = db /\ lock = NoWorker
        /\ UNCHANGED <<db, mem, rmLock, crashes, lost>>
    BY DEF StartBatch
  <1>9. TypeOK'
    BY <1>5, <1>6, <1>8 DEF WriterInv, TypeOK, mem
  <1>10. \A v \in Workers : pc'[v] = IF v = w THEN "apply" ELSE pc[v]
    BY <1>8 DEF WriterInv, TypeOK
  <1>11. \A v \in Workers : job'[v] = IF v = w THEN j ELSE job[v]
    BY <1>5 DEF WriterInv, TypeOK
  <1>12. \A v \in Workers : pc[v] \notin Writing
    BY <1>8, LockMeansWriter
  <1>13. batch' # NoBatch
    BY <1>8, DatabaseParts DEF WriterInv, TypeOK
  <1>14. SingleWriter'
    BY <1>8, <1>10, <1>12, <1>13 DEF SingleWriter, Writing
  <1>15. \A v \in Workers : LocalsOK(v)'
    <2>1. Len(blocks) \in Nat
      BY <1>2
    <2> QED
      BY <1>2, <1>4, <1>7, <1>10, <1>11, <2>1 DEF LocalsOK, WriterInv
  <1> QED
    BY <1>9, <1>14, <1>15 DEF WriterInv

\* The k-th block of n that start at height a stays below the bound they fit in.
LEMMA HeightInBatch ==
    ASSUME NEW a \in Nat, NEW k \in Nat, NEW n \in Nat, NEW m \in Nat,
           a >= 1, a + n - 1 <= m, k + 1 \in 1 .. n
    PROVE  a + k \in 1 .. m
  OBVIOUS

\* One turn of the batch loop stays within the heights the batch was checked for.
LEMMA ApplyNextKeeps ==
    ASSUME WriterInv, NEW w \in Workers, ApplyNext(w)
    PROVE  WriterInv'
  <1> DEFINE b == NextBlock(w)
             h == NextHeight(w)
             n == Len(job[w].blocks)
  <1>0. /\ job[w] \in Job /\ LocalsOK(w) /\ pc[w] = "apply" /\ ~AllApplied(w)
        /\ batch \in Database
    BY LockMeansWriter DEF WriterInv, TypeOK, ApplyNext
  <1>1. /\ job[w].blocks \in Seq(Blocks) /\ n \in Nat /\ job[w].done \in Nat
        /\ job[w].h \in Heights
    BY <1>0 DEF Job
  <1>2. job[w].done + 1 \in 1 .. n
    BY <1>0, <1>1 DEF LocalsOK, AllApplied
  <1>3. b \in Blocks
    BY <1>1, <1>2 DEF NextBlock
  <1>4. h \in Heights /\ h > 0
    <2>1. job[w].h >= 1 /\ job[w].h + n - 1 <= MaxHeight
      BY <1>0 DEF LocalsOK
    <2>2. job[w].h \in Nat /\ MaxHeight \in Nat
      BY <1>1, BoundAssumption DEF Heights, BoundAssumption
    <2>3. job[w].h + job[w].done \in 1 .. MaxHeight
      BY <1>1, <1>2, <2>1, <2>2, HeightInBatch
    <2> QED
      BY <2>2, <2>3 DEF NextHeight, Heights
  <1>5. \A t \in Inputs(b) \ TxsOf[b] : batch.utxo[t] # NoUTXO
    BY DEF ApplyNext, InputsSpendable, CanSpend
  <1>6. batch' \in Database
    <2>1. ApplyBlock(batch, b, h) \in Database
      BY <1>0, <1>3, <1>4, <1>5, ApplyBlockType
    <2> QED
      BY <2>1 DEF ApplyNext
  <1>7. batch' # NoBatch
    BY <1>6, DatabaseParts
  <1>8. /\ job' = [job EXCEPT ![w].done = job[w].done + 1]
        /\ UNCHANGED <<db, best, blockIndex, knownBlocks, lock, rmLock, pc, crashes, lost>>
    BY DEF ApplyNext, mem
  <1>9. \A v \in Workers : job'[v] = IF v = w THEN [job[w] EXCEPT !.done = job[w].done + 1]
                                             ELSE job[v]
    BY <1>8 DEF WriterInv, TypeOK
  <1>10. [job[w] EXCEPT !.done = job[w].done + 1] \in Job
    BY <1>0, <1>1 DEF Job
  <1>11. TypeOK'
    <2>1. job' \in [Workers -> Job]
      BY <1>8, <1>10 DEF WriterInv, TypeOK
    <2> QED
      BY <1>6, <1>8, <2>1 DEF WriterInv, TypeOK
  <1>12. SingleWriter'
    BY <1>0, <1>7, <1>8 DEF WriterInv, SingleWriter
  <1>13. LocalsOK(w)'
    <2>1. /\ job'[w].blocks = job[w].blocks /\ job'[w].h = job[w].h
          /\ job'[w].done = job[w].done + 1
      BY <1>0, <1>9 DEF Job
    <2> QED
      BY <1>0, <1>1, <1>2, <1>8, <2>1 DEF LocalsOK
  <1>14. \A v \in Workers : LocalsOK(v)'
    BY <1>8, <1>9, <1>13 DEF LocalsOK, WriterInv
  <1> QED
    BY <1>11, <1>12, <1>14 DEF WriterInv

\* Abort, commit, publication and a failed Sync end a batch with the lock released or kept.
LEMMA BatchEndKeeps ==
    ASSUME WriterInv, NEW w \in Workers, AbortBatch(w) \/ SyncFails(w) \/ CommitBatch(w) \/ PublishBatch(w)
    PROVE  WriterInv'
  <1>0. /\ job[w] \in Job /\ LocalsOK(w)
    BY DEF WriterInv, TypeOK
  <1>1. CASE AbortBatch(w) \/ SyncFails(w)
    <2>1. pc[w] \in Writing /\ batch' = NoBatch /\ Return(w)
          /\ UNCHANGED <<db, best, blockIndex, knownBlocks, crashes, lost>>
      BY <1>1 DEF AbortBatch, SyncFails, mem, Writing
    <2> QED
      BY <2>1, ReturnKeeps DEF WriterInv, TypeOK
  <1>2. CASE CommitBatch(w)
    <2>1. /\ pc[w] = "apply" /\ db' = batch /\ pc' = [pc EXCEPT ![w] = "publish"]
          /\ UNCHANGED <<batch, best, blockIndex, knownBlocks, lock, rmLock, job, crashes, lost>>
      BY <1>2 DEF CommitBatch, mem
    <2>2. db' \in Database
      BY <2>1, LockMeansWriter
    <2>3. TypeOK'
      BY <2>1, <2>2 DEF WriterInv, TypeOK
    <2>4. \A v \in Workers : pc'[v] = IF v = w THEN "publish" ELSE pc[v]
      BY <2>1 DEF WriterInv, TypeOK
    <2>5. SingleWriter'
      BY <2>1, <2>4 DEF WriterInv, SingleWriter
    <2>6. \A v \in Workers : LocalsOK(v)'
      BY <2>1, <2>4 DEF WriterInv, LocalsOK
    <2> QED
      BY <2>3, <2>5, <2>6 DEF WriterInv
  <1>3. CASE PublishBatch(w)
    <2> DEFINE blocks == job[w].blocks
               n == Len(blocks)
               last == job[w].h + n - 1
               heightIn(b) == job[w].h + (CHOOSE i \in 1 .. n : blocks[i] = b) - 1
               new == {blocks[i] : i \in 1 .. n}
    <2>1. /\ pc[w] = "publish" /\ batch' = NoBatch /\ Return(w)
          /\ best' = IF last > best.height THEN [height |-> last, hash |-> blocks[n]] ELSE best
          /\ blockIndex' = blockIndex \cup new
          /\ knownBlocks' = [b \in Blocks |-> IF b \in new THEN heightIn(b) ELSE knownBlocks[b]]
          /\ UNCHANGED <<db, crashes, lost>>
      BY <1>3 DEF PublishBatch
    <2>2. /\ blocks \in Seq(Blocks) /\ n \in Nat /\ n >= 1
          /\ job[w].h \in Heights /\ job[w].h >= 1 /\ last <= MaxHeight
      BY <1>0, <2>1 DEF Job, LocalsOK
    <2>3. new \subseteq Blocks /\ blocks[n] \in Blocks
      BY <2>2
    <2>4. last \in Heights
      BY <2>2, BoundAssumption DEF Heights, BoundAssumption
    <2>5. ASSUME NEW b \in new PROVE heightIn(b) \in Heights
      <3> DEFINE i == CHOOSE i \in 1 .. n : blocks[i] = b
      <3>1. \E k \in 1 .. n : blocks[k] = b
        BY <2>5
      <3>2. i \in 1 .. n
        BY <3>1
      <3> HIDE DEF i
      <3>3. job[w].h + i - 1 \in Heights
        BY <2>2, <3>2, BoundAssumption DEF Heights, BoundAssumption
      <3> QED
        BY <3>3 DEF i
    <2>6. best' \in ChainState
      <3> HIDE DEF last
      <3> QED
        BY <2>1, <2>3, <2>4 DEF WriterInv, TypeOK, ChainState
    <2>7. knownBlocks' \in [Blocks -> Heights \cup {-1}]
      <3>1. \A b \in new : heightIn(b) \in Heights
        BY <2>5
      <3>2. knownBlocks \in [Blocks -> Heights \cup {-1}]
        BY DEF WriterInv, TypeOK
      <3> HIDE DEF heightIn, new
      <3> QED
        BY <2>1, <3>1, <3>2
    <2>8. blockIndex' \subseteq Blocks /\ db' \in Database
      BY <2>1, <2>3 DEF WriterInv, TypeOK
    <2>9. pc[w] \in Writing
      BY <2>1 DEF Writing
    <2> QED
      BY <2>1, <2>6, <2>7, <2>8, <2>9, ReturnKeeps
  <1> QED
    BY <1>1, <1>2, <1>3

\* What GetBlockByHeight returns is a block or nothing.
LEMMA BlockAtHeightType ==
    ASSUME TypeOK, NEW h \in Heights
    PROVE  BlockAtHeight(h) \in Blocks \cup {NoBlock}
  <1>1. db.hashAt[h] \in Blocks \cup {NoBlock}
    BY DatabaseParts DEF TypeOK
  <1>2. batch # NoBatch => batch.hashAt[h] \in Blocks \cup {NoBlock}
    BY DatabaseParts DEF TypeOK
  <1> QED
    BY <1>1, <1>2 DEF BlockAtHeight

\* The unlocked reads of a rollback leave everything shared alone.
LEMMA RollbackStartKeeps ==
    ASSUME WriterInv, NEW w \in Workers, NEW target \in Targets, StartRollback(w, target)
    PROVE  WriterInv'
  <1> DEFINE j == [NoJob EXCEPT !.h = best.height, !.target = target,
                                !.hash = BlockAtHeight(target)]
  <1>1. /\ pc[w] = "idle" /\ target < best.height
        /\ pc' = [pc EXCEPT ![w] = "waiting"] /\ job' = [job EXCEPT ![w] = j]
        /\ UNCHANGED <<db, batch, best, blockIndex, knownBlocks, lock, rmLock, crashes, lost>>
    BY DEF StartRollback, mem
  <1>2. target \in Heights /\ best.height \in Heights /\ 0 \in Heights
    BY BoundAssumption DEF BoundAssumption, WriterInv, TypeOK, ChainState, Heights
  <1>3. BlockAtHeight(target) \in Blocks \cup {NoBlock}
    BY <1>2, BlockAtHeightType DEF WriterInv
  <1>4. j \in Job /\ j.h = best.height /\ j.target = target
    <2>1. NoJob = [blocks |-> <<>>, done |-> 0, h |-> 0, target |-> 0, hash |-> NoBlock]
      BY DEF NoJob
    <2>2. <<>> \in Seq(Blocks)
      OBVIOUS
    <2> QED
      BY <1>2, <1>3, <2>1, <2>2 DEF Job
  <1> HIDE DEF j
  <1>5. TypeOK'
    BY <1>1, <1>4 DEF WriterInv, TypeOK
  <1>6. \A v \in Workers : /\ pc'[v] = IF v = w THEN "waiting" ELSE pc[v]
                           /\ job'[v] = IF v = w THEN j ELSE job[v]
    BY <1>1 DEF WriterInv, TypeOK
  <1>7. SingleWriter'
    BY <1>1, <1>6 DEF WriterInv, SingleWriter
  <1>8. target <= best.height
    BY <1>1, <1>2 DEF Heights
  <1>9. \A v \in Workers : LocalsOK(v)'
    BY <1>4, <1>6, <1>8 DEF WriterInv, LocalsOK
  <1> QED
    BY <1>5, <1>7, <1>9 DEF WriterInv

\* A waiting rollback becomes a writer only when the lock is free.
LEMMA LockRollbackKeeps ==
    ASSUME WriterInv, NEW w \in Workers, LockRollback(w)
    PROVE  WriterInv'
  <1>1. /\ pc[w] = "waiting" /\ lock = NoWorker /\ lock' = w
        /\ pc' = [pc EXCEPT ![w] = "disconnect"]
        /\ UNCHANGED <<db, batch, best, blockIndex, knownBlocks, rmLock, job, crashes, lost>>
    BY DEF LockRollback, mem
  <1>2. TypeOK'
    BY <1>1 DEF WriterInv, TypeOK
  <1>3. \A v \in Workers : pc'[v] = IF v = w THEN "disconnect" ELSE pc[v]
    BY <1>1 DEF WriterInv, TypeOK
  <1>4. \A v \in Workers : pc[v] \notin Writing
    BY <1>1, LockMeansWriter
  <1>5. SingleWriter'
    BY <1>1, <1>3, <1>4 DEF WriterInv, SingleWriter, Writing
  <1>6. \A v \in Workers : LocalsOK(v)'
    BY <1>1, <1>3 DEF WriterInv, LocalsOK
  <1> QED
    BY <1>2, <1>5, <1>6 DEF WriterInv

\* A disconnecting goroutine that goes one height down keeps the invariant.
LEMMA NextHeightDownKeeps ==
    ASSUME WriterInv, NEW w \in Workers, pc[w] = "disconnect", job[w].h > job[w].target,
           job' = [job EXCEPT ![w].h = job[w].h - 1],
           db' \in Database, best' \in ChainState, blockIndex' \subseteq Blocks,
           knownBlocks' \in [Blocks -> Heights \cup {-1}],
           UNCHANGED <<batch, lock, rmLock, pc, crashes, lost>>
    PROVE  WriterInv'
  <1>1. job[w] \in Job /\ job[w].h \in Heights /\ job[w].target \in Heights
    BY DEF WriterInv, TypeOK, Job
  <1>2. job[w].h - 1 \in Heights /\ job[w].target <= job[w].h - 1
    BY <1>1, BoundAssumption DEF Heights, BoundAssumption
  <1> DEFINE j == [job[w] EXCEPT !.h = job[w].h - 1]
  <1>3. j \in Job /\ j.h = job[w].h - 1 /\ j.target = job[w].target
    BY <1>1, <1>2 DEF Job
  <1>4. \A v \in Workers : job'[v] = IF v = w THEN j ELSE job[v]
    BY DEF WriterInv, TypeOK
  <1>5. job' \in [Workers -> Job]
    BY <1>3 DEF WriterInv, TypeOK
  <1> HIDE DEF j
  <1>6. TypeOK'
    BY <1>5 DEF WriterInv, TypeOK
  <1>7. SingleWriter'
    BY DEF WriterInv, SingleWriter
  <1>8. \A v \in Workers : LocalsOK(v)'
    BY <1>2, <1>3, <1>4 DEF WriterInv, LocalsOK
  <1> QED
    BY <1>6, <1>7, <1>8 DEF WriterInv

\* Skipping, failing and disconnecting a height keep the invariant.
LEMMA DisconnectKeeps ==
    ASSUME WriterInv, NEW w \in Workers,
           SkipHeight(w) \/ DisconnectFails(w) \/ DisconnectNext(w)
    PROVE  WriterInv'
  <1> DEFINE b == db.hashAt[job[w].h]
  <1>0. /\ db \in Database /\ best \in ChainState /\ blockIndex \subseteq Blocks
        /\ knownBlocks \in [Blocks -> Heights \cup {-1}]
        /\ job[w].h \in Heights
        /\ b \in Blocks \cup {NoBlock}
    <2>1. db \in Database /\ job[w] \in Job
      BY DEF WriterInv, TypeOK
    <2>2. job[w].h \in Heights
      BY <2>1 DEF Job
    <2> QED
      BY <2>1, <2>2, DatabaseParts DEF WriterInv, TypeOK
  <1>1. CASE SkipHeight(w)
    <2>1. /\ pc[w] = "disconnect" /\ job[w].h > job[w].target
          /\ job' = [job EXCEPT ![w].h = job[w].h - 1]
          /\ UNCHANGED <<db, batch, best, blockIndex, knownBlocks, lock, rmLock, pc, crashes, lost>>
      BY <1>1 DEF SkipHeight, mem
    <2> QED
      BY <1>0, <2>1, NextHeightDownKeeps
  <1>2. CASE DisconnectFails(w)
    <2>1. /\ pc[w] = "disconnect" /\ Return(w)
          /\ UNCHANGED <<db, batch, best, blockIndex, knownBlocks, crashes, lost>>
      BY <1>2 DEF DisconnectFails, mem
    <2>2. batch' = NoBatch /\ pc[w] \in Writing
      BY <2>1, LockMeansWriter DEF Writing
    <2> QED
      BY <1>0, <2>1, <2>2, ReturnKeeps
  <1>3. CASE DisconnectNext(w)
    <2>1. /\ pc[w] = "disconnect" /\ job[w].h > job[w].target
          /\ b # NoBlock /\ db.heightOf[b] > 0 /\ \A t \in Inputs(b) : db.utxo[t] # NoUTXO
          /\ db' = Disconnected(b)
          /\ IF Readable(Parent[b])
             THEN /\ best' = [height |-> db.heightOf[b] - 1, hash |-> Parent[b]]
                  /\ Forget(b)
                  /\ job' = [job EXCEPT ![w].h = job[w].h - 1]
                  /\ UNCHANGED <<lock, rmLock, pc>>
             ELSE Return(w) /\ UNCHANGED <<best, blockIndex, knownBlocks>>
          /\ UNCHANGED <<batch, crashes, lost>>
      BY <1>3 DEF DisconnectNext, mem
    <2> HIDE DEF b
    <2>2. b \in Blocks
      BY <1>0, <2>1
    <2>3. db' \in Database
      BY <1>0, <2>1, <2>2, DisconnectedType
    <2>4. CASE Readable(Parent[b])
      <3>1. db.heightOf[b] - 1 \in Heights
        BY <1>0, <2>1, <2>2, DatabaseParts, HeightsBelow
      <3>2. best' \in ChainState
        BY <2>1, <2>2, <2>4, <3>1, BlockAssumption DEF ChainState, BlockAssumption
      <3>3. /\ blockIndex' \subseteq Blocks
            /\ knownBlocks' \in [Blocks -> Heights \cup {-1}]
        BY <1>0, <2>1, <2>2, <2>4 DEF Forget
      <3> QED
        BY <2>1, <2>3, <2>4, <3>2, <3>3, NextHeightDownKeeps
    <2>5. CASE ~Readable(Parent[b])
      <3>1. batch' = NoBatch /\ pc[w] \in Writing
        BY <2>1, LockMeansWriter DEF Writing
      <3> QED
        BY <1>0, <2>1, <2>3, <2>5, <3>1, ReturnKeeps
    <2> QED
      BY <2>4, <2>5
  <1> QED
    BY <1>1, <1>2, <1>3

\* Cleaning orphans and finishing a rollback keep the invariant.
LEMMA RollbackEndKeeps ==
    ASSUME WriterInv, NEW w \in Workers, CleanOrphan(w) \/ FinishRollback(w)
    PROVE  WriterInv'
  <1>0. /\ db \in Database /\ best \in ChainState /\ blockIndex \subseteq Blocks
        /\ knownBlocks \in [Blocks -> Heights \cup {-1}]
        /\ job[w].target \in Heights /\ job[w].hash \in Blocks \cup {NoBlock}
    BY DEF WriterInv, TypeOK, Job
  <1>1. CASE CleanOrphan(w)
    <2>1. PICK b \in Blocks : db.heightOf[b] > job[w].target /\ db' = OrphanDeleted(b)
      BY <1>1 DEF CleanOrphan
    <2>2. UNCHANGED <<batch, best, blockIndex, knownBlocks, lock, rmLock, pc, job, crashes, lost>>
      BY <1>1 DEF CleanOrphan, mem
    <2>3. db.heightOf[b] \in Heights \cup {-1}
      BY <1>0, DatabaseParts
    <2>4. db.heightOf[b] \in Heights
      BY <1>0, <2>1, <2>3 DEF Heights
    <2>5. db' \in Database
      BY <1>0, <2>1, <2>4, OrphanDeletedType
    <2>6. TypeOK' /\ SingleWriter'
      BY <2>2, <2>5 DEF WriterInv, TypeOK, SingleWriter
    <2>7. \A v \in Workers : LocalsOK(v)'
      BY <2>2 DEF WriterInv, LocalsOK
    <2> QED
      BY <2>6, <2>7 DEF WriterInv
  <1>2. CASE FinishRollback(w)
    <2> DEFINE tip == [height |-> job[w].target, hash |-> job[w].hash]
    <2>1. /\ pc[w] = "disconnect" /\ best' = tip /\ Return(w)
          /\ db' = [db EXCEPT !.tip = tip] \/ db' = db
          /\ knownBlocks' = KnownUpTo(job[w].target)
          /\ UNCHANGED <<batch, blockIndex, crashes, lost>>
      BY <1>2 DEF FinishRollback
    <2>2. db' \in Database
      BY <1>0, <2>1, SetTipType
    <2>3. best' \in ChainState
      BY <1>0, <2>1 DEF ChainState
    <2>4. knownBlocks' \in [Blocks -> Heights \cup {-1}]
      BY <1>0, <2>1 DEF KnownUpTo
    <2>5. batch' = NoBatch /\ pc[w] \in Writing
      BY <2>1, LockMeansWriter DEF Writing
    <2> QED
      BY <1>0, <2>1, <2>2, <2>3, <2>4, <2>5, ReturnKeeps
  <1> QED
    BY <1>1, <1>2

\* Every step of RecoverFromCorruptBlock keeps the invariant.
LEMMA RecoveryKeeps ==
    ASSUME WriterInv, NEW w \in Workers,
           \/ StartRecovery(w) \/ RecoverySetTip(w) \/ RecoveryDelete(w)
           \/ RecoveryFails(w) \/ RecoverySyncFails(w)
    PROVE  WriterInv'
  <1>0. /\ db \in Database /\ best \in ChainState /\ blockIndex \subseteq Blocks
        /\ knownBlocks \in [Blocks -> Heights \cup {-1}]
        /\ job[w] \in Job /\ job[w].h \in Heights /\ 0 \in Heights
    BY BoundAssumption DEF WriterInv, TypeOK, Job, Heights, BoundAssumption
  <1>1. CASE StartRecovery(w)
    <2> DEFINE b == db.hashAt[best.height]
               j == [NoJob EXCEPT !.h = best.height, !.hash = b]
    <2>1. /\ pc[w] = "idle" /\ best.height > 0 /\ b # NoBlock
          /\ rmLock' = w /\ pc' = [pc EXCEPT ![w] = "recover"]
          /\ job' = [job EXCEPT ![w] = j]
          /\ UNCHANGED <<db, batch, best, blockIndex, knownBlocks, lock, crashes, lost>>
      BY <1>1 DEF StartRecovery, mem
    <2>2. best.height \in Heights
      BY <1>0 DEF ChainState
    <2>3. b \in Blocks
      BY <1>0, <2>1, <2>2, DatabaseParts
    <2> HIDE DEF b
    <2>4. j \in Job /\ j.h = best.height /\ j.hash = b
      <3>1. NoJob = [blocks |-> <<>>, done |-> 0, h |-> 0, target |-> 0, hash |-> NoBlock]
        BY DEF NoJob
      <3>2. <<>> \in Seq(Blocks)
        OBVIOUS
      <3> QED
        BY <1>0, <2>2, <2>3, <3>1, <3>2 DEF Job
    <2> HIDE DEF j
    <2>5. TypeOK'
      BY <2>1, <2>4 DEF WriterInv, TypeOK
    <2>6. \A v \in Workers : /\ pc'[v] = IF v = w THEN "recover" ELSE pc[v]
                             /\ job'[v] = IF v = w THEN j ELSE job[v]
      BY <2>1 DEF WriterInv, TypeOK
    <2>7. SingleWriter'
      BY <2>1, <2>6 DEF WriterInv, SingleWriter
    <2>8. best.height >= 1
      BY <2>1, <2>2 DEF Heights
    <2>9. \A v \in Workers : LocalsOK(v)'
      BY <2>3, <2>4, <2>6, <2>8 DEF WriterInv, LocalsOK
    <2> QED
      BY <2>5, <2>7, <2>9 DEF WriterInv
  <1>2. CASE RecoverySetTip(w)
    <2> DEFINE tip == [height |-> job[w].h - 1, hash |-> Parent[job[w].hash]]
    <2>1. /\ pc[w] = "recover" /\ lock = NoWorker /\ lock' = w
          /\ db' = [db EXCEPT !.tip = tip] /\ pc' = [pc EXCEPT ![w] = "delete"]
          /\ UNCHANGED <<batch, best, blockIndex, knownBlocks, rmLock, job, crashes, lost>>
      BY <1>2 DEF RecoverySetTip, mem
    <2>2. job[w].h >= 1 /\ job[w].hash \in Blocks
      BY <2>1 DEF WriterInv, LocalsOK
    <2>3. job[w].h - 1 \in Heights
      BY <1>0, <2>2, HeightsBelow DEF Heights
    <2>4. Parent[job[w].hash] \in Blocks \cup {NoBlock}
      BY <2>2, BlockAssumption DEF BlockAssumption
    <2>5. db' \in Database
      BY <1>0, <2>1, <2>3, <2>4, SetTipType
    <2>6. TypeOK'
      BY <2>1, <2>5 DEF WriterInv, TypeOK
    <2>7. \A v \in Workers : pc'[v] = IF v = w THEN "delete" ELSE pc[v]
      BY <2>1 DEF WriterInv, TypeOK
    <2>8. \A v \in Workers : pc[v] \notin Writing
      BY <2>1, LockMeansWriter
    <2>9. SingleWriter'
      BY <2>1, <2>7, <2>8 DEF WriterInv, SingleWriter, Writing
    <2>10. \A v \in Workers : LocalsOK(v)'
      BY <2>1, <2>7 DEF WriterInv, LocalsOK
    <2> QED
      BY <2>6, <2>9, <2>10 DEF WriterInv
  <1>3. CASE RecoveryDelete(w)
    <2> DEFINE b == job[w].hash
    <2>1. /\ pc[w] = "delete" /\ db' = CorruptDeleted(b, job[w].h) /\ Return(w)
          /\ best' = [height |-> job[w].h - 1, hash |-> Parent[b]]
          /\ blockIndex' = blockIndex \ {b}
          /\ UNCHANGED <<batch, knownBlocks, crashes, lost>>
      BY <1>3 DEF RecoveryDelete
    <2>2. job[w].h >= 1 /\ b \in Blocks
      BY <2>1 DEF WriterInv, LocalsOK
    <2>3. db' \in Database
      BY <1>0, <2>1, <2>2, CorruptDeletedType
    <2>4. job[w].h - 1 \in Heights
      BY <1>0, <2>2, HeightsBelow DEF Heights
    <2>5. best' \in ChainState
      BY <2>1, <2>2, <2>4, BlockAssumption DEF ChainState, BlockAssumption
    <2>6. batch' = NoBatch /\ pc[w] \in Writing
      BY <2>1, LockMeansWriter DEF Writing
    <2>7. blockIndex' \subseteq Blocks
      BY <1>0, <2>1
    <2> QED
      BY <1>0, <2>1, <2>3, <2>5, <2>6, <2>7, ReturnKeeps
  <1>4. CASE RecoveryFails(w)
    <2>1. /\ (pc[w] = "recover" /\ lock = NoWorker) \/ pc[w] = "delete"
          /\ Return(w)
          /\ UNCHANGED <<db, batch, best, blockIndex, knownBlocks, crashes, lost>>
      BY <1>4 DEF RecoveryFails, mem
    <2>2. pc[w] \in Writing \/ lock = NoWorker
      BY <2>1 DEF Writing
    <2>3. batch' = NoBatch
      BY <2>1, LockMeansWriter
    <2> QED
      BY <1>0, <2>1, <2>2, <2>3, ReturnKeeps
  <1>5. CASE RecoverySyncFails(w)
    <2>1. /\ pc[w] = "delete" /\ db' = CorruptDeleted(job[w].hash, job[w].h) /\ Return(w)
          /\ UNCHANGED <<batch, best, blockIndex, knownBlocks, crashes, lost>>
      BY <1>5 DEF RecoverySyncFails, mem
    <2>2. job[w].h >= 1 /\ job[w].hash \in Blocks
      BY <2>1 DEF WriterInv, LocalsOK
    <2>3. db' \in Database
      BY <1>0, <2>1, <2>2, CorruptDeletedType
    <2>4. batch' = NoBatch /\ pc[w] \in Writing
      BY <2>1, LockMeansWriter DEF Writing
    <2> QED
      BY <1>0, <2>1, <2>3, <2>4, ReturnKeeps
  <1> QED
    BY <1>1, <1>2, <1>3, <1>4, <1>5

\* A crash and a lost record keep the invariant.
LEMMA EnvironmentKeeps ==
    ASSUME WriterInv, CrashRestart \/ \E t \in Txs : LoseTx(t)
    PROVE  WriterInv'
  <1>0. db \in Database /\ 0 \in Heights
    BY BoundAssumption DEF WriterInv, TypeOK, Heights, BoundAssumption
  <1>1. CASE CrashRestart
    <2>1. best' \in ChainState
      BY <1>0, <1>1, DatabaseParts, BlockAssumption
      DEF CrashRestart, TipOf, ChainState, BlockAssumption
    <2>2. blockIndex' \subseteq Blocks
      BY <1>0, <1>1, DatabaseParts DEF CrashRestart, TipLoaded, Readable
    <2>3. knownBlocks' \in [Blocks -> Heights \cup {-1}]
      BY <1>0, <1>1, DatabaseParts DEF CrashRestart, BuildKnownBlocks
    <2>4. NoJob \in Job
      BY <1>0 DEF NoJob, Job
    <2>5. /\ lost' = lost /\ batch' = NoBatch /\ lock' = NoWorker /\ rmLock' = NoWorker
          /\ pc' = [w \in Workers |-> "idle"] /\ job' = [w \in Workers |-> NoJob]
          /\ crashes < MaxCrashes /\ crashes' = crashes + 1
      BY <1>1 DEF CrashRestart
    <2>9. db' \in Database
      <3>1. TipOf(db) \in ChainState
        BY <1>1, <2>1 DEF CrashRestart
      <3>2. [db EXCEPT !.tip = TipOf(db)] \in Database
        BY <1>0, <3>1 DEF Database
      <3> QED
        BY <1>0, <1>1, <3>2 DEF CrashRestart
    <2>6. crashes' \in 0 .. MaxCrashes
      BY <2>5, BoundAssumption DEF WriterInv, TypeOK, BoundAssumption
    <2>7. TypeOK'
      BY <2>1, <2>2, <2>3, <2>4, <2>5, <2>6, <2>9 DEF WriterInv, TypeOK
    <2>8. SingleWriter' /\ \A w \in Workers : LocalsOK(w)'
      BY <2>5 DEF SingleWriter, LocalsOK
    <2> QED
      BY <2>7, <2>8 DEF WriterInv
  <1>2. ASSUME NEW t \in Txs, LoseTx(t)
        PROVE  WriterInv'
    <2> DEFINE x == [db.txIn EXCEPT ![t] = NoBlock]
    <2>1. /\ db' = [db EXCEPT !.txIn = x] /\ lost < MaxLost /\ lost' = lost + 1
          /\ UNCHANGED <<batch, best, blockIndex, knownBlocks, lock, rmLock, pc, job, crashes>>
      BY <1>2 DEF LoseTx, mem
    <2>2. x \in [Txs -> Blocks \cup {NoBlock}]
      BY <1>0, DatabaseParts
    <2> HIDE DEF x
    <2>3. db' \in Database
      BY <1>0, <2>1, <2>2 DEF Database
    <2>4. lost' \in 0 .. MaxLost
      BY <2>1, BoundAssumption DEF WriterInv, TypeOK, BoundAssumption
    <2>5. TypeOK' /\ SingleWriter'
      BY <2>1, <2>3, <2>4 DEF WriterInv, TypeOK, SingleWriter
    <2>6. \A w \in Workers : LocalsOK(w)'
      BY <2>1 DEF WriterInv, LocalsOK
    <2> QED
      BY <2>5, <2>6 DEF WriterInv
  <1> QED
    BY <1>1, <1>2

\* Every step keeps the inductive invariant.
LEMMA StepWriter == WriterInv /\ [Next]_vars => WriterInv'
  <1> SUFFICES ASSUME WriterInv, [Next]_vars PROVE WriterInv'
    OBVIOUS
  <1>1. ASSUME NEW w \in Workers, NEW s \in Offers, StartBatch(w, s) PROVE WriterInv'
    BY <1>1, StartBatchKeeps
  <1>2. ASSUME NEW w \in Workers, NEW h \in Targets, StartRollback(w, h) PROVE WriterInv'
    BY <1>2, RollbackStartKeeps
  <1>3. ASSUME NEW w \in Workers, StartRecovery(w) PROVE WriterInv'
    BY <1>3, RecoveryKeeps
  <1>4. ASSUME NEW w \in Workers, Step(w) PROVE WriterInv'
    <2>1. CASE ApplyNext(w)
      BY <2>1, ApplyNextKeeps
    <2>2. CASE AbortBatch(w) \/ SyncFails(w) \/ CommitBatch(w) \/ PublishBatch(w)
      BY <2>2, BatchEndKeeps
    <2>3. CASE LockRollback(w)
      BY <2>3, LockRollbackKeeps
    <2>4. CASE SkipHeight(w) \/ DisconnectFails(w) \/ DisconnectNext(w)
      BY <2>4, DisconnectKeeps
    <2>5. CASE CleanOrphan(w) \/ FinishRollback(w)
      BY <2>5, RollbackEndKeeps
    <2>6. CASE \/ RecoverySetTip(w) \/ RecoveryDelete(w)
               \/ RecoveryFails(w) \/ RecoverySyncFails(w)
      BY <2>6, RecoveryKeeps
    <2> QED
      BY <1>4, <2>1, <2>2, <2>3, <2>4, <2>5, <2>6 DEF Step
  <1>5. CASE CrashRestart \/ \E t \in Txs : LoseTx(t)
    BY <1>5, EnvironmentKeeps
  <1>6. CASE UNCHANGED vars
    BY <1>6 DEF vars, WriterInv, TypeOK, SingleWriter, LocalsOK
  <1> QED
    BY <1>1, <1>2, <1>3, <1>4, <1>5, <1>6 DEF Next

\* The database, the open batch, the memory and every goroutine's locals keep
\* their types in every behaviour: no height leaves the index, no missing output
\* is updated, no disconnect goes below genesis.
THEOREM BlockChainTypeCorrect == Spec => []TypeOK
  <1>1. WriterInv => TypeOK
    BY DEF WriterInv
  <1> QED
    BY InitWriter, StepWriter, <1>1, PTL DEF Spec

\* processingMu serializes the writers for any number of goroutines, rollbacks
\* that read before they lock, recoveries, crashes and lost records.
THEOREM WritersExclude == Spec => []SingleWriter
  <1>1. WriterInv => SingleWriter
    BY DEF WriterInv
  <1> QED
    BY InitWriter, StepWriter, <1>1, PTL DEF Spec

-----------------------------------------------------------------------------
(* One chain in the store, in orderly operation.                           *)

\* On a chain of blocks from genesis no transaction occurs twice: a transaction
\* hash covers the outputs the transaction spends, and those can be spent once.
NoRepeats ==
    \A n \in Heights : \A c \in [0 .. n -> Blocks] :
        (c[0] = Genesis /\ \A i \in 1 .. n : Parent[c[i]] = c[i - 1])
            => \A i, j \in 0 .. n : i # j => TxsOf[c[i]] \cap TxsOf[c[j]] = {}

\* No chain of blocks that ends an offered batch spends an output in two blocks.
NoDoubleOffers ==
    \A o \in Offers : \A k \in 1 .. Len(o) :
        (\A i \in k + 1 .. Len(o) : Parent[o[i]] = o[i - 1])
            => \A i, j \in k .. Len(o) : i # j => Inputs(o[i]) \cap Inputs(o[j]) = {}

\* What the chain's consistency rests on: batches attach at the tip, nobody rolls
\* back while another goroutine writes, no call fails after its commit, and the
\* disk keeps its records.
Orderly ==
    /\ ~ForkBatches /\ ~Recoveries /\ MaxLost = 0 /\ "Sync" \notin Failures
    /\ Targets = {} \/ \A v, w \in Workers : v = w
    /\ NoRepeats /\ NoDoubleOffers

\* The height of a database's chain.
Top(d) == TipOf(d).height

\* The height index is one chain from genesis to the tip, and the other indexes
\* hold its blocks and no others.
Indexed(d) ==
    /\ d.hashAt[0] = Genesis /\ d.hashAt[Top(d)] = TipOf(d).hash
    /\ \A h \in 0 .. Top(d) : d.hashAt[h] \in Blocks /\ d.heightOf[d.hashAt[h]] = h
    /\ \A h \in 1 .. Top(d) : Parent[d.hashAt[h]] = d.hashAt[h - 1]
    /\ \A b \in Blocks : d.heightOf[b] # -1
            => d.heightOf[b] \in 0 .. Top(d) /\ d.hashAt[d.heightOf[b]] = b
    /\ d.blocks = {b \in Blocks : d.heightOf[b] # -1}

\* The transactions of the chain have their records.
Recorded(d) == \A h \in 0 .. Top(d) : \A t \in TxsOf[d.hashAt[h]] : d.txIn[t] = d.hashAt[h]

\* Output t does not occur on the chain, ...
Absent(d, t) ==
    /\ d.utxo[t] = NoUTXO
    /\ \A h \in 0 .. Top(d) : t \notin TxsOf[d.hashAt[h]] /\ t \notin Inputs(d.hashAt[h])

\* ... is created at height c and not spent, ...
Unspent0(d, t) ==
    /\ d.utxo[t].spentAt = 0
    /\ \A h \in 0 .. Top(d) : t \notin Inputs(d.hashAt[h])

\* ... or is spent by the block at height k and no other.
SpentOnce(d, t) ==
    LET k == d.utxo[t].spentAt
    IN  /\ k \in 1 .. Top(d) /\ d.utxo[t].height <= k
        /\ t \in Inputs(d.hashAt[k])
        /\ d.utxo[t].spentBy = SpenderIn(d.hashAt[k], t)
        /\ \A h \in 0 .. Top(d) : t \in Inputs(d.hashAt[h]) => h = k

CreatedOnce(d, t) ==
    /\ d.utxo[t] # NoUTXO
    /\ d.utxo[t].height \in 0 .. Top(d)
    /\ t \in TxsOf[d.hashAt[d.utxo[t].height]]

Accounted(d) ==
    \A t \in Txs : Absent(d, t) \/ (CreatedOnce(d, t) /\ (Unspent0(d, t) \/ SpentOnce(d, t)))

\* The supply records follow the chain.
Supplied(d) == \A h \in 1 .. Top(d) : d.supply[h] = d.supply[h - 1] + Minted[d.hashAt[h]]

Sound(d) == Indexed(d) /\ Recorded(d) /\ Accounted(d) /\ Supplied(d)

\* The batch of goroutine w: the chain of the store, and on it the blocks applied so
\* far; the others follow.
BatchOK(w) ==
    LET blocks == job[w].blocks
        h == job[w].h
    IN  /\ Top(batch) = h + job[w].done - 1
        /\ best.height = h - 1
        /\ \A k \in 0 .. h - 1 : batch.hashAt[k] = db.hashAt[k]
        /\ \A i \in 1 .. job[w].done : batch.hashAt[h + i - 1] = blocks[i]
        /\ Parent[blocks[1]] = batch.hashAt[h - 1]
        /\ \A i \in 2 .. Len(blocks) : Parent[blocks[i]] = blocks[i - 1]
        /\ \A i, j \in 1 .. Len(blocks) : i # j => Inputs(blocks[i]) \cap Inputs(blocks[j]) = {}

\* What a goroutine in the middle of a call knows: a batch is over the committed
\* chain until it is that chain, and a rollback's unlocked reads are still true.
LocalSound(w) ==
    /\ pc[w] \in {"apply", "publish"} => Sound(batch) /\ BatchOK(w)
    /\ pc[w] = "apply" => Top(db) = job[w].h - 1
    /\ pc[w] = "publish" => batch = db /\ AllApplied(w)
    /\ pc[w] \in {"waiting", "disconnect"} =>
          /\ Targets # {}
          /\ job[w].h = Top(db) /\ job[w].target \in 0 .. Top(db)
          /\ job[w].hash = db.hashAt[job[w].target]
    /\ pc[w] \notin {"recover", "delete"}

\* Memory names the tip of the store, but for a batch that is committed and not
\* yet published, and no block the store lacks.
MemorySound ==
    /\ (\A w \in Workers : pc[w] # "publish") =>
          /\ best.height = Top(db) /\ best.hash \in {TipOf(db).hash, db.tip.hash}
    /\ blockIndex \subseteq db.blocks
    /\ \A b \in Blocks : knownBlocks[b] # -1 => b \in db.blocks

\* The inductive invariant behind the properties of the chain.
OrderInv ==
    /\ WriterInv
    /\ Sound(db)
    /\ \A w \in Workers : LocalSound(w)
    /\ MemorySound

-----------------------------------------------------------------------------
(* What one block does to a sound database.                                *)

\* The top of a database is a height.
LEMMA TopType ==
    ASSUME NEW d \in Database
    PROVE  Top(d) \in Heights /\ Top(d) \in Nat /\ MaxHeight \in Nat /\ Top(d) <= MaxHeight
  <1>1. d.tip \in ChainState /\ 0 \in Heights /\ MaxHeight \in Nat
    BY DatabaseParts, BoundAssumption DEF Heights, BoundAssumption
  <1>2. Top(d) \in Heights
    BY <1>1 DEF Top, TipOf, ChainState
  <1> QED
    BY <1>1, <1>2 DEF Heights

\* The spender in a block is one of its transactions.
LEMMA SpenderMember ==
    ASSUME NEW b, NEW t \in Inputs(b)
    PROVE  SpenderIn(b, t) \in TxsOf[b]
  <1>1. \E s \in TxsOf[b] : t \in Spends[s]
    BY DEF Inputs
  <1> QED
    BY <1>1 DEF SpenderIn

\* The chain of a sound database, as a function.
LEMMA ChainFacts ==
    ASSUME NEW d \in Database, Sound(d)
    PROVE  /\ \A h \in 0 .. Top(d) : h \in Heights /\ d.hashAt[h] \in Blocks
                                    /\ d.heightOf[d.hashAt[h]] = h
                                    /\ d.hashAt[h] \in d.blocks
           /\ \A h \in 1 .. Top(d) : Parent[d.hashAt[h]] = d.hashAt[h - 1]
           /\ d.hashAt[0] = Genesis /\ d.hashAt[Top(d)] = TipOf(d).hash
           /\ \A b \in Blocks : b \in d.blocks <=> d.heightOf[b] # -1
           /\ \A b \in d.blocks : d.heightOf[b] \in 0 .. Top(d) /\ d.hashAt[d.heightOf[b]] = b
           /\ d.blocks \subseteq Blocks
  <1>1. Top(d) \in Nat /\ Top(d) <= MaxHeight /\ MaxHeight \in Nat
    BY TopType
  <1>2. \A h \in 0 .. Top(d) : h \in Heights /\ h # -1
    BY <1>1 DEF Heights
  <1>3. Indexed(d)
    BY DEF Sound
  <1> QED
    BY <1>2, <1>3 DEF Indexed

\* Two blocks of a sound database share no transaction.
LEMMA ChainDisjoint ==
    ASSUME NEW d \in Database, Sound(d), NEW h \in 0 .. Top(d), NEW k \in 0 .. Top(d), h # k
    PROVE  TxsOf[d.hashAt[h]] \cap TxsOf[d.hashAt[k]] = {}
  <1>1. d.hashAt[h] # d.hashAt[k]
    BY ChainFacts
  <1>2. \A t \in TxsOf[d.hashAt[h]] : d.txIn[t] = d.hashAt[h]
    BY DEF Sound, Recorded
  <1>3. \A t \in TxsOf[d.hashAt[k]] : d.txIn[t] = d.hashAt[k]
    BY DEF Sound, Recorded
  <1> QED
    BY <1>1, <1>2, <1>3

\* The block that extends the chain is not on it, ...
LEMMA FreshBlock ==
    ASSUME NEW d \in Database, Sound(d), NEW b \in Blocks, Parent[b] = d.hashAt[Top(d)]
    PROVE  b \notin d.blocks /\ \A k \in 0 .. Top(d) : d.hashAt[k] # b
  <1>1. SUFFICES ASSUME b \in d.blocks PROVE FALSE
    BY ChainFacts
  <1>2. PICK k \in 0 .. Top(d) : d.hashAt[k] = b
    BY <1>1, ChainFacts
  <1>3. Top(d) \in Nat /\ Top(d) \in 0 .. Top(d)
    BY TopType
  <1>4. k # 0
    BY <1>2, <1>3, ChainFacts, BlockAssumption DEF BlockAssumption
  <1>5. k \in 1 .. Top(d) /\ k - 1 \in 0 .. Top(d) /\ k - 1 # Top(d)
    BY <1>3, <1>4
  <1>6. d.hashAt[k - 1] = d.hashAt[Top(d)]
    BY <1>2, <1>5, ChainFacts
  <1> QED
    BY <1>3, <1>5, <1>6, ChainFacts

\* ... and none of its transactions is.
LEMMA FreshTxs ==
    ASSUME NoRepeats, NEW d \in Database, Sound(d), NEW b \in Blocks,
           Parent[b] = d.hashAt[Top(d)], Top(d) + 1 \in Heights, NEW k \in 0 .. Top(d)
    PROVE  TxsOf[d.hashAt[k]] \cap TxsOf[b] = {}
  <1> DEFINE n == Top(d) + 1
             c == [i \in 0 .. n |-> IF i = n THEN b ELSE d.hashAt[i]]
  <1>1. Top(d) \in Nat
    BY TopType
  <1>2. \A i \in 0 .. n : i # n => i \in 0 .. Top(d)
    BY <1>1
  <1>3. c \in [0 .. n -> Blocks]
    BY <1>2, ChainFacts
  <1>4. c[0] = Genesis
    BY <1>1, ChainFacts
  <1>5. \A i \in 1 .. n : Parent[c[i]] = c[i - 1]
    <2>1. ASSUME NEW i \in 1 .. n PROVE Parent[c[i]] = c[i - 1]
      <3>1. CASE i = n
        <4>1. c[i] = b /\ c[i - 1] = d.hashAt[Top(d)]
          BY <1>1, <3>1
        <4> QED
          BY <4>1
      <3>2. CASE i # n
        <4>1. i \in 1 .. Top(d) /\ c[i] = d.hashAt[i] /\ c[i - 1] = d.hashAt[i - 1]
          BY <1>1, <3>2
        <4> QED
          BY <4>1, ChainFacts
      <3> QED
        BY <3>1, <3>2
    <2> QED
      BY <2>1
  <1>6. k \in 0 .. n /\ n \in 0 .. n /\ k # n /\ c[k] = d.hashAt[k] /\ c[n] = b
    BY <1>1
  <1> HIDE DEF c
  <1>7. \A i, j \in 0 .. n : i # j => TxsOf[c[i]] \cap TxsOf[c[j]] = {}
    <2>1. n \in Heights
      OBVIOUS
    <2> HIDE DEF n
    <2> QED
      BY <1>3, <1>4, <1>5, <2>1 DEF NoRepeats
  <1> QED
    BY <1>6, <1>7

\* What applyBlockToBatch writes, entry by entry.
LEMMA ApplyFacts ==
    ASSUME NEW d \in Database, NEW b \in Blocks, NEW h \in Heights, h > best.height,
           NEW e, e = ApplyBlock(d, b, h)
    PROVE  /\ e.blocks = d.blocks \cup {b}
           /\ \A k \in Heights : e.hashAt[k] = IF k = h THEN b ELSE d.hashAt[k]
           /\ \A c \in Blocks : e.heightOf[c] = IF c = b THEN h ELSE d.heightOf[c]
           /\ \A t \in Txs : e.txIn[t] = IF t \in TxsOf[b] THEN b ELSE d.txIn[t]
           /\ e.utxo = AppliedUTXOs(d, b, h)
           /\ \A k \in Heights : e.supply[k] = IF k = h THEN d.supply[h - 1] + Minted[b]
                                               ELSE d.supply[k]
           /\ TipOf(e) = [height |-> h, hash |-> b] /\ Top(e) = h
  <1>1. b # NoBlock
    BY BlockAssumption DEF BlockAssumption
  <1>2. /\ d.hashAt \in [Heights -> Blocks \cup {NoBlock}]
        /\ d.heightOf \in [Blocks -> Heights \cup {-1}]
        /\ d.supply \in [Heights -> Int]
    BY DatabaseParts
  <1>3. e.tip = [height |-> h, hash |-> b]
    BY DEF ApplyBlock
  <1>4. TipOf(e) = [height |-> h, hash |-> b]
    BY <1>1, <1>3 DEF TipOf
  <1> QED
    BY <1>2, <1>4 DEF ApplyBlock, StoredTxs, MoneySupply, Top

\* The indexes of a database and one more block.
LEMMA ApplyIndexed ==
    ASSUME NEW d \in Database, Sound(d), NEW b \in Blocks, NEW h \in Heights, h > best.height,
           h = Top(d) + 1, Parent[b] = d.hashAt[Top(d)], NEW e, e = ApplyBlock(d, b, h)
    PROVE  Indexed(e)
  <1>1. /\ Top(d) \in Nat /\ Top(e) = h /\ TipOf(e).hash = b
    BY TopType, ApplyFacts
  <1>2. \A k \in 0 .. Top(d) : k \in Heights /\ k # h /\ e.hashAt[k] = d.hashAt[k]
    BY <1>1, ChainFacts, ApplyFacts
  <1>3. e.hashAt[h] = b /\ e.heightOf[b] = h /\ b \notin d.blocks
    BY ApplyFacts, FreshBlock
  <1>4. \A c \in Blocks : c # b => e.heightOf[c] = d.heightOf[c]
    BY ApplyFacts
  <1>5. e.hashAt[0] = Genesis /\ e.hashAt[Top(e)] = TipOf(e).hash
    BY <1>1, <1>2, <1>3, ChainFacts
  <1>6. ASSUME NEW k \in 0 .. Top(e)
        PROVE  e.hashAt[k] \in Blocks /\ e.heightOf[e.hashAt[k]] = k
    <2>1. CASE k = h
      BY <1>3, <2>1
    <2>2. CASE k \in 0 .. Top(d)
      <3>1. d.hashAt[k] \in Blocks /\ d.heightOf[d.hashAt[k]] = k /\ d.hashAt[k] # b
        BY <1>3, <2>2, ChainFacts, FreshBlock
      <3> QED
        BY <1>2, <1>4, <2>2, <3>1
    <2> QED
      BY <1>1, <2>1, <2>2
  <1>7. ASSUME NEW k \in 1 .. Top(e) PROVE Parent[e.hashAt[k]] = e.hashAt[k - 1]
    <2>1. CASE k = h
      <3>1. k - 1 = Top(d) /\ k - 1 \in 0 .. Top(d)
        BY <1>1, <2>1
      <3> QED
        BY <1>2, <1>3, <2>1, <3>1
    <2>2. CASE k \in 1 .. Top(d)
      <3>1. k \in 0 .. Top(d) /\ k - 1 \in 0 .. Top(d)
        BY <1>1, <2>2
      <3> QED
        BY <1>2, <2>2, <3>1, ChainFacts
    <2> QED
      BY <1>1, <2>1, <2>2
  <1>8. ASSUME NEW c \in Blocks, e.heightOf[c] # -1
        PROVE  e.heightOf[c] \in 0 .. Top(e) /\ e.hashAt[e.heightOf[c]] = c
    <2>1. CASE c = b
      BY <1>1, <1>3, <2>1
    <2>2. CASE c # b
      <3>1. c \in d.blocks /\ e.heightOf[c] = d.heightOf[c]
        BY <1>4, <1>8, <2>2, ChainFacts
      <3>2. d.heightOf[c] \in 0 .. Top(d) /\ d.hashAt[d.heightOf[c]] = c
        BY <3>1, ChainFacts
      <3> QED
        BY <1>1, <1>2, <3>1, <3>2
    <2> QED
      BY <2>1, <2>2
  <1>9. e.blocks = {c \in Blocks : e.heightOf[c] # -1}
    <2>1. \A c \in Blocks : c \in d.blocks <=> d.heightOf[c] # -1
      BY ChainFacts
    <2>2. e.blocks = d.blocks \cup {b} /\ d.blocks \subseteq Blocks /\ h # -1
      BY <1>1, ApplyFacts, ChainFacts
    <2> QED
      BY <1>3, <1>4, <2>1, <2>2
  <1> QED
    BY <1>5, <1>6, <1>7, <1>8, <1>9 DEF Indexed

\* The transaction and supply records of a database and one more block.
LEMMA ApplyRecords ==
    ASSUME NoRepeats, NEW d \in Database, Sound(d), NEW b \in Blocks, NEW h \in Heights,
           h > best.height, h = Top(d) + 1, Parent[b] = d.hashAt[Top(d)],
           NEW e, e = ApplyBlock(d, b, h)
    PROVE  Recorded(e) /\ Supplied(e)
  <1>1. /\ Top(d) \in Nat /\ Top(e) = h /\ TxsOf[b] \subseteq Txs
    BY TopType, ApplyFacts, TxAssumption DEF TxAssumption
  <1>2. \A k \in 0 .. Top(d) : k \in Heights /\ k # h /\ e.hashAt[k] = d.hashAt[k]
    BY <1>1, ChainFacts, ApplyFacts
  <1>3. e.hashAt[h] = b
    BY ApplyFacts
  <1>4. ASSUME NEW k \in 0 .. Top(e), NEW t \in TxsOf[e.hashAt[k]]
        PROVE  e.txIn[t] = e.hashAt[k]
    <2>1. CASE k = h
      BY <1>1, <1>3, <2>1, ApplyFacts
    <2>2. CASE k \in 0 .. Top(d)
      <3>1. t \in TxsOf[d.hashAt[k]] /\ t \notin TxsOf[b]
        BY <1>2, <2>2, FreshTxs
      <3>2. t \in Txs
        BY <2>2, <3>1, ChainFacts, TxAssumption DEF TxAssumption
      <3>3. d.txIn[t] = d.hashAt[k]
        BY <2>2, <3>1 DEF Sound, Recorded
      <3> QED
        BY <1>2, <2>2, <3>1, <3>2, <3>3, ApplyFacts
    <2> QED
      BY <1>1, <2>1, <2>2
  <1>5. ASSUME NEW k \in 1 .. Top(e)
        PROVE  e.supply[k] = e.supply[k - 1] + Minted[e.hashAt[k]]
    <2>1. CASE k = h
      <3>1. k - 1 \in 0 .. Top(d)
        BY <1>1, <2>1
      <3>2. e.supply[k] = d.supply[k - 1] + Minted[b] /\ e.supply[k - 1] = d.supply[k - 1]
        BY <1>2, <2>1, <3>1, ApplyFacts
      <3> QED
        BY <1>3, <2>1, <3>2
    <2>2. CASE k \in 1 .. Top(d)
      <3>1. k \in 0 .. Top(d) /\ k - 1 \in 0 .. Top(d)
        BY <1>1, <2>2
      <3>2. e.supply[k] = d.supply[k] /\ e.supply[k - 1] = d.supply[k - 1]
        BY <1>2, <3>1, ApplyFacts
      <3>3. d.supply[k] = d.supply[k - 1] + Minted[d.hashAt[k]]
        BY <2>2 DEF Sound, Supplied
      <3> QED
        BY <1>2, <3>1, <3>2, <3>3
    <2> QED
      BY <1>1, <2>1, <2>2
  <1> QED
    BY <1>4, <1>5 DEF Recorded, Supplied

\* The outputs of a database and one more block, whose inputs are there, unspent.
LEMMA ApplyAccounted ==
    ASSUME NoRepeats, NEW d \in Database, Sound(d), NEW b \in Blocks, NEW h \in Heights,
           h > best.height, h = Top(d) + 1, Parent[b] = d.hashAt[Top(d)],
           \A t \in Inputs(b) \ TxsOf[b] : d.utxo[t] # NoUTXO /\ d.utxo[t].spentAt = 0,
           NEW e, e = ApplyBlock(d, b, h)
    PROVE  Accounted(e)
  <1>1. /\ Top(d) \in Nat /\ Top(e) = h /\ 0 .. Top(e) = 0 .. Top(d) \cup {h}
    BY TopType, ApplyFacts
  <1>2. \A k \in 0 .. Top(d) : k \in Heights /\ k # h /\ e.hashAt[k] = d.hashAt[k]
    BY <1>1, ChainFacts, ApplyFacts
  <1>3. e.hashAt[h] = b /\ e.utxo = AppliedUTXOs(d, b, h)
    BY ApplyFacts
  <1>4. SUFFICES ASSUME NEW t \in Txs
                 PROVE  Absent(e, t) \/ (CreatedOnce(e, t) /\ (Unspent0(e, t) \/ SpentOnce(e, t)))
    BY DEF Accounted
  <1>5. Absent(d, t) \/ (CreatedOnce(d, t) /\ (Unspent0(d, t) \/ SpentOnce(d, t)))
    BY DEF Sound, Accounted
  <1>6. CASE t \in TxsOf[b]
    <2>1. Absent(d, t)
      BY <1>5, <1>6, FreshTxs DEF CreatedOnce
    <2>2. e.utxo[t] = [height |-> h, spentAt |-> IF t \in Inputs(b) THEN h ELSE 0,
                       spentBy |-> SpenderIn(b, t)]
      BY <1>3, <1>6 DEF AppliedUTXOs
    <2>3. e.utxo[t] # NoUTXO
      <3>1. h \in Heights /\ 0 \in Heights /\ SpenderIn(b, t) \in Txs \cup {NoTx}
        BY <1>1, SpenderInType, BoundAssumption DEF BoundAssumption, Heights
      <3>2. e.utxo[t] \in UTXOData
        BY <2>2, <3>1 DEF UTXOData
      <3> QED
        BY <3>2, SentinelAssumption DEF SentinelAssumption
    <2>4. CreatedOnce(e, t)
      BY <1>1, <1>3, <1>6, <2>2, <2>3 DEF CreatedOnce
    <2>5. \A k \in 0 .. Top(d) : t \notin Inputs(e.hashAt[k])
      BY <1>2, <2>1 DEF Absent
    <2>6. CASE t \in Inputs(b)
      BY <1>1, <1>3, <2>2, <2>4, <2>5, <2>6 DEF SpentOnce
    <2>7. CASE t \notin Inputs(b)
      BY <1>1, <1>3, <2>2, <2>4, <2>5, <2>7 DEF Unspent0
    <2> QED
      BY <2>6, <2>7
  <1>7. CASE t \notin TxsOf[b] /\ t \in Inputs(b)
    <2>1. CreatedOnce(d, t) /\ Unspent0(d, t)
      <3>1. d.utxo[t] # NoUTXO /\ d.utxo[t].spentAt = 0
        BY <1>7
      <3> QED
        BY <1>1, <1>5, <3>1 DEF Absent, SpentOnce
    <2>2. d.utxo[t] \in UTXOData
      BY <2>1, DatabaseParts DEF CreatedOnce
    <2>3. e.utxo[t] = [d.utxo[t] EXCEPT !.spentAt = h, !.spentBy = SpenderIn(b, t)]
      BY <1>3, <1>7 DEF AppliedUTXOs
    <2>4. /\ e.utxo[t].height = d.utxo[t].height /\ e.utxo[t].spentAt = h
          /\ e.utxo[t].spentBy = SpenderIn(b, t) /\ e.utxo[t] \in UTXOData
      <3>1. SpenderIn(b, t) \in Txs \cup {NoTx}
        BY SpenderInType
      <3> QED
        BY <2>2, <2>3, <3>1 DEF UTXOData
    <2>5. CreatedOnce(e, t)
      BY <1>1, <1>2, <2>1, <2>4, SentinelAssumption DEF CreatedOnce, SentinelAssumption
    <2>6. \A k \in 0 .. Top(d) : t \notin Inputs(e.hashAt[k])
      BY <1>2, <2>1 DEF Unspent0
    <2>7. SpentOnce(e, t)
      <3>1. d.utxo[t].height <= h /\ h \in 1 .. Top(e)
        BY <1>1, <2>1 DEF CreatedOnce
      <3> QED
        BY <1>1, <1>3, <1>7, <2>4, <2>6, <3>1 DEF SpentOnce
    <2> QED
      BY <2>5, <2>7
  <1>8. CASE t \notin TxsOf[b] /\ t \notin Inputs(b)
    <2>1. e.utxo[t] = d.utxo[t]
      BY <1>3, <1>8 DEF AppliedUTXOs
    <2>2. CASE Absent(d, t)
      BY <1>1, <1>2, <1>3, <1>8, <2>1, <2>2 DEF Absent
    <2>3. CASE CreatedOnce(d, t) /\ Unspent0(d, t)
      BY <1>1, <1>2, <1>3, <1>8, <2>1, <2>3 DEF CreatedOnce, Unspent0
    <2>4. CASE CreatedOnce(d, t) /\ SpentOnce(d, t)
      <3>1. d.utxo[t].spentAt \in 1 .. Top(d) /\ d.utxo[t].spentAt \in 0 .. Top(d)
        BY <2>4 DEF SpentOnce
      <3>2. CreatedOnce(e, t)
        BY <1>1, <1>2, <2>1, <2>4 DEF CreatedOnce
      <3>3. SpentOnce(e, t)
        BY <1>1, <1>2, <1>3, <1>8, <2>1, <2>4, <3>1 DEF SpentOnce
      <3> QED
        BY <3>2, <3>3
    <2> QED
      BY <1>5, <2>2, <2>3, <2>4
  <1> QED
    BY <1>6, <1>7, <1>8

\* One turn of the batch loop keeps the database sound.
LEMMA ApplySound ==
    ASSUME NoRepeats, NEW d \in Database, Sound(d), NEW b \in Blocks, NEW h \in Heights,
           h > best.height, h = Top(d) + 1, Parent[b] = d.hashAt[Top(d)],
           \A t \in Inputs(b) \ TxsOf[b] : d.utxo[t] # NoUTXO /\ d.utxo[t].spentAt = 0
    PROVE  Sound(ApplyBlock(d, b, h))
  <1> DEFINE e == ApplyBlock(d, b, h)
  <1>1. e = ApplyBlock(d, b, h)
    OBVIOUS
  <1> HIDE DEF e
  <1>2. Sound(e)
    BY <1>1, ApplyIndexed, ApplyRecords, ApplyAccounted DEF Sound
  <1> QED
    BY <1>1, <1>2

\* What disconnectBlock writes for the tip block, entry by entry.
LEMMA DisconnectFacts ==
    ASSUME db \in Database, Sound(db), Top(db) > 0, NEW b, b = db.hashAt[Top(db)],
           NEW e, e = Disconnected(b)
    PROVE  /\ b \in Blocks /\ db.heightOf[b] = Top(db)
           /\ e.blocks = db.blocks \ {b}
           /\ \A k \in Heights : e.hashAt[k] = IF k = Top(db) THEN NoBlock ELSE db.hashAt[k]
           /\ \A c \in Blocks : e.heightOf[c] = IF c = b THEN -1 ELSE db.heightOf[c]
           /\ \A t \in Txs : e.txIn[t] = IF t \in TxsOf[b] THEN NoBlock ELSE db.txIn[t]
           /\ e.utxo = RestoredUTXOs(b) /\ e.supply = db.supply
           /\ Parent[b] = db.hashAt[Top(db) - 1] /\ Parent[b] \in Blocks
           /\ TipOf(e) = [height |-> Top(db) - 1, hash |-> Parent[b]] /\ Top(e) = Top(db) - 1
           /\ e.tip = TipOf(e)
  <1>1. Top(db) \in Nat /\ Top(db) \in 1 .. Top(db) /\ Top(db) \in 0 .. Top(db)
        /\ Top(db) - 1 \in 0 .. Top(db)
    BY TopType
  <1>2. /\ b \in Blocks /\ db.heightOf[b] = Top(db)
        /\ Parent[b] = db.hashAt[Top(db) - 1] /\ Parent[b] \in Blocks
    BY <1>1, ChainFacts
  <1>3. e.tip = [height |-> Top(db) - 1, hash |-> Parent[b]]
    BY <1>2, DatabaseParts DEF Disconnected, WithoutBlock, Database
  <1>4. e.tip.hash # NoBlock
    BY <1>2, <1>3, BlockAssumption DEF BlockAssumption
  <1>5. TipOf(e) = [height |-> Top(db) - 1, hash |-> Parent[b]] /\ Top(e) = Top(db) - 1
    BY <1>3, <1>4 DEF TipOf, Top
  <1>6. /\ db.hashAt \in [Heights -> Blocks \cup {NoBlock}]
        /\ db.heightOf \in [Blocks -> Heights \cup {-1}]
    BY DatabaseParts
  <1>7. /\ e.blocks = db.blocks \ {b}
        /\ e.hashAt = [db.hashAt EXCEPT ![Top(db)] = NoBlock]
        /\ e.heightOf = [db.heightOf EXCEPT ![b] = -1]
        /\ e.txIn = DeletedTxs(b) /\ e.utxo = RestoredUTXOs(b) /\ e.supply = db.supply
    BY <1>2 DEF Disconnected, WithoutBlock, Database
  <1> QED
    BY <1>2, <1>3, <1>5, <1>6, <1>7 DEF DeletedTxs

\* The indexes, and the transaction and supply records, without the tip block.
LEMMA DisconnectIndexed ==
    ASSUME db \in Database, Sound(db), Top(db) > 0, NEW b, b = db.hashAt[Top(db)],
           NEW e, e = Disconnected(b)
    PROVE  Indexed(e) /\ Recorded(e) /\ Supplied(e)
  <1>1. /\ Top(db) \in Nat /\ Top(e) = Top(db) - 1 /\ Top(e) \in Nat
        /\ \A k \in 0 .. Top(e) : k \in 0 .. Top(db) /\ k # Top(db)
        /\ Top(db) \in 0 .. Top(db)
    BY TopType, DisconnectFacts
  <1>2. \A k \in 0 .. Top(e) : /\ k \in Heights /\ e.hashAt[k] = db.hashAt[k]
                               /\ db.hashAt[k] \in Blocks /\ db.hashAt[k] # b
    BY <1>1, ChainFacts, DisconnectFacts
  <1>3. e.hashAt[0] = Genesis /\ e.hashAt[Top(e)] = TipOf(e).hash
    BY <1>1, <1>2, ChainFacts, DisconnectFacts
  <1>4. \A k \in 0 .. Top(e) : e.hashAt[k] \in Blocks /\ e.heightOf[e.hashAt[k]] = k
    BY <1>1, <1>2, ChainFacts, DisconnectFacts
  <1>5. \A k \in 1 .. Top(e) : /\ k \in 0 .. Top(e) /\ k - 1 \in 0 .. Top(e) /\ k \in 1 .. Top(db)
                               /\ Parent[e.hashAt[k]] = e.hashAt[k - 1]
    <2>1. \A k \in 1 .. Top(e) : k \in 0 .. Top(e) /\ k - 1 \in 0 .. Top(e) /\ k \in 1 .. Top(db)
      BY <1>1
    <2> QED
      BY <1>2, <2>1, ChainFacts
  <1>6. ASSUME NEW c \in Blocks, e.heightOf[c] # -1
        PROVE  e.heightOf[c] \in 0 .. Top(e) /\ e.hashAt[e.heightOf[c]] = c
    <2>1. c # b /\ e.heightOf[c] = db.heightOf[c] /\ c \in db.blocks
      BY <1>6, DisconnectFacts, ChainFacts
    <2>2. db.heightOf[c] \in 0 .. Top(db) /\ db.hashAt[db.heightOf[c]] = c
      BY <2>1, ChainFacts
    <2>3. db.heightOf[c] # Top(db)
      BY <2>1, <2>2
    <2> QED
      BY <1>1, <1>2, <2>1, <2>2, <2>3
  <1>7. e.blocks = {c \in Blocks : e.heightOf[c] # -1}
    <2>1. /\ \A c \in Blocks : c \in db.blocks <=> db.heightOf[c] # -1
          /\ db.blocks \subseteq Blocks
      BY ChainFacts
    <2> QED
      BY <2>1, DisconnectFacts
  <1>8. Recorded(e)
    <2>1. ASSUME NEW k \in 0 .. Top(e), NEW t \in TxsOf[e.hashAt[k]]
          PROVE  e.txIn[t] = e.hashAt[k]
      <3>1. t \in TxsOf[db.hashAt[k]] /\ t \notin TxsOf[b]
        BY <1>1, <1>2, ChainDisjoint
      <3>2. t \in Txs
        BY <1>2, <3>1, TxAssumption DEF TxAssumption
      <3>3. db.txIn[t] = db.hashAt[k]
        BY <1>1, <3>1 DEF Sound, Recorded
      <3> QED
        BY <1>2, <3>1, <3>2, <3>3, DisconnectFacts
    <2> QED
      BY <2>1 DEF Recorded
  <1>9. Supplied(e)
    <2>1. ASSUME NEW k \in 1 .. Top(e)
          PROVE  e.supply[k] = e.supply[k - 1] + Minted[e.hashAt[k]]
      <3>1. db.supply[k] = db.supply[k - 1] + Minted[db.hashAt[k]]
        BY <1>5 DEF Sound, Supplied
      <3> QED
        BY <1>2, <1>5, <3>1, DisconnectFacts
    <2> QED
      BY <2>1 DEF Supplied
  <1> QED
    BY <1>3, <1>4, <1>5, <1>6, <1>7, <1>8, <1>9 DEF Indexed

\* The outputs without the tip block: what it created is gone, what it spent is back.
LEMMA DisconnectAccounted ==
    ASSUME db \in Database, Sound(db), Top(db) > 0, NEW b, b = db.hashAt[Top(db)],
           NEW e, e = Disconnected(b)
    PROVE  Accounted(e)
  <1>1. /\ Top(db) \in Nat /\ Top(e) = Top(db) - 1 /\ Top(e) \in Nat
        /\ \A k \in 0 .. Top(e) : k \in 0 .. Top(db) /\ k # Top(db)
        /\ \A k \in 0 .. Top(db) : k # Top(db) => k \in 0 .. Top(e)
        /\ Top(db) \in 0 .. Top(db)
    BY TopType, DisconnectFacts
  <1>2. \A k \in 0 .. Top(e) : e.hashAt[k] = db.hashAt[k] /\ db.hashAt[k] \in Blocks
    BY <1>1, ChainFacts, DisconnectFacts
  <1>3. e.utxo = RestoredUTXOs(b) /\ TxsOf[b] \subseteq Txs
    BY DisconnectFacts, TxAssumption DEF TxAssumption
  <1>4. SUFFICES ASSUME NEW t \in Txs
                 PROVE  Absent(e, t) \/ (CreatedOnce(e, t) /\ (Unspent0(e, t) \/ SpentOnce(e, t)))
    BY DEF Accounted
  <1>5. Absent(db, t) \/ (CreatedOnce(db, t) /\ (Unspent0(db, t) \/ SpentOnce(db, t)))
    BY DEF Sound, Accounted
  <1>6. CASE t \in TxsOf[b]
    <2>1. e.utxo[t] = NoUTXO
      BY <1>3, <1>6 DEF RestoredUTXOs
    <2>2. \A k \in 0 .. Top(e) : t \notin TxsOf[db.hashAt[k]]
      BY <1>1, <1>6, ChainDisjoint
    <2>3. CreatedOnce(db, t)
      BY <1>1, <1>5, <1>6 DEF Absent
    <2>4. db.utxo[t].height = Top(db)
      BY <1>1, <2>2, <2>3 DEF CreatedOnce
    <2>5. \A k \in 0 .. Top(e) : t \notin Inputs(db.hashAt[k])
      <3>1. CASE Unspent0(db, t)
        BY <1>1, <3>1 DEF Unspent0
      <3>2. CASE SpentOnce(db, t)
        <4>1. db.utxo[t].spentAt = Top(db)
          BY <1>1, <2>4, <3>2 DEF SpentOnce
        <4> QED
          BY <1>1, <3>2, <4>1 DEF SpentOnce
      <3> QED
        BY <1>5, <2>3, <3>1, <3>2, <1>1, <1>6 DEF Absent
    <2> QED
      BY <1>2, <2>1, <2>2, <2>5 DEF Absent
  <1>7. CASE t \notin TxsOf[b] /\ t \in Inputs(b)
    <2>1. CreatedOnce(db, t) /\ SpentOnce(db, t) /\ db.utxo[t].spentAt = Top(db)
      BY <1>1, <1>5, <1>7 DEF Absent, Unspent0, SpentOnce
    <2>2. db.utxo[t] \in UTXOData
      BY <2>1, DatabaseParts DEF CreatedOnce
    <2>3. e.utxo[t] = Unspent(db.utxo[t])
      BY <1>3, <1>7 DEF RestoredUTXOs
    <2>4. e.utxo[t].spentAt = 0 /\ e.utxo[t].height = db.utxo[t].height /\ e.utxo[t] # NoUTXO
      <3>1. e.utxo[t] \in UTXOData
        BY <2>2, <2>3, UnspentType
      <3>2. e.utxo[t] # NoUTXO
        BY <3>1, SentinelAssumption DEF SentinelAssumption
      <3> QED
        BY <2>2, <2>3, <3>2 DEF Unspent, UTXOData
    <2>5. CreatedOnce(e, t)
      <3>1. db.utxo[t].height \in 0 .. Top(e)
        BY <1>1, <1>7, <2>1 DEF CreatedOnce
      <3> QED
        BY <1>2, <2>1, <2>4, <3>1 DEF CreatedOnce
    <2>6. Unspent0(e, t)
      BY <1>1, <1>2, <2>1, <2>4 DEF SpentOnce, Unspent0
    <2> QED
      BY <2>5, <2>6
  <1>8. CASE t \notin TxsOf[b] /\ t \notin Inputs(b)
    <2>1. e.utxo[t] = db.utxo[t]
      BY <1>3, <1>8 DEF RestoredUTXOs
    <2>2. CASE Absent(db, t)
      BY <1>1, <1>2, <2>1, <2>2 DEF Absent
    <2>3. ASSUME CreatedOnce(db, t) PROVE CreatedOnce(e, t)
      <3>1. db.utxo[t].height \in 0 .. Top(e)
        BY <1>1, <1>8, <2>3 DEF CreatedOnce
      <3> QED
        BY <1>2, <2>1, <2>3, <3>1 DEF CreatedOnce
    <2>4. ASSUME Unspent0(db, t) PROVE Unspent0(e, t)
      BY <1>1, <1>2, <2>1, <2>4 DEF Unspent0
    <2>5. ASSUME SpentOnce(db, t) PROVE SpentOnce(e, t)
      <3>1. db.utxo[t].spentAt \in 1 .. Top(e) /\ db.utxo[t].spentAt \in 0 .. Top(e)
        BY <1>1, <1>8, <2>5 DEF SpentOnce
      <3> QED
        BY <1>1, <1>2, <2>1, <2>5, <3>1 DEF SpentOnce
    <2> QED
      BY <1>5, <2>2, <2>3, <2>4, <2>5
  <1> QED
    BY <1>6, <1>7, <1>8

\* disconnectBlock keeps the database sound.
LEMMA DisconnectSound ==
    ASSUME db \in Database, Sound(db), Top(db) > 0
    PROVE  Sound(Disconnected(db.hashAt[Top(db)]))
  <1> DEFINE b == db.hashAt[Top(db)]
             e == Disconnected(b)
  <1>1. b = db.hashAt[Top(db)] /\ e = Disconnected(b)
    OBVIOUS
  <1> HIDE DEF b, e
  <1>2. Sound(e)
    BY <1>1, DisconnectIndexed, DisconnectAccounted DEF Sound
  <1> QED
    BY <1>1, <1>2

\* Every block of a sound database can be read.
LEMMA ChainReadable ==
    ASSUME db \in Database, Sound(db), NEW h \in 0 .. Top(db)
    PROVE  Readable(db.hashAt[h])
  <1>1. db.hashAt[h] \in db.blocks /\ db.hashAt[h] # NoBlock
    BY ChainFacts, BlockAssumption DEF BlockAssumption
  <1>2. \A t \in TxsOf[db.hashAt[h]] : db.txIn[t] = db.hashAt[h]
    BY DEF Sound, Recorded
  <1> QED
    BY <1>1, <1>2 DEF Readable

\* A fresh database is sound.
LEMMA InitSound == Init => Sound(db)
  <1> SUFFICES ASSUME Init PROVE Sound(db)
    OBVIOUS
  <1>1. TipOf(db) = [height |-> 0, hash |-> Genesis] /\ Top(db) = 0 /\ 0 .. Top(db) = {0}
    BY DEF Init, TipOf, Top
  <1>2. /\ 0 \in Heights /\ Genesis \in Blocks /\ db.hashAt[0] = Genesis
        /\ \A b \in Blocks : db.heightOf[b] = IF b = Genesis THEN 0 ELSE -1
        /\ db.blocks = {Genesis}
    BY BlockAssumption, BoundAssumption DEF Init, BlockAssumption, BoundAssumption, Heights
  <1>3. TxsOf[Genesis] \subseteq Txs /\ Inputs(Genesis) = {}
    BY <1>2, TxAssumption DEF TxAssumption, Inputs
  <1>4. Indexed(db)
    BY <1>1, <1>2 DEF Indexed
  <1>5. Recorded(db) /\ Supplied(db)
    <2>1. Recorded(db)
      BY <1>1, <1>2, <1>3 DEF Init, Recorded
    <2>2. \A h \in 1 .. Top(db) : FALSE
      BY <1>1
    <2>3. Supplied(db)
      BY <2>2 DEF Supplied
    <2> QED
      BY <2>1, <2>3
  <1>6. Accounted(db)
    <2>1. ASSUME NEW t \in Txs, t \in TxsOf[Genesis] PROVE CreatedOnce(db, t) /\ Unspent0(db, t)
      <3>1. db.utxo[t] = [height |-> 0, spentAt |-> 0, spentBy |-> NoTx]
        BY <2>1 DEF Init
      <3>2. db.utxo[t] \in UTXOData
        BY <1>2, <3>1 DEF UTXOData
      <3> QED
        BY <1>1, <1>2, <1>3, <2>1, <3>1, <3>2, SentinelAssumption
        DEF CreatedOnce, Unspent0, SentinelAssumption
    <2>2. ASSUME NEW t \in Txs, t \notin TxsOf[Genesis] PROVE Absent(db, t)
      <3>1. db.utxo[t] = NoUTXO
        BY <2>2 DEF Init
      <3> QED
        BY <1>1, <1>2, <1>3, <2>2, <3>1 DEF Absent
    <2> QED
      BY <2>1, <2>2 DEF Accounted
  <1> QED
    BY <1>4, <1>5, <1>6 DEF Sound

-----------------------------------------------------------------------------
(* The chain under every step.                                             *)

\* While w is at work nobody else is: processingMu keeps other writers out, and
\* where rollbacks happen there is one goroutine.
LEMMA Others ==
    ASSUME Orderly, OrderInv, NEW w \in Workers, NEW v \in Workers, v # w,
           pc[w] \in Writing \/ lock = NoWorker \/ Targets # {}
    PROVE  pc[v] = "idle"
  <1>1. pc[v] \notin Writing
    <2>1. CASE pc[w] \in Writing
      BY <2>1, LockMeansWriter DEF OrderInv
    <2>2. CASE lock = NoWorker
      BY <2>2, LockMeansWriter DEF OrderInv
    <2>3. CASE Targets # {}
      BY <2>3 DEF Orderly
    <2> QED
      BY <2>1, <2>2, <2>3
  <1>2. pc[v] # "waiting"
    BY DEF Orderly, OrderInv, LocalSound
  <1>3. pc[v] # "recover"
    BY DEF OrderInv, LocalSound
  <1>4. pc[v] \in {"idle", "apply", "publish", "waiting", "disconnect", "recover", "delete"}
    BY DEF OrderInv, WriterInv, TypeOK
  <1> QED
    BY <1>1, <1>2, <1>3, <1>4 DEF Writing

\* An idle goroutine knows nothing, ...
LEMMA IdleSound ==
    ASSUME NEW w \in Workers, pc'[w] = "idle"
    PROVE  LocalSound(w)'
  BY DEF LocalSound

\* ... so a step of one goroutine while the others are idle is judged by its own.
LEMMA AloneSound ==
    ASSUME NEW w \in Workers, \A v \in Workers : v # w => pc'[v] = "idle",
           WriterInv', Sound(db)', LocalSound(w)', MemorySound'
    PROVE  OrderInv'
  <1>1. \A v \in Workers : LocalSound(v)'
    BY IdleSound
  <1> QED
    BY <1>1 DEF OrderInv

\* A call that returns and leaves a sound store with memory in agreement.
LEMMA ReturnSound ==
    ASSUME Orderly, OrderInv, WriterInv', NEW w \in Workers, pc[w] \in Writing \/ lock = NoWorker,
           Return(w), Sound(db)', MemorySound'
    PROVE  OrderInv'
  <1>1. \A v \in Workers : pc'[v] = "idle"
    BY Others DEF Return, OrderInv, WriterInv, TypeOK
  <1> QED
    BY <1>1, AloneSound, IdleSound

\* A fresh node satisfies the invariant.
LEMMA InitOrder == Init => OrderInv
  <1> SUFFICES ASSUME Init PROVE OrderInv
    OBVIOUS
  <1>1. WriterInv /\ Sound(db)
    BY InitWriter, InitSound
  <1>2. \A w \in Workers : LocalSound(w)
    BY DEF Init, LocalSound
  <1>3. Top(db) = 0 /\ db.blocks = {Genesis} /\ best = db.tip
    BY DEF Init, Top, TipOf
  <1>4. MemorySound
    BY <1>3 DEF Init, MemorySound
  <1> QED
    BY <1>1, <1>2, <1>4 DEF OrderInv

\* The blocks of a filtered offer that is a chain spend no output twice.
LEMMA OfferedInputs ==
    ASSUME NoDoubleOffers, NEW s \in Offers, NEW blocks \in NewBlocks(s),
           \A i \in 2 .. Len(blocks) : Parent[blocks[i]] = blocks[i - 1],
           NEW i \in 1 .. Len(blocks), NEW j \in 1 .. Len(blocks), i # j
    PROVE  Inputs(blocks[i]) \cap Inputs(blocks[j]) = {}
  <1>1. s \in Seq(Blocks) /\ Len(s) \in Nat
    BY BlockAssumption DEF BlockAssumption
  <1>2. PICK k \in 0 .. Len(s) - 1 : blocks = SubSeq(s, k + 1, Len(s))
    BY DEF NewBlocks
  <1>3. /\ Len(blocks) = Len(s) - k
        /\ \A m \in 1 .. Len(s) - k : blocks[m] = s[k + m]
    <2>1. k + 1 \in 1 .. Len(s) /\ Len(s) \in 1 .. Len(s)
      BY <1>1
    <2>2. /\ Len(SubSeq(s, k + 1, Len(s))) = Len(s) - (k + 1) + 1
          /\ \A m \in 1 .. Len(s) - (k + 1) + 1 : SubSeq(s, k + 1, Len(s))[m] = s[(k + 1) + m - 1]
      BY <1>1, <2>1, SubSeqProperties
    <2>3. Len(s) - (k + 1) + 1 = Len(s) - k /\ \A m \in 1 .. Len(s) - k : (k + 1) + m - 1 = k + m
      BY <1>1
    <2> QED
      BY <1>2, <2>2, <2>3
  <1>4. \A m \in (k + 1) + 1 .. Len(s) : Parent[s[m]] = s[m - 1]
    <2>1. ASSUME NEW m \in (k + 1) + 1 .. Len(s) PROVE Parent[s[m]] = s[m - 1]
      <3>1. /\ m - k \in 2 .. Len(blocks) /\ k + (m - k) = m /\ k + ((m - k) - 1) = m - 1
            /\ m - k \in 1 .. Len(s) - k /\ (m - k) - 1 \in 1 .. Len(s) - k
        <4>1. /\ Len(s) \in Nat /\ k \in Nat /\ m \in Nat /\ k + 2 <= m /\ m <= Len(s)
              /\ Len(blocks) = Len(s) - k
          BY <1>1, <1>3
        <4> QED
          BY <4>1
      <3>2. blocks[m - k] = s[m] /\ blocks[(m - k) - 1] = s[m - 1]
        BY <1>3, <3>1
      <3> QED
        BY <3>1, <3>2
    <2> QED
      BY <2>1
  <1>5. /\ k + 1 \in 1 .. Len(s) /\ k + i \in k + 1 .. Len(s) /\ k + j \in k + 1 .. Len(s)
        /\ k + i # k + j
    BY <1>1, <1>3
  <1>6. Inputs(s[k + i]) \cap Inputs(s[k + j]) = {}
    BY <1>4, <1>5 DEF NoDoubleOffers
  <1> QED
    BY <1>3, <1>6

\* The first block of a batch attaches to the tip.
LEMMA AttachesAtTip ==
    ASSUME Orderly, OrderInv, lock = NoWorker, NEW blocks, Len(blocks) \in Nat, Len(blocks) >= 1,
           HasBlock(Parent[blocks[1]]), db.heightOf[Parent[blocks[1]]] + 1 > 0,
           HeightAdvances(blocks, db.heightOf[Parent[blocks[1]]] + 1),
           ForkBatches \/ Len(blocks) = 1 \/ Parent[blocks[1]] = TipOf(db).hash
    PROVE  /\ db.heightOf[Parent[blocks[1]]] = Top(db)
           /\ Parent[blocks[1]] = db.hashAt[Top(db)]
           /\ best.height = Top(db)
  <1> DEFINE parent == Parent[blocks[1]]
  <1>1. db \in Database /\ Sound(db)
    BY DEF OrderInv, WriterInv, TypeOK
  <1>2. parent \in db.blocks
    BY DEF HasBlock, OrderInv, MemorySound
  <1>3. db.heightOf[parent] \in 0 .. Top(db) /\ db.hashAt[db.heightOf[parent]] = parent
    BY <1>1, <1>2, ChainFacts
  <1>4. best.height = Top(db)
    <2>1. \A w \in Workers : pc[w] # "publish"
      BY LockMeansWriter DEF OrderInv, Writing
    <2> QED
      BY <2>1 DEF OrderInv, MemorySound
  <1>5. Top(db) \in Nat /\ Top(db) \in 0 .. Top(db)
    BY <1>1, TopType
  <1>6. CASE Len(blocks) = 1
    BY <1>3, <1>4, <1>5, <1>6 DEF HeightAdvances
  <1>7. CASE parent = TipOf(db).hash
    BY <1>1, <1>3, <1>4, <1>5, <1>7, ChainFacts
  <1> QED
    BY <1>6, <1>7 DEF Orderly

\* Opening a batch over the chain.
LEMMA StartBatchSound ==
    ASSUME Orderly, OrderInv, WriterInv', NEW w \in Workers, NEW s \in Offers, StartBatch(w, s)
    PROVE  OrderInv'
  <1>1. /\ pc[w] = "idle" /\ lock = NoWorker /\ batch' = db
        /\ pc' = [pc EXCEPT ![w] = "apply"]
        /\ UNCHANGED <<db, best, blockIndex, knownBlocks>>
    BY DEF StartBatch, mem
  <1>2. PICK blocks \in NewBlocks(s) :
          LET h == db.heightOf[Parent[blocks[1]]] + 1
          IN  /\ PreValidateBatch(blocks) /\ h > 0 /\ HeightAdvances(blocks, h)
              /\ ForkBatches \/ Len(blocks) = 1 \/ Parent[blocks[1]] = TipOf(db).hash
              /\ job' = [job EXCEPT ![w] = [NoJob EXCEPT !.blocks = blocks, !.h = h]]
    BY DEF StartBatch
  <1>3. blocks \in Seq(Blocks) /\ Len(blocks) \in Nat /\ Len(blocks) >= 1
    BY NewBlocksType
  <1> DEFINE h == db.heightOf[Parent[blocks[1]]] + 1
  <1>4. /\ db.heightOf[Parent[blocks[1]]] = Top(db) /\ Parent[blocks[1]] = db.hashAt[Top(db)]
        /\ best.height = Top(db)
    BY <1>1, <1>2, <1>3, AttachesAtTip DEF PreValidateBatch
  <1>5. \A i \in 2 .. Len(blocks) : Parent[blocks[i]] = blocks[i - 1]
    BY <1>2 DEF PreValidateBatch
  <1>6. \A i, j \in 1 .. Len(blocks) : i # j => Inputs(blocks[i]) \cap Inputs(blocks[j]) = {}
    BY <1>5, OfferedInputs DEF Orderly
  <1>7. h = Top(db) + 1 /\ h - 1 = Top(db) /\ h + 0 - 1 = Top(db)
        /\ db \in Database /\ Top(db) \in Nat /\ h \in Nat
    BY <1>4, TopType DEF OrderInv, WriterInv, TypeOK
  <1>8. /\ job'[w].blocks = blocks /\ job'[w].h = h /\ job'[w].done = 0
        /\ pc'[w] = "apply"
    BY <1>1, <1>2 DEF OrderInv, WriterInv, TypeOK, NoJob
  <1>9. \A v \in Workers : v # w => pc'[v] = "idle"
    BY <1>1, Others DEF OrderInv, WriterInv, TypeOK
  <1> HIDE DEF h
  <1>10. BatchOK(w)'
    <2>1. \A i \in 1 .. 0 : FALSE
      OBVIOUS
    <2> QED
      BY <1>1, <1>4, <1>5, <1>6, <1>7, <1>8, <2>1 DEF BatchOK
  <1>11. LocalSound(w)'
    BY <1>1, <1>7, <1>8, <1>10 DEF LocalSound, OrderInv
  <1>12. Sound(db)' /\ MemorySound'
    <2>1. \A v \in Workers : pc[v] # "publish"
      BY <1>1, LockMeansWriter DEF OrderInv, Writing
    <2> QED
      BY <1>1, <2>1 DEF OrderInv, MemorySound
  <1> QED
    BY <1>9, <1>11, <1>12, AloneSound

\* What a goroutine in the batch loop knows.
LEMMA InLoop ==
    ASSUME OrderInv, NEW w \in Workers, pc[w] = "apply"
    PROVE  /\ job[w].blocks \in Seq(Blocks) /\ Len(job[w].blocks) \in Nat /\ job[w].done \in Nat
           /\ Len(job[w].blocks) >= 1
           /\ job[w].done <= Len(job[w].blocks)
           /\ job[w].h \in Nat /\ job[w].h >= 1
           /\ job[w].h + Len(job[w].blocks) - 1 <= MaxHeight
           /\ db \in Database /\ batch \in Database /\ Sound(db) /\ Sound(batch) /\ BatchOK(w)
           /\ Top(db) = job[w].h - 1 /\ MaxHeight \in Nat
  <1>1. job[w] \in Job /\ LocalsOK(w) /\ LocalSound(w) /\ batch \in Database /\ db \in Database
    BY LockMeansWriter DEF OrderInv, WriterInv, TypeOK
  <1>2. Sound(batch) /\ BatchOK(w) /\ Sound(db) /\ Top(db) = job[w].h - 1
    BY <1>1 DEF LocalSound, OrderInv
  <1> QED
    BY <1>1, <1>2, BoundAssumption DEF Job, LocalsOK, Heights, BoundAssumption

\* An input that MarkUTXOSpent accepts is unspent: the block that spent it would
\* be on the committed chain, where no reference is orphaned, or in the batch,
\* whose blocks share no input.
LEMMA AcceptedIsUnspent ==
    ASSUME OrderInv, NEW w \in Workers, pc[w] = "apply", ~AllApplied(w),
           NEW t \in Txs, t \in Inputs(NextBlock(w)),
           CanSpend(t, SpenderIn(NextBlock(w), t), NextHeight(w))
    PROVE  batch.utxo[t] # NoUTXO /\ batch.utxo[t].spentAt = 0
  <1> DEFINE h == job[w].h
             done == job[w].done
             k == batch.utxo[t].spentAt
             c == batch.hashAt[k]
  <1>1. /\ h \in Nat /\ done \in Nat /\ h >= 1 /\ Len(job[w].blocks) \in Nat
        /\ done + 1 \in 1 .. Len(job[w].blocks)
        /\ Top(batch) = h + done - 1 /\ Top(db) = h - 1
        /\ \A i \in 0 .. h - 1 : batch.hashAt[i] = db.hashAt[i]
        /\ \A i \in 1 .. done : batch.hashAt[h + i - 1] = job[w].blocks[i]
        /\ \A i, j \in 1 .. Len(job[w].blocks) :
              i # j => Inputs(job[w].blocks[i]) \cap Inputs(job[w].blocks[j]) = {}
        /\ Sound(db) /\ Sound(batch) /\ db \in Database
    <2>1. BatchOK(w) /\ Sound(db) /\ Sound(batch) /\ db \in Database /\ Top(db) = h - 1
      BY InLoop
    <2>2. /\ h \in Nat /\ done \in Nat /\ h >= 1 /\ Len(job[w].blocks) \in Nat
          /\ done <= Len(job[w].blocks)
      BY InLoop
    <2>3. done + 1 \in 1 .. Len(job[w].blocks)
      BY <2>2 DEF AllApplied
    <2> QED
      BY <2>1, <2>2, <2>3 DEF BatchOK
  <1>2. batch.utxo[t] # NoUTXO
    BY DEF CanSpend
  <1>3. SUFFICES ASSUME k # 0 PROVE FALSE
    BY <1>2
  <1>4. SpentOnce(batch, t)
    BY <1>1, <1>2, <1>3 DEF Sound, Accounted, Absent, Unspent0
  <1>5. k \in 1 .. Top(batch) /\ t \in Inputs(c) /\ batch.utxo[t].spentBy = SpenderIn(c, t)
    BY <1>4 DEF SpentOnce
  <1>6. k # NextHeight(w)
    BY <1>1, <1>5 DEF NextHeight
  <1>7. OrphanedRef(batch.utxo[t])
    BY <1>3, <1>6 DEF CanSpend
  <1>8. CASE k \in 0 .. h - 1
    <2>1. c = db.hashAt[k] /\ k \in 0 .. Top(db)
      BY <1>1, <1>8
    <2>2. c \in Blocks /\ c # NoBlock
      BY <1>1, <2>1, ChainFacts, BlockAssumption DEF BlockAssumption
    <2>3. SpenderIn(c, t) \in TxsOf[c]
      BY <1>5, SpenderMember
    <2>4. db.txIn[SpenderIn(c, t)] = c
      BY <1>1, <2>1, <2>3 DEF Sound, Recorded
    <2> HIDE DEF c
    <2> QED
      BY <1>5, <1>7, <2>1, <2>2, <2>4 DEF OrphanedRef
  <1>9. CASE k \notin 0 .. h - 1
    <2>1. k - h + 1 \in 1 .. done /\ h + (k - h + 1) - 1 = k
      <3> HIDE DEF h, done, k
      <3>1. k \in Nat /\ k >= h /\ k <= h + done - 1 /\ h \in Nat /\ done \in Nat
        BY <1>1, <1>5, <1>9
      <3> QED
        BY <3>1
    <2>2. c = job[w].blocks[k - h + 1]
      BY <1>1, <2>1
    <2>3. k - h + 1 # done + 1 /\ k - h + 1 \in 1 .. Len(job[w].blocks)
      BY <1>1, <2>1
    <2>4. t \in Inputs(job[w].blocks[k - h + 1]) /\ t \in Inputs(job[w].blocks[done + 1])
      BY <1>5, <2>2 DEF NextBlock
    <2> QED
      BY <1>1, <2>3, <2>4
  <1> QED
    BY <1>8, <1>9

\* One turn of the batch loop.
LEMMA ApplyNextSound ==
    ASSUME Orderly, OrderInv, WriterInv', NEW w \in Workers, ApplyNext(w)
    PROVE  OrderInv'
  <1> DEFINE b == NextBlock(w)
             h == NextHeight(w)
             blocks == job[w].blocks
             n == job[w].done
  <1>1. /\ pc[w] = "apply" /\ ~AllApplied(w) /\ InputsSpendable(b, h)
        /\ batch' = ApplyBlock(batch, b, h)
        /\ job' = [job EXCEPT ![w].done = n + 1]
        /\ UNCHANGED <<db, best, blockIndex, knownBlocks, pc>>
    BY DEF ApplyNext, mem
  <1>2. /\ blocks \in Seq(Blocks) /\ Len(blocks) \in Nat /\ n \in Nat /\ n + 1 \in 1 .. Len(blocks)
        /\ job[w].h \in Nat /\ job[w].h >= 1 /\ MaxHeight \in Nat
        /\ job[w].h + Len(blocks) - 1 <= MaxHeight
        /\ Sound(batch) /\ batch \in Database /\ BatchOK(w) /\ Top(db) = job[w].h - 1
    BY <1>1, InLoop DEF AllApplied
  <1>3. b \in Blocks /\ b = blocks[n + 1]
    BY <1>2 DEF NextBlock
  <1>4. h = Top(batch) + 1 /\ h \in Heights /\ h > best.height /\ h = job[w].h + n
    <2>1. Top(batch) = job[w].h + n - 1 /\ best.height = job[w].h - 1
      BY <1>2 DEF BatchOK
    <2>2. h = job[w].h + n
      BY DEF NextHeight
    <2> HIDE DEF n, h, blocks
    <2>3. n \in Nat /\ n < Len(blocks) /\ Len(blocks) \in Nat
      BY <1>2
    <2>4. job[w].h \in Nat /\ MaxHeight \in Nat /\ job[w].h + Len(blocks) - 1 <= MaxHeight
      BY <1>2
    <2>5. h = Top(batch) + 1
      BY <2>1, <2>2, <2>3, <2>4
    <2>6. h \in Nat /\ h <= MaxHeight /\ h > job[w].h - 1
      BY <2>2, <2>3, <2>4
    <2> QED
      BY <2>1, <2>2, <2>4, <2>5, <2>6 DEF Heights
  <1>5. Parent[b] = batch.hashAt[Top(batch)]
    <2>1. CASE n = 0
      BY <1>2, <1>3, <2>1 DEF BatchOK
    <2>2. CASE n # 0
      <3>1. n + 1 \in 2 .. Len(blocks) /\ n \in 1 .. n /\ (n + 1) - 1 = n
        BY <1>2, <2>2
      <3>2. Parent[blocks[n + 1]] = blocks[n]
        BY <1>2, <3>1 DEF BatchOK
      <3>3. batch.hashAt[job[w].h + n - 1] = blocks[n] /\ Top(batch) = job[w].h + n - 1
        BY <1>2, <3>1 DEF BatchOK
      <3> QED
        BY <1>3, <3>2, <3>3
    <2> QED
      BY <2>1, <2>2
  <1>6. \A t \in Inputs(b) \ TxsOf[b] : batch.utxo[t] # NoUTXO /\ batch.utxo[t].spentAt = 0
    <2>1. ASSUME NEW t \in Inputs(b) \ TxsOf[b]
          PROVE  batch.utxo[t] # NoUTXO /\ batch.utxo[t].spentAt = 0
      <3>1. t \in Txs
        BY <1>3, TxAssumption DEF Inputs, TxAssumption
      <3>2. CanSpend(t, SpenderIn(b, t), h)
        BY <1>1 DEF InputsSpendable
      <3> QED
        BY <1>1, <3>1, <3>2, AcceptedIsUnspent
    <2> QED
      BY <2>1
  <1> HIDE DEF b, h
  <1>7. Sound(batch')
    BY <1>1, <1>2, <1>3, <1>4, <1>5, <1>6, ApplySound DEF Orderly
  <1>8. /\ Top(batch') = h
        /\ \A k \in Heights : batch'.hashAt[k] = IF k = h THEN b ELSE batch.hashAt[k]
    <2>1. batch \in Database /\ b \in Blocks /\ h \in Heights /\ h > best.height
      BY <1>2, <1>3, <1>4
    <2>2. batch' = ApplyBlock(batch, b, h)
      BY <1>1
    <2> QED
      BY <2>1, <2>2, ApplyFacts
  <1>9. /\ job'[w].blocks = blocks /\ job'[w].h = job[w].h /\ job'[w].done = n + 1
        /\ pc'[w] = "apply" /\ job[w] \in Job
    BY <1>1 DEF OrderInv, WriterInv, TypeOK, Job
  <1>10. BatchOK(w)'
    <2>1. Top(batch') = job[w].h + (n + 1) - 1
      BY <1>2, <1>4, <1>8
    <2>2. \A k \in 0 .. job[w].h - 1 : batch'.hashAt[k] = db.hashAt[k]
      <3>1. \A k \in 0 .. job[w].h - 1 : k \in Heights /\ k # h
        BY <1>2, <1>4 DEF Heights
      <3> QED
        BY <1>2, <1>8, <3>1 DEF BatchOK
    <2>3. \A i \in 1 .. n + 1 : batch'.hashAt[job[w].h + i - 1] = blocks[i]
      <3>1. ASSUME NEW i \in 1 .. n + 1 PROVE batch'.hashAt[job[w].h + i - 1] = blocks[i]
        <4>1. CASE i = n + 1
          <5>1. job[w].h + i - 1 = h
            <6>1. h = job[w].h + n /\ job[w].h \in Nat /\ n \in Nat
              BY <1>2, <1>4
            <6> QED
              BY <4>1, <6>1
          <5>2. batch'.hashAt[h] = b
            BY <1>4, <1>8
          <5> QED
            BY <1>3, <4>1, <5>1, <5>2
        <4>2. CASE i \in 1 .. n
          <5>1. job[w].h + i - 1 \in Heights /\ job[w].h + i - 1 # h
            <6>1. /\ h = job[w].h + n /\ h <= MaxHeight /\ MaxHeight \in Nat
                  /\ job[w].h \in Nat /\ job[w].h >= 1 /\ n \in Nat
              BY <1>2, <1>4 DEF Heights
            <6> HIDE DEF n
            <6> QED
              BY <4>2, <6>1 DEF Heights
          <5> QED
            BY <1>2, <1>8, <4>2, <5>1 DEF BatchOK
        <4> QED
          BY <1>2, <4>1, <4>2
      <3> QED
        BY <3>1
    <2>4. Parent[blocks[1]] = batch'.hashAt[job[w].h - 1]
      <3>1. job[w].h - 1 \in 0 .. job[w].h - 1
        BY <1>2
      <3> QED
        BY <1>2, <2>2, <3>1 DEF BatchOK
    <2>5. /\ best'.height = job[w].h - 1 /\ db' = db
          /\ \A i \in 2 .. Len(blocks) : Parent[blocks[i]] = blocks[i - 1]
          /\ \A i, j \in 1 .. Len(blocks) :
                i # j => Inputs(blocks[i]) \cap Inputs(blocks[j]) = {}
      BY <1>1, <1>2 DEF BatchOK
    <2> QED
      BY <1>9, <2>1, <2>2, <2>3, <2>4, <2>5 DEF BatchOK
  <1>11. LocalSound(w)'
    BY <1>1, <1>2, <1>7, <1>9, <1>10 DEF LocalSound
  <1>12. \A v \in Workers : v # w => pc'[v] = "idle"
    BY <1>1, Others DEF Writing
  <1>13. Sound(db)' /\ MemorySound'
    BY <1>1 DEF OrderInv, MemorySound
  <1> QED
    BY <1>11, <1>12, <1>13, AloneSound

\* A batch that is dropped, committed or published.
LEMMA BatchEndSound ==
    ASSUME Orderly, OrderInv, WriterInv', NEW w \in Workers,
           AbortBatch(w) \/ SyncFails(w) \/ CommitBatch(w) \/ PublishBatch(w)
    PROVE  OrderInv'
  <1>1. ~SyncFails(w)
    BY DEF Orderly, SyncFails
  <1>2. CASE AbortBatch(w)
    <2>1. /\ pc[w] = "apply" /\ Return(w)
          /\ UNCHANGED <<db, best, blockIndex, knownBlocks>>
      BY <1>2 DEF AbortBatch, mem
    <2>2. \A v \in Workers : pc[v] # "publish"
      BY <2>1, Others DEF Writing
    <2>3. Sound(db)' /\ MemorySound'
      BY <2>1, <2>2 DEF OrderInv, MemorySound
    <2> QED
      BY <2>1, <2>3, ReturnSound DEF Writing
  <1>3. CASE CommitBatch(w)
    <2>1. /\ pc[w] = "apply" /\ AllApplied(w) /\ db' = batch
          /\ pc' = [pc EXCEPT ![w] = "publish"]
          /\ UNCHANGED <<batch, best, blockIndex, knownBlocks, job>>
      BY <1>3 DEF CommitBatch, mem
    <2>2. /\ Sound(batch) /\ BatchOK(w) /\ Sound(db) /\ db \in Database /\ batch \in Database
          /\ Top(db) = job[w].h - 1 /\ job[w].h \in Nat /\ job[w].done \in Nat
      BY <2>1, InLoop
    <2>3. pc'[w] = "publish" /\ \A v \in Workers : v # w => pc'[v] = "idle"
      BY <2>1, Others DEF OrderInv, WriterInv, TypeOK, Writing
    <2>4. LocalSound(w)'
      BY <2>1, <2>2, <2>3 DEF LocalSound, BatchOK, AllApplied
    <2>5. db.blocks \subseteq batch.blocks
      <3>1. ASSUME NEW b \in db.blocks PROVE b \in batch.blocks
        <4>1. db.heightOf[b] \in 0 .. Top(db) /\ db.hashAt[db.heightOf[b]] = b
          BY <2>2, ChainFacts
        <4>2. db.heightOf[b] \in 0 .. job[w].h - 1 /\ db.heightOf[b] \in 0 .. Top(batch)
          <5>1. Top(batch) = job[w].h + job[w].done - 1
            BY <2>2 DEF BatchOK
          <5> QED
            BY <2>2, <4>1, <5>1
        <4>3. batch.hashAt[db.heightOf[b]] = b
          BY <2>2, <4>1, <4>2 DEF BatchOK
        <4> QED
          BY <2>2, <4>2, <4>3, ChainFacts
      <3> QED
        BY <3>1
    <2>6. MemorySound'
      BY <2>1, <2>3, <2>5 DEF OrderInv, MemorySound
    <2>7. Sound(db)'
      BY <2>1, <2>2
    <2> QED
      BY <2>3, <2>4, <2>6, <2>7, AloneSound
  <1>4. CASE PublishBatch(w)
    <2> DEFINE blocks == job[w].blocks
               h == job[w].h
               n == Len(blocks)
    <2>1. /\ pc[w] = "publish" /\ Return(w) /\ db' = db
          /\ best' = IF h + n - 1 > best.height
                     THEN [height |-> h + n - 1, hash |-> blocks[n]] ELSE best
          /\ blockIndex' = blockIndex \cup {blocks[i] : i \in 1 .. n}
          /\ \A b \in Blocks : b \notin {blocks[i] : i \in 1 .. n} => knownBlocks'[b] = knownBlocks[b]
      BY <1>4 DEF PublishBatch
    <2>2. /\ n \in Nat /\ n >= 1 /\ h \in Nat /\ db \in Database /\ Sound(db)
          /\ batch = db /\ BatchOK(w) /\ AllApplied(w)
      BY <2>1 DEF OrderInv, LocalSound, WriterInv, TypeOK, LocalsOK, Job, Heights
    <2>3. /\ Top(db) = h + n - 1 /\ best.height = h - 1
          /\ \A i \in 1 .. n : db.hashAt[h + i - 1] = blocks[i]
      BY <2>2 DEF BatchOK, AllApplied
    <2> HIDE DEF h, n, blocks
    <2>4. {blocks[i] : i \in 1 .. n} \subseteq db.blocks
      <3>1. \A i \in 1 .. n : h + i - 1 \in 0 .. Top(db)
        BY <2>2, <2>3
      <3> QED
        BY <2>2, <2>3, <3>1, ChainFacts
    <2>5. best'.height = Top(db) /\ best'.hash = TipOf(db).hash
      <3>1. best' = [height |-> h + n - 1, hash |-> blocks[n]]
        BY <2>1, <2>2, <2>3
      <3>2. n \in 1 .. n
        BY <2>2
      <3>3. blocks[n] = TipOf(db).hash
        BY <2>2, <2>3, <3>2, ChainFacts
      <3> QED
        BY <2>3, <3>1, <3>3
    <2>6. MemorySound'
      BY <2>1, <2>4, <2>5 DEF OrderInv, MemorySound
    <2>7. Sound(db)'
      BY <2>1, <2>2
    <2> QED
      BY <2>1, <2>6, <2>7, ReturnSound DEF Writing
  <1> QED
    BY <1>1, <1>2, <1>3, <1>4

\* The start of a rollback: its unlocked reads, and the lock.
LEMMA RollbackStartSound ==
    ASSUME Orderly, OrderInv, WriterInv', NEW w \in Workers,
           (\E target \in Targets : StartRollback(w, target)) \/ LockRollback(w)
    PROVE  OrderInv'
  <1>1. CASE \E target \in Targets : StartRollback(w, target)
    <2>1. PICK target \in Targets : StartRollback(w, target)
      BY <1>1
    <2>2. /\ pc[w] = "idle" /\ target < best.height /\ BlockAtHeight(target) # NoBlock
          /\ pc' = [pc EXCEPT ![w] = "waiting"]
          /\ job' = [job EXCEPT ![w] = [NoJob EXCEPT !.h = best.height, !.target = target,
                                                     !.hash = BlockAtHeight(target)]]
          /\ UNCHANGED <<db, batch, best, blockIndex, knownBlocks>>
      BY <2>1 DEF StartRollback, mem
    <2>3. \A v \in Workers : v # w => pc[v] = "idle"
      BY Others
    <2>4. \A v \in Workers : pc[v] \notin {"apply", "publish"}
      BY <2>2, <2>3
    <2>5. batch = NoBatch /\ best.height = Top(db) /\ db \in Database /\ Sound(db)
      BY <2>4 DEF OrderInv, WriterInv, TypeOK, SingleWriter, MemorySound
    <2>6. target \in 0 .. Top(db)
      BY <2>2, <2>5, TopType, BoundAssumption DEF BoundAssumption, Heights
    <2>7. BlockAtHeight(target) = db.hashAt[target]
      BY <2>2, <2>5 DEF BlockAtHeight
    <2>8. /\ pc'[w] = "waiting" /\ job'[w].h = Top(db) /\ job'[w].target = target
          /\ job'[w].hash = db.hashAt[target]
      BY <2>2, <2>5, <2>7 DEF OrderInv, WriterInv, TypeOK, NoJob
    <2>9. LocalSound(w)'
      BY <2>2, <2>6, <2>8 DEF LocalSound
    <2>10. \A v \in Workers : v # w => pc'[v] = "idle"
      BY <2>2, <2>3 DEF OrderInv, WriterInv, TypeOK
    <2>11. Sound(db)' /\ MemorySound'
      BY <2>2, <2>5 DEF OrderInv, MemorySound
    <2> QED
      BY <2>9, <2>10, <2>11, AloneSound
  <1>2. CASE LockRollback(w)
    <2>1. /\ pc[w] = "waiting" /\ pc' = [pc EXCEPT ![w] = "disconnect"]
          /\ UNCHANGED <<db, batch, best, blockIndex, knownBlocks, job>>
      BY <1>2 DEF LockRollback, mem
    <2>2. LocalSound(w) /\ Targets # {}
      BY <2>1 DEF OrderInv, LocalSound
    <2>3. \A v \in Workers : v # w => pc[v] = "idle"
      BY <2>2, Others
    <2>4. pc'[w] = "disconnect" /\ \A v \in Workers : v # w => pc'[v] = "idle"
      BY <2>1, <2>3 DEF OrderInv, WriterInv, TypeOK
    <2>5. LocalSound(w)'
      BY <2>1, <2>2, <2>4 DEF LocalSound
    <2>6. \A v \in Workers : pc[v] # "publish"
      BY <2>1, <2>3
    <2>7. Sound(db)' /\ MemorySound'
      BY <2>1, <2>6 DEF OrderInv, MemorySound
    <2> QED
      BY <2>4, <2>5, <2>7, AloneSound
  <1> QED
    BY <1>1, <1>2

\* What a rollback in its loop knows.
LEMMA InRollback ==
    ASSUME OrderInv, NEW w \in Workers, pc[w] = "disconnect"
    PROVE  /\ job[w].h = Top(db) /\ job[w].target \in 0 .. Top(db) /\ Top(db) \in Nat
           /\ job[w].hash = db.hashAt[job[w].target] /\ Targets # {}
           /\ db \in Database /\ Sound(db) /\ job[w] \in Job
           /\ Readable(db.hashAt[Top(db)]) /\ db.hashAt[Top(db)] \in Blocks
           /\ db.hashAt[Top(db)] # NoBlock
  <1>1. /\ job[w].h = Top(db) /\ job[w].target \in 0 .. Top(db)
        /\ job[w].hash = db.hashAt[job[w].target] /\ Targets # {}
        /\ db \in Database /\ Sound(db) /\ job[w] \in Job
    BY DEF OrderInv, LocalSound, WriterInv, TypeOK
  <1>2. Top(db) \in Nat /\ Top(db) \in 0 .. Top(db)
    BY <1>1, TopType
  <1> QED
    BY <1>1, <1>2, ChainReadable, ChainFacts, BlockAssumption DEF BlockAssumption

\* The loop of a rollback: it never skips a height.
LEMMA DisconnectStepSound ==
    ASSUME Orderly, OrderInv, WriterInv', NEW w \in Workers,
           SkipHeight(w) \/ DisconnectFails(w) \/ DisconnectNext(w)
    PROVE  OrderInv'
  <1>1. pc[w] = "disconnect"
    BY DEF SkipHeight, DisconnectFails, DisconnectNext
  <1>2. ~SkipHeight(w)
    BY <1>1, InRollback DEF SkipHeight
  <1>3. \A v \in Workers : v # w => pc[v] = "idle"
    BY <1>1, Others DEF Writing
  <1>4. \A v \in Workers : pc[v] # "publish"
    BY <1>1, <1>3
  <1>5. CASE DisconnectFails(w)
    <2>1. Return(w) /\ UNCHANGED <<db, best, blockIndex, knownBlocks>>
      BY <1>5 DEF DisconnectFails, mem
    <2>2. Sound(db)' /\ MemorySound'
      BY <1>4, <2>1 DEF OrderInv, MemorySound
    <2> QED
      BY <1>1, <2>1, <2>2, ReturnSound DEF Writing
  <1>6. CASE DisconnectNext(w)
    <2> DEFINE b == db.hashAt[Top(db)]
    <2>1. /\ job[w].h > job[w].target /\ db' = Disconnected(b)
          /\ IF Readable(Parent[b])
             THEN /\ best' = [height |-> db.heightOf[b] - 1, hash |-> Parent[b]]
                  /\ Forget(b)
                  /\ job' = [job EXCEPT ![w].h = job[w].h - 1]
                  /\ UNCHANGED pc
             ELSE TRUE
      BY <1>1, <1>6, InRollback DEF DisconnectNext
    <2>2. Top(db) > 0 /\ Top(db) \in Nat /\ Top(db) - 1 \in 0 .. Top(db)
      BY <1>1, <2>1, InRollback
    <2>3. b = db.hashAt[Top(db)]
      OBVIOUS
    <2> HIDE DEF b
    <2>4. /\ b \in Blocks /\ db.heightOf[b] = Top(db) /\ db'.blocks = db.blocks \ {b}
          /\ \A k \in Heights : db'.hashAt[k] = IF k = Top(db) THEN NoBlock ELSE db.hashAt[k]
          /\ Parent[b] = db.hashAt[Top(db) - 1] /\ Top(db') = Top(db) - 1
          /\ TipOf(db') = [height |-> Top(db) - 1, hash |-> Parent[b]]
      BY <1>1, <2>1, <2>2, <2>3, InRollback, DisconnectFacts
    <2>5. Readable(Parent[b])
      BY <1>1, <2>2, <2>4, InRollback, ChainReadable
    <2>6. Sound(db')
      BY <1>1, <2>1, <2>2, <2>3, InRollback, DisconnectSound
    <2>7. /\ best'.height = Top(db') /\ best'.hash = TipOf(db').hash
          /\ blockIndex' = blockIndex \ {b} /\ knownBlocks' = [knownBlocks EXCEPT ![b] = -1]
      BY <2>1, <2>4, <2>5 DEF Forget
    <2>8. MemorySound'
      BY <2>4, <2>7 DEF OrderInv, WriterInv, TypeOK, MemorySound
    <2>9. /\ job'[w].h = Top(db') /\ job'[w].target = job[w].target /\ job'[w].hash = job[w].hash
          /\ pc' = pc
      BY <1>1, <2>1, <2>4, <2>5, InRollback DEF OrderInv, WriterInv, TypeOK, Job
    <2>10. job[w].target \in 0 .. Top(db') /\ job[w].target \in Heights
           /\ job[w].target # Top(db)
      BY <1>1, <2>1, <2>2, <2>4, InRollback, ChainFacts
    <2>11. LocalSound(w)'
      BY <1>1, <2>4, <2>9, <2>10, InRollback DEF LocalSound
    <2>12. Sound(db)'
      BY <2>6
    <2> QED
      BY <1>3, <2>8, <2>9, <2>11, <2>12, AloneSound
  <1> QED
    BY <1>2, <1>5, <1>6

\* Soundness is about the indexes and the tip, whichever way the record says it.
LEMMA SameStore ==
    ASSUME NEW d, NEW e, Sound(d), Top(e) = Top(d), TipOf(e).hash = TipOf(d).hash,
           e.blocks = d.blocks, e.hashAt = d.hashAt, e.heightOf = d.heightOf,
           e.txIn = d.txIn, e.utxo = d.utxo, e.supply = d.supply
    PROVE  Sound(e)
  <1>1. Indexed(e)
    BY DEF Sound, Indexed
  <1>2. Recorded(e) /\ Supplied(e)
    BY DEF Sound, Recorded, Supplied
  <1>3. Accounted(e)
    BY DEF Sound, Accounted, Absent, CreatedOnce, Unspent0, SpentOnce
  <1> QED
    BY <1>1, <1>2, <1>3 DEF Sound

\* The end of a rollback: there is no orphan, and the target is the tip.
LEMMA RollbackEndSound ==
    ASSUME Orderly, OrderInv, WriterInv', NEW w \in Workers, CleanOrphan(w) \/ FinishRollback(w)
    PROVE  OrderInv'
  <1>1. pc[w] = "disconnect" /\ job[w].h = job[w].target
    BY DEF CleanOrphan, FinishRollback
  <1>2. job[w].target = Top(db) /\ job[w].hash = TipOf(db).hash /\ job[w].hash \in Blocks
        /\ db \in Database /\ Sound(db) /\ Top(db) \in Nat
    BY <1>1, InRollback, ChainFacts
  <1>3. ~CleanOrphan(w)
    <2>1. ASSUME NEW b \in Blocks PROVE ~(db.heightOf[b] > job[w].target)
      <3>1. CASE b \in db.blocks
        BY <1>2, <3>1, ChainFacts
      <3>2. CASE b \notin db.blocks
        BY <1>2, <3>2, ChainFacts
      <3> QED
        BY <3>1, <3>2
    <2> QED
      BY <2>1 DEF CleanOrphan
  <1> DEFINE tip == [height |-> job[w].target, hash |-> job[w].hash]
  <1>4. /\ best' = tip /\ Return(w) /\ blockIndex' = blockIndex
        /\ db' = [db EXCEPT !.tip = tip] \/ db' = db
        /\ knownBlocks' = KnownUpTo(job[w].target)
    BY <1>3 DEF FinishRollback
  <1>5. /\ db'.blocks = db.blocks /\ db'.hashAt = db.hashAt /\ db'.heightOf = db.heightOf
        /\ db'.txIn = db.txIn /\ db'.utxo = db.utxo /\ db'.supply = db.supply
        /\ db'.tip = tip \/ db'.tip = db.tip
    BY <1>2, <1>4 DEF Database
  <1>6. Top(db') = Top(db) /\ TipOf(db').hash = TipOf(db).hash
    <2>1. CASE db'.tip = tip
      BY <1>2, <2>1, BlockAssumption DEF TipOf, Top, BlockAssumption
    <2>2. CASE db'.tip = db.tip
      BY <2>2 DEF TipOf, Top
    <2> QED
      BY <1>5, <2>1, <2>2
  <1>7. Sound(db')
    BY <1>2, <1>5, <1>6, SameStore
  <1>8. best'.height = Top(db') /\ best'.hash = TipOf(db').hash
    BY <1>2, <1>4, <1>6
  <1>9. MemorySound'
    BY <1>4, <1>5, <1>8 DEF OrderInv, MemorySound, KnownUpTo
  <1>10. Sound(db)'
    BY <1>7
  <1> QED
    BY <1>1, <1>4, <1>9, <1>10, ReturnSound DEF Writing

\* A crash and restart; the disk keeps its records.
LEMMA EnvironmentSound ==
    ASSUME Orderly, OrderInv, WriterInv', CrashRestart \/ \E t \in Txs : LoseTx(t)
    PROVE  OrderInv'
  <1>1. ~(\E t \in Txs : LoseTx(t))
    BY DEF Orderly, OrderInv, WriterInv, TypeOK, LoseTx
  <1>2. /\ best' = TipOf(db) /\ pc' = [w \in Workers |-> "idle"]
        /\ blockIndex' = IF TipLoaded THEN {db.tip.hash} ELSE {}
        /\ knownBlocks' = BuildKnownBlocks
    BY <1>1 DEF CrashRestart
  <1>3. db \in Database /\ Sound(db)
    BY DEF OrderInv, WriterInv, TypeOK
  <1>8. /\ TipOf(db') = TipOf(db) /\ Top(db') = Top(db) /\ db'.blocks = db.blocks /\ Sound(db')
    <2>1. CASE db' = db
      BY <1>3, <2>1 DEF Top
    <2>2. CASE db' = [db EXCEPT !.tip = TipOf(db)]
      <3>1. /\ db'.tip = TipOf(db) /\ db'.blocks = db.blocks /\ db'.hashAt = db.hashAt
            /\ db'.heightOf = db.heightOf /\ db'.txIn = db.txIn /\ db'.utxo = db.utxo
            /\ db'.supply = db.supply
        BY <1>3, <2>2 DEF Database
      <3>2. TipOf(db') = TipOf(db) /\ Top(db') = Top(db)
        BY <3>1 DEF TipOf, Top
      <3> QED
        BY <1>3, <3>1, <3>2, SameStore
    <2> QED
      BY <1>1, <2>1, <2>2 DEF CrashRestart
  <1>4. blockIndex' \subseteq db.blocks
    BY <1>2 DEF TipLoaded, Readable
  <1>5. \A b \in Blocks : knownBlocks'[b] # -1 => b \in db.blocks
    BY <1>2, <1>3, ChainFacts DEF BuildKnownBlocks
  <1>6. MemorySound'
    BY <1>2, <1>4, <1>5, <1>8 DEF MemorySound, Top
  <1>7. \A w \in Workers : LocalSound(w)'
    BY <1>2, IdleSound
  <1> QED
    BY <1>2, <1>3, <1>6, <1>7, <1>8 DEF OrderInv

\* Every step keeps the invariant.
LEMMA StepOrder ==
    ASSUME Orderly, OrderInv, [Next]_vars
    PROVE  OrderInv'
  <1>0. WriterInv'
    BY StepWriter DEF OrderInv
  <1>1. ASSUME NEW w \in Workers, NEW s \in Offers, StartBatch(w, s) PROVE OrderInv'
    BY <1>0, <1>1, StartBatchSound
  <1>2. ASSUME NEW w \in Workers, NEW h \in Targets, StartRollback(w, h) PROVE OrderInv'
    BY <1>0, <1>2, RollbackStartSound
  <1>3. ASSUME NEW w \in Workers
        PROVE  /\ ~StartRecovery(w) /\ ~RecoverySetTip(w) /\ ~RecoveryDelete(w)
               /\ ~RecoveryFails(w) /\ ~RecoverySyncFails(w)
    BY DEF Orderly, OrderInv, LocalSound, StartRecovery, RecoverySetTip, RecoveryDelete,
           RecoveryFails, RecoverySyncFails
  <1>4. ASSUME NEW w \in Workers, Step(w) PROVE OrderInv'
    <2>1. CASE ApplyNext(w)
      BY <1>0, <2>1, ApplyNextSound
    <2>2. CASE AbortBatch(w) \/ SyncFails(w) \/ CommitBatch(w) \/ PublishBatch(w)
      BY <1>0, <2>2, BatchEndSound
    <2>3. CASE LockRollback(w)
      BY <1>0, <2>3, RollbackStartSound
    <2>4. CASE SkipHeight(w) \/ DisconnectFails(w) \/ DisconnectNext(w)
      BY <1>0, <2>4, DisconnectStepSound
    <2>5. CASE CleanOrphan(w) \/ FinishRollback(w)
      BY <1>0, <2>5, RollbackEndSound
    <2> QED
      BY <1>3, <1>4, <2>1, <2>2, <2>3, <2>4, <2>5 DEF Step
  <1>5. CASE CrashRestart \/ \E t \in Txs : LoseTx(t)
    BY <1>0, <1>5, EnvironmentSound
  <1>6. CASE UNCHANGED vars
    <2>1. Sound(db)'
      BY <1>6 DEF OrderInv, vars
    <2>2. \A w \in Workers : LocalSound(w)'
      BY <1>6 DEF OrderInv, LocalSound, BatchOK, AllApplied, vars, mem
    <2>3. MemorySound'
      BY <1>6 DEF OrderInv, MemorySound, vars, mem
    <2> QED
      BY <1>0, <2>1, <2>2, <2>3 DEF OrderInv
  <1> QED
    BY <1>1, <1>2, <1>3, <1>4, <1>5, <1>6 DEF Next

\* The committed height index is one chain between any two commits, and after any
\* crash, rollback, dropped batch or failed call.
THEOREM MainChainAlwaysLinked ==
    ASSUME Orderly
    PROVE  Spec => []MainChainLinked
  <1>1. OrderInv /\ [Next]_vars => OrderInv'
    BY StepOrder
  <1>2. OrderInv => MainChainLinked
    <2> SUFFICES ASSUME OrderInv PROVE MainChainLinked
      OBVIOUS
    <2>1. db \in Database /\ Sound(db)
      BY DEF OrderInv, WriterInv, TypeOK
    <2>2. Top(db) \in Nat /\ Top(db) = TipOf(db).height
      BY <2>1, TopType DEF Top
    <2>3. \A h \in 0 .. Top(db) : h > 0 => h \in 1 .. Top(db)
      BY <2>2
    <2>4. \A b \in Blocks : /\ b \in db.blocks => db.heightOf[b] \in 0 .. Top(db)
                            /\ db.heightOf[b] >= 0 => b \in db.blocks
      BY <2>1, ChainFacts
    <2> QED
      BY <2>1, <2>2, <2>3, <2>4, ChainFacts DEF MainChainLinked
  <1> QED
    BY InitOrder, <1>1, <1>2, PTL DEF Spec

\* The UTXO set is the one the committed chain defines: every output of the chain
\* is there with the height of its block and the transaction that spends it, and
\* no output of any other block is.
THEOREM UTXOAlwaysMatchesChain ==
    ASSUME Orderly
    PROVE  Spec => []UTXOMatchesChain
  <1>1. OrderInv /\ [Next]_vars => OrderInv'
    BY StepOrder
  <1>2. OrderInv => UTXOMatchesChain
    <2> SUFFICES ASSUME OrderInv, NEW t \in Txs
                 PROVE  IF Creators(t) = {} THEN db.utxo[t] = NoUTXO
                        ELSE /\ db.utxo[t] # NoUTXO
                             /\ db.utxo[t].height \in Creators(t)
                             /\ IF Spenders(t) = {} THEN db.utxo[t].spentAt = 0
                                ELSE \E h \in Spenders(t) :
                                        /\ db.utxo[t].spentAt = h
                                        /\ db.utxo[t].spentBy = SpenderIn(db.hashAt[h], t)
      BY DEF UTXOMatchesChain
    <2>1. Absent(db, t) \/ (CreatedOnce(db, t) /\ (Unspent0(db, t) \/ SpentOnce(db, t)))
      BY DEF OrderInv, Sound, Accounted
    <2>2. /\ Creators(t) = {h \in 0 .. Top(db) : t \in TxsOf[db.hashAt[h]]}
          /\ Spenders(t) = {h \in 0 .. Top(db) : t \in Inputs(db.hashAt[h])}
      BY DEF Creators, Spenders, Top
    <2>3. CASE Absent(db, t)
      BY <2>2, <2>3 DEF Absent
    <2>4. CASE CreatedOnce(db, t) /\ Unspent0(db, t)
      BY <2>2, <2>4 DEF CreatedOnce, Unspent0
    <2>5. CASE CreatedOnce(db, t) /\ SpentOnce(db, t)
      <3>1. db.utxo[t].spentAt \in Spenders(t)
        BY <2>2, <2>5 DEF SpentOnce
      <3> QED
        BY <2>2, <2>5, <3>1 DEF CreatedOnce, SpentOnce
    <2> QED
      BY <2>1, <2>3, <2>4, <2>5
  <1> QED
    BY InitOrder, <1>1, <1>2, PTL DEF Spec

\* The chain spends no output twice, although MarkUTXOSpent looks at what is
\* committed and not at the open batch, as long as no offered batch does so within
\* itself.
THEOREM ChainSpendsOnce ==
    ASSUME Orderly
    PROVE  Spec => []NoDoubleSpend
  <1>1. OrderInv /\ [Next]_vars => OrderInv'
    BY StepOrder
  <1>2. OrderInv => NoDoubleSpend
    <2> SUFFICES ASSUME OrderInv, NEW h \in 0 .. Top(db), NEW k \in 0 .. Top(db), h # k,
                        NEW t \in Inputs(db.hashAt[h]), t \in Inputs(db.hashAt[k])
                 PROVE  FALSE
      BY DEF NoDoubleSpend, Top
    <2>1. db \in Database /\ Sound(db)
      BY DEF OrderInv, WriterInv, TypeOK
    <2>2. t \in Txs
      BY <2>1, ChainFacts, TxAssumption DEF Inputs, TxAssumption
    <2>3. Absent(db, t) \/ Unspent0(db, t) \/ SpentOnce(db, t)
      BY <2>1, <2>2 DEF Sound, Accounted
    <2> QED
      BY <2>3 DEF Absent, Unspent0, SpentOnce
  <1> QED
    BY InitOrder, <1>1, <1>2, PTL DEF Spec

\* The supply records follow the chain, over disconnected heights as well.
THEOREM SupplyAlwaysFollowsChain ==
    ASSUME Orderly
    PROVE  Spec => []SupplyFollowsChain
  <1>1. OrderInv /\ [Next]_vars => OrderInv'
    BY StepOrder
  <1>2. OrderInv => SupplyFollowsChain
    BY DEF OrderInv, Sound, Supplied, SupplyFollowsChain, Top
  <1> QED
    BY InitOrder, <1>1, <1>2, PTL DEF Spec

\* Memory and the chain-state record name the same tip while nobody writes.
THEOREM TipsAlwaysAgree ==
    ASSUME Orderly
    PROVE  Spec => []TipAgreement
  <1>1. OrderInv /\ [Next]_vars => OrderInv'
    BY StepOrder
  <1>2. OrderInv => TipAgreement
    <2> SUFFICES ASSUME OrderInv, lock = NoWorker
                 PROVE  best.height = TipOf(db).height /\ best.hash \in {TipOf(db).hash, db.tip.hash}
      BY DEF TipAgreement
    <2>1. \A w \in Workers : pc[w] # "publish"
      BY LockMeansWriter DEF OrderInv, Writing
    <2> QED
      BY <2>1 DEF OrderInv, MemorySound, Top
  <1> QED
    BY InitOrder, <1>1, <1>2, PTL DEF Spec

\* blockIndex answers for no block the store lacks, so no block that is offered is
\* taken for a known one without being stored.
THEOREM BlockIndexAlwaysBacked ==
    ASSUME Orderly
    PROVE  Spec => []BlockIndexBacked
  <1>1. OrderInv /\ [Next]_vars => OrderInv'
    BY StepOrder
  <1>2. OrderInv => BlockIndexBacked
    BY DEF OrderInv, MemorySound, BlockIndexBacked
  <1> QED
    BY InitOrder, <1>1, <1>2, PTL DEF Spec

\* knownBlocks, which makes the processor skip a block, names stored blocks only.
THEOREM KnownBlocksAlwaysBacked ==
    ASSUME Orderly
    PROVE  Spec => []KnownBlocksBacked
  <1>1. OrderInv /\ [Next]_vars => OrderInv'
    BY StepOrder
  <1>2. OrderInv => KnownBlocksBacked
    BY DEF OrderInv, MemorySound, KnownBlocksBacked
  <1> QED
    BY InitOrder, <1>1, <1>2, PTL DEF Spec

-----------------------------------------------------------------------------
(* BlockChain implements Ledger.                                           *)

\* The chain of a database, as Ledger sees it.
ChainOf(d) == [i \in 1 .. Top(d) + 1 |-> d.hashAt[i - 1]]

LEMMA ChainOfFacts ==
    ASSUME NEW d \in Database, Sound(d)
    PROVE  /\ ChainOf(d) \in Seq(Blocks) /\ Len(ChainOf(d)) = Top(d) + 1 /\ Top(d) \in Nat
           /\ \A i \in 1 .. Top(d) + 1 : i - 1 \in 0 .. Top(d) /\ ChainOf(d)[i] = d.hashAt[i - 1]
  <1>1. Top(d) \in Nat
    BY TopType
  <1>2. \A i \in 1 .. Top(d) + 1 : i - 1 \in 0 .. Top(d)
    BY <1>1
  <1>3. ChainOf(d) \in [1 .. Top(d) + 1 -> Blocks]
    BY <1>2, ChainFacts DEF ChainOf
  <1>4. Top(d) + 1 \in Nat
    BY <1>1
  <1>5. \A i \in 1 .. Top(d) + 1 : ChainOf(d)[i] = d.hashAt[i - 1]
    BY DEF ChainOf
  <1>6. ChainOf(d) \in Seq(Blocks) /\ Len(ChainOf(d)) = Top(d) + 1
    BY <1>3, <1>4
  <1> QED
    BY <1>1, <1>2, <1>5, <1>6

\* The chain of a sound database is linked, and spends what it holds, once.
LEMMA ChainOfSound ==
    ASSUME NEW d \in Database, Sound(d)
    PROVE  Abstract!Linked(ChainOf(d)) /\ Abstract!Sound(ChainOf(d))
  <1> DEFINE c == ChainOf(d)
             n == Top(d) + 1
  <1>1. /\ Len(c) = n /\ n \in Nat
        /\ \A i \in 1 .. n : i - 1 \in 0 .. Top(d) /\ c[i] = d.hashAt[i - 1]
    BY ChainOfFacts
  <1>2. Abstract!Linked(c)
    <2>1. ASSUME NEW i \in 2 .. n PROVE Parent[c[i]] = c[i - 1]
      <3>1. i - 1 \in 1 .. Top(d) /\ i \in 1 .. n /\ i - 1 \in 1 .. n
        BY TopType
      <3> QED
        BY <1>1, <3>1, ChainFacts
    <2> QED
      BY <1>1, <2>1 DEF Abstract!Linked
  <1>3. ASSUME NEW i \in 1 .. n, NEW t \in Inputs(c[i])
        PROVE  t \in Txs /\ SpentOnce(d, t) /\ CreatedOnce(d, t) /\ d.utxo[t].spentAt = i - 1
    <2>1. i - 1 \in 0 .. Top(d) /\ t \in Inputs(d.hashAt[i - 1]) /\ d.hashAt[i - 1] \in Blocks
      BY <1>1, ChainFacts
    <2>2. t \in Txs
      BY <2>1, TxAssumption DEF Inputs, TxAssumption
    <2>3. SpentOnce(d, t) /\ CreatedOnce(d, t)
      BY <2>1, <2>2 DEF Sound, Accounted, Absent, Unspent0
    <2> QED
      BY <2>1, <2>2, <2>3 DEF SpentOnce
  <1>4. ASSUME NEW i \in 1 .. n
        PROVE  Abstract!Spent(c[i]) \subseteq Abstract!Created(c, i)
    <2>1. Abstract!Spent(c[i]) = Inputs(c[i])
      BY DEF Abstract!Spent, Inputs
    <2>2. ASSUME NEW t \in Inputs(c[i]) PROVE \E j \in 1 .. i : t \in TxsOf[c[j]]
      <3>1. /\ d.utxo[t].height \in 0 .. Top(d) /\ d.utxo[t].height <= i - 1
            /\ t \in TxsOf[d.hashAt[d.utxo[t].height]]
        BY <1>3 DEF SpentOnce, CreatedOnce
      <3>2. d.utxo[t].height + 1 \in 1 .. i /\ d.utxo[t].height + 1 \in 1 .. n
            /\ (d.utxo[t].height + 1) - 1 = d.utxo[t].height
        <4> DEFINE g == d.utxo[t].height
        <4>1. g \in Nat /\ g <= i - 1 /\ i \in Nat /\ i <= n /\ n \in Nat
          BY <1>1, <3>1
        <4> HIDE DEF g, n
        <4>2. g + 1 \in 1 .. i /\ g + 1 \in 1 .. n /\ (g + 1) - 1 = g
          BY <4>1
        <4> QED
          BY <4>2 DEF g
      <3>3. c[d.utxo[t].height + 1] = d.hashAt[d.utxo[t].height]
        BY <1>1, <3>2
      <3> QED
        BY <3>1, <3>2, <3>3
    <2> QED
      BY <2>1, <2>2 DEF Abstract!Created
  <1>5. ASSUME NEW i \in 1 .. n, NEW j \in 1 .. i - 1
        PROVE  Abstract!Spent(c[i]) \cap Abstract!Spent(c[j]) = {}
    <2>1. Abstract!Spent(c[i]) = Inputs(c[i]) /\ Abstract!Spent(c[j]) = Inputs(c[j])
      BY DEF Abstract!Spent, Inputs
    <2>2. j \in 1 .. n /\ i - 1 # j - 1
      BY <1>1
    <2>3. ASSUME NEW t, t \in Inputs(c[i]), t \in Inputs(c[j]) PROVE FALSE
      <3>1. d.utxo[t].spentAt = i - 1
        BY <1>3, <2>3
      <3>2. d.utxo[t].spentAt = j - 1
        BY <1>3, <2>2, <2>3
      <3> QED
        BY <2>2, <3>1, <3>2
    <2> QED
      BY <2>1, <2>3
  <1>6. Abstract!Sound(c)
    BY <1>1, <1>4, <1>5 DEF Abstract!Sound
  <1> QED
    BY <1>2, <1>6

\* The same heights and hashes are the same chain, ...
LEMMA ChainStays ==
    ASSUME NEW d, NEW e, Top(e) = Top(d), e.hashAt = d.hashAt
    PROVE  ChainOf(e) = ChainOf(d)
  BY DEF ChainOf

\* ... and a taller one that agrees with it begins with it.
LEMMA ChainBegins ==
    ASSUME NEW d \in Database, Sound(d), NEW e \in Database, Sound(e), Top(d) <= Top(e),
           \A k \in 0 .. Top(d) : e.hashAt[k] = d.hashAt[k]
    PROVE  SubSeq(ChainOf(e), 1, Top(d) + 1) = ChainOf(d)
  <1> DEFINE n == Top(d) + 1
             m == Top(e) + 1
             s == SubSeq(ChainOf(e), 1, n)
  <1>1. /\ ChainOf(d) \in Seq(Blocks) /\ Len(ChainOf(d)) = n
        /\ \A i \in 1 .. n : i - 1 \in 0 .. Top(d) /\ ChainOf(d)[i] = d.hashAt[i - 1]
    BY ChainOfFacts
  <1>2. /\ ChainOf(e) \in Seq(Blocks) /\ Len(ChainOf(e)) = m
        /\ \A i \in 1 .. m : ChainOf(e)[i] = e.hashAt[i - 1]
    BY ChainOfFacts
  <1>3. n \in Nat /\ m \in Nat /\ 1 <= n /\ n <= m /\ 1 \in 1 .. m /\ n \in 1 .. m
    BY TopType
  <1>4. s \in Seq(Blocks) /\ Len(s) = n /\ \A i \in 1 .. n : s[i] = ChainOf(e)[i]
    <2> HIDE DEF n, m
    <2>1. /\ s \in Seq(Blocks) /\ Len(s) = n - 1 + 1
          /\ \A i \in 1 .. n - 1 + 1 : s[i] = ChainOf(e)[1 + i - 1]
      BY <1>2, <1>3, SubSeqProperties
    <2>2. n - 1 + 1 = n /\ \A i \in 1 .. n : 1 + i - 1 = i
      BY <1>3
    <2> QED
      BY <2>1, <2>2
  <1>5. \A i \in 1 .. n : s[i] = ChainOf(d)[i]
    <2>1. ASSUME NEW i \in 1 .. n PROVE s[i] = ChainOf(d)[i]
      <3>1. i \in 1 .. m
        BY <1>3
      <3> QED
        BY <1>1, <1>2, <1>4, <3>1
    <2> QED
      BY <2>1
  <1>6. s \in Seq(Blocks) /\ Len(s) = Len(ChainOf(d)) /\ \A i \in 1 .. Len(s) : s[i] = ChainOf(d)[i]
    BY <1>1, <1>4, <1>5
  <1>7. ChainOf(d) \in Seq(Blocks)
    BY <1>1
  <1> HIDE DEF s
  <1>8. s = ChainOf(d)
    BY <1>6, <1>7, SeqEqual
  <1> QED
    BY <1>8 DEF s

\* Every step of BlockChain is a step of Ledger or leaves its chain alone.
LEMMA NextImplementsLedger ==
    ASSUME Orderly, OrderInv, OrderInv', [Next]_vars
    PROVE  [Abstract!Next]_Chain
  <1>1. Chain = ChainOf(db) /\ Chain' = ChainOf(db')
    BY DEF Chain, ChainOf, Top
  <1>2. /\ db \in Database /\ Sound(db) /\ db' \in Database /\ Sound(db)'
    BY DEF OrderInv, WriterInv, TypeOK
  <1>3. Sound(db')
    BY <1>2
  <1>4. ASSUME db' = db PROVE [Abstract!Next]_Chain
    BY <1>1, <1>4
  <1>5. ASSUME NEW w \in Workers, CommitBatch(w) PROVE [Abstract!Next]_Chain
    <2>1. pc[w] = "apply" /\ AllApplied(w) /\ db' = batch
      BY <1>5 DEF CommitBatch
    <2>2. /\ Len(job[w].blocks) \in Nat /\ Len(job[w].blocks) >= 1 /\ job[w].h \in Nat
          /\ BatchOK(w) /\ Top(db) = job[w].h - 1
      BY <2>1, InLoop
    <2>3. Top(db) < Top(db') /\ \A k \in 0 .. Top(db) : db'.hashAt[k] = db.hashAt[k]
      BY <2>1, <2>2 DEF BatchOK, AllApplied
    <2>4. Len(ChainOf(db')) > Len(ChainOf(db)) /\ Len(ChainOf(db)) = Top(db) + 1
          /\ Top(db) <= Top(db')
      BY <1>2, <1>3, <2>3, ChainOfFacts
    <2>5. SubSeq(ChainOf(db'), 1, Len(ChainOf(db))) = ChainOf(db)
      BY <1>2, <1>3, <2>3, <2>4, ChainBegins
    <2>6. Abstract!Linked(Chain') /\ Abstract!Sound(Chain')
      BY <1>1, <1>2, <1>3, ChainOfSound
    <2> QED
      BY <1>1, <2>4, <2>5, <2>6 DEF Abstract!Next, Abstract!Connect
  <1>6. ASSUME NEW w \in Workers, DisconnectNext(w) PROVE [Abstract!Next]_Chain
    <2>1. pc[w] = "disconnect" /\ job[w].h > job[w].target /\ db' = Disconnected(db.hashAt[job[w].h])
      BY <1>6 DEF DisconnectNext
    <2>2. job[w].h = Top(db) /\ Top(db) > 0 /\ Top(db) \in Nat
      BY <2>1, InRollback
    <2>3. Top(db') = Top(db) - 1 /\ \A k \in Heights : k # Top(db) => db'.hashAt[k] = db.hashAt[k]
      BY <1>2, <2>1, <2>2, DisconnectFacts
    <2>4. /\ Top(db') <= Top(db)
          /\ \A k \in 0 .. Top(db') : k \in Heights /\ k # Top(db)
      BY <1>2, <2>2, <2>3, TopType DEF Heights
    <2>5. SubSeq(ChainOf(db), 1, Top(db') + 1) = ChainOf(db')
      BY <1>2, <1>3, <2>3, <2>4, ChainBegins
    <2>6. Len(ChainOf(db)) > 1 /\ Len(ChainOf(db)) - 1 = Top(db') + 1
      BY <1>2, <2>2, <2>3, ChainOfFacts
    <2> QED
      BY <1>1, <2>5, <2>6 DEF Abstract!Next, Abstract!Disconnect
  <1>7. ASSUME NEW w \in Workers, FinishRollback(w) PROVE [Abstract!Next]_Chain
    <2> DEFINE tip == [height |-> job[w].target, hash |-> job[w].hash]
    <2>1. /\ pc[w] = "disconnect" /\ job[w].h = job[w].target
          /\ db' = [db EXCEPT !.tip = tip] \/ db' = db
      BY <1>7 DEF FinishRollback
    <2>2. CASE db' = db
      BY <1>4, <2>2
    <2>3. CASE db' = [db EXCEPT !.tip = tip]
      <3>1. job[w].target = Top(db) /\ job[w].hash \in Blocks
        BY <2>1, InRollback, ChainFacts
      <3>2. db'.tip = tip /\ db'.hashAt = db.hashAt
        BY <1>2, <2>3 DEF Database
      <3>3. Top(db') = Top(db)
        BY <3>1, <3>2, BlockAssumption DEF TipOf, Top, BlockAssumption
      <3> QED
        BY <1>1, <3>2, <3>3, ChainStays
    <2> QED
      BY <2>1, <2>2, <2>3
  <1>8. ASSUME NEW w \in Workers
        PROVE  /\ ~StartRecovery(w) /\ ~RecoverySetTip(w) /\ ~RecoveryDelete(w)
               /\ ~RecoveryFails(w) /\ ~RecoverySyncFails(w) /\ ~CleanOrphan(w)
    <2>1. ~CleanOrphan(w)
      <3>1. ASSUME CleanOrphan(w) PROVE FALSE
        <4>1. pc[w] = "disconnect" /\ job[w].h = job[w].target
              /\ \E b \in Blocks : db.heightOf[b] > job[w].target
          BY <3>1 DEF CleanOrphan
        <4>2. job[w].target = Top(db) /\ Top(db) \in Nat
          BY <4>1, InRollback
        <4>3. \A b \in Blocks : db.heightOf[b] = -1 \/ db.heightOf[b] \in 0 .. Top(db)
          BY <1>2, ChainFacts
        <4> QED
          BY <4>1, <4>2, <4>3
      <3> QED
        BY <3>1
    <2> QED
      BY <2>1 DEF Orderly, OrderInv, LocalSound, StartRecovery, RecoverySetTip, RecoveryDelete,
           RecoveryFails, RecoverySyncFails
  <1>9. ~(\E t \in Txs : LoseTx(t))
    BY DEF Orderly, OrderInv, WriterInv, TypeOK, LoseTx
  <1>10. ASSUME NEW w \in Workers, Step(w) PROVE [Abstract!Next]_Chain
    <2>1. CASE ApplyNext(w) \/ AbortBatch(w) \/ PublishBatch(w) \/ SyncFails(w)
      BY <1>4, <2>1 DEF ApplyNext, AbortBatch, PublishBatch, SyncFails
    <2>2. CASE LockRollback(w) \/ SkipHeight(w) \/ DisconnectFails(w)
      BY <1>4, <2>2 DEF LockRollback, SkipHeight, DisconnectFails
    <2> QED
      BY <1>5, <1>6, <1>7, <1>8, <1>10, <2>1, <2>2 DEF Step
  <1>11. CASE \E w \in Workers : \/ \E s \in Offers : StartBatch(w, s)
                                 \/ \E h \in Targets : StartRollback(w, h)
    BY <1>4, <1>11 DEF StartBatch, StartRollback
  <1>12. CASE CrashRestart
    <2>1. CASE db' = db
      BY <1>4, <2>1
    <2>2. CASE db' = [db EXCEPT !.tip = TipOf(db)]
      <3>1. db'.tip = TipOf(db) /\ db'.hashAt = db.hashAt
        BY <1>2, <2>2 DEF Database
      <3>2. Top(db') = Top(db)
        BY <3>1 DEF TipOf, Top
      <3> QED
        BY <1>1, <3>1, <3>2, ChainStays
    <2> QED
      BY <1>12, <2>1, <2>2 DEF CrashRestart
  <1>13. CASE UNCHANGED vars
    BY <1>4, <1>13 DEF vars
  <1> QED
    BY <1>8, <1>9, <1>10, <1>11, <1>12, <1>13 DEF Next

\* Readers of the height index and the chain-state record see Ledger: a chain that
\* only grows by linked blocks that spend what it holds, once, or loses its last.
THEOREM BlockChainImplementsLedger ==
    ASSUME Orderly
    PROVE  Spec => ImplementsLedger
  <1>1. Init => Abstract!Init
    <2> SUFFICES ASSUME Init PROVE Chain = <<Genesis>>
      BY DEF Abstract!Init
    <2>1. TipOf(db).height = 0 /\ db.hashAt[0] = Genesis
      BY BoundAssumption DEF Init, TipOf, Heights, BoundAssumption
    <2> QED
      BY <2>1 DEF Chain
  <1>2. OrderInv /\ [Next]_vars => OrderInv'
    BY StepOrder
  <1>3. OrderInv /\ OrderInv' /\ [Next]_vars => [Abstract!Next]_Chain
    BY NextImplementsLedger
  <1> QED
    BY <1>1, InitOrder, <1>2, <1>3, PTL DEF Spec, ImplementsLedger, Abstract!Spec

-----------------------------------------------------------------------------
(* Rollbacks on any number of goroutines.                                  *)

\* The distance of a block from genesis.
IsDepth(d) == d[Genesis] = 0 /\ \A b \in Blocks \ {Genesis} : d[b] = d[Parent[b]] + 1
Depth == CHOOSE d \in [Blocks -> Nat] : IsDepth(d)

\* On a chain of blocks from genesis no block spends an output that a later one
\* creates: a transaction hash covers the outputs the transaction spends.
NoEarlySpends ==
    \A n \in Heights : \A c \in [0 .. n -> Blocks] :
        (c[0] = Genesis /\ \A i \in 1 .. n : Parent[c[i]] = c[i - 1])
            => \A i, j \in 0 .. n : i < j => TxsOf[c[j]] \cap Inputs(c[i]) = {}

\* What agreement of memory and store rests on when rollbacks meet batches and
\* each other: batches attach at the tip, no rollback stops half way (nothing
\* fails and the process goes on), and blocks form a tree.
Steady ==
    /\ ~ForkBatches /\ ~Recoveries /\ MaxLost = 0 /\ MaxCrashes = 0 /\ Failures = {}
    /\ \E d \in [Blocks -> Nat] : IsDepth(d)
    /\ NoRepeats /\ NoEarlySpends

\* The indexes agree, every block is at the height the tree gives it, and so is
\* the tip, which need not be stored.
Filed(d) ==
    /\ d.hashAt[0] = Genesis
    /\ \A k \in Heights : d.hashAt[k] # NoBlock =>
          d.heightOf[d.hashAt[k]] = k /\ Depth[d.hashAt[k]] = k
    /\ \A b \in Blocks : d.heightOf[b] # -1 => d.hashAt[d.heightOf[b]] = b
    /\ d.blocks = {b \in Blocks : d.heightOf[b] # -1}
    /\ TipOf(d).hash \in Blocks /\ Depth[TipOf(d).hash] = Top(d)

\* Stored blocks have their transactions, and none that another one has or that
\* a lower one spends.
Distinct(d) ==
    /\ \A b \in d.blocks : \A t \in TxsOf[b] : d.txIn[t] # NoBlock
    /\ \A b, c \in d.blocks : b # c => TxsOf[b] \cap TxsOf[c] = {}
    /\ \A b, c \in d.blocks : d.heightOf[b] < d.heightOf[c] => TxsOf[c] \cap Inputs(b) = {}

\* Up to height n the height index is a chain.
ChainTo(d, n) ==
    /\ \A k \in 0 .. n : d.hashAt[k] # NoBlock
    /\ \A k \in 1 .. n : d.hashAt[k - 1] = Parent[d.hashAt[k]]

\* Between heights n and l it is empty.
EmptyFrom(d, n, l) == \A k \in n + 1 .. l : d.hashAt[k] = NoBlock

\* Up to height l it is a chain that ends somewhere, whose inputs are there.
ChainBelow(d, l) ==
    /\ \E n \in 0 .. l : ChainTo(d, n) /\ EmptyFrom(d, n, l)
    /\ \A k \in 0 .. l : d.hashAt[k] # NoBlock =>
          \A t \in Inputs(d.hashAt[k]) : d.utxo[t] # NoUTXO

\* The batch of goroutine w: it extends the chain of the store from the tip.
Extending(w) ==
    LET blocks == job[w].blocks
        h == job[w].h
        n == job[w].done
    IN  /\ Filed(batch) /\ Distinct(batch) /\ ChainBelow(batch, MaxHeight)
        /\ EmptyFrom(batch, h + n - 1, MaxHeight)
        /\ Top(batch) = h + n - 1 /\ best.height = h - 1
        /\ batch.hashAt[h - 1] = Parent[blocks[1]] /\ Parent[blocks[1]] \in Blocks
        /\ \A i \in 1 .. n : batch.hashAt[h + i - 1] = blocks[i]
        /\ n > 0 => TipOf(batch).hash = blocks[n]
        /\ \A i \in 2 .. Len(blocks) : Parent[blocks[i]] = blocks[i - 1]
        /\ db.blocks \subseteq batch.blocks

\* What a goroutine in the middle of a call may rely on: a rollback's target is
\* where the tree has it, though it may be gone, and a rollback has a chain
\* below it, whatever is left above.
LocalSteady(w) ==
    /\ pc[w] \in {"apply", "publish"} => Extending(w)
    /\ pc[w] = "publish" => batch = db /\ AllApplied(w)
    /\ pc[w] \in {"waiting", "disconnect"} =>
          job[w].hash \in Blocks /\ Depth[job[w].hash] = job[w].target
    /\ pc[w] = "disconnect" => ChainBelow(db, job[w].h)
    /\ pc[w] \notin {"recover", "delete"}

Nobody(step) == \A w \in Workers : pc[w] # step

StoreSteady ==
    /\ Filed(db) /\ Distinct(db)
    /\ Nobody("disconnect") => ChainBelow(db, MaxHeight)
    /\ Nobody("disconnect") /\ Nobody("publish") => EmptyFrom(db, best.height, MaxHeight)

MemorySteady ==
    /\ Nobody("publish") =>
          best.height = Top(db) /\ best.hash \in {TipOf(db).hash, db.tip.hash}
    /\ \A b \in Blocks : knownBlocks[b] # -1 =>
          /\ knownBlocks[b] = Depth[b]
          /\ \/ b \in db.blocks
             \/ \E w \in Workers : pc[w] = "disconnect" /\ Depth[b] > job[w].target

SteadyInv ==
    /\ WriterInv /\ StoreSteady
    /\ \A w \in Workers : LocalSteady(w)
    /\ MemorySteady

-----------------------------------------------------------------------------
(* What one write does to the indexes.                                     *)

LEMMA DepthFacts ==
    ASSUME Steady
    PROVE  /\ Depth \in [Blocks -> Nat] /\ Depth[Genesis] = 0
           /\ \A b \in Blocks \ {Genesis} : Depth[b] = Depth[Parent[b]] + 1
  <1>1. Depth \in [Blocks -> Nat] /\ IsDepth(Depth)
    BY DEF Steady, Depth
  <1> QED
    BY <1>1 DEF IsDepth

\* A block in the index is stored, and the other way round.
LEMMA FiledFacts ==
    ASSUME NEW d \in Database, Filed(d)
    PROVE  /\ \A k \in Heights : d.hashAt[k] # NoBlock =>
                 /\ d.hashAt[k] \in Blocks /\ d.hashAt[k] \in d.blocks
                 /\ d.heightOf[d.hashAt[k]] = k /\ Depth[d.hashAt[k]] = k
           /\ \A b \in d.blocks :
                 /\ b \in Blocks /\ d.heightOf[b] \in Heights /\ d.heightOf[b] = Depth[b]
                 /\ d.hashAt[d.heightOf[b]] = b /\ b # NoBlock
  <1>1. /\ d.hashAt \in [Heights -> Blocks \cup {NoBlock}]
        /\ d.heightOf \in [Blocks -> Heights \cup {-1}]
        /\ NoBlock \notin Blocks /\ Heights \subseteq Nat
    BY DatabaseParts, BlockAssumption, BoundAssumption DEF BlockAssumption, BoundAssumption, Heights
  <1>2. ASSUME NEW k \in Heights, d.hashAt[k] # NoBlock
        PROVE  /\ d.hashAt[k] \in Blocks /\ d.hashAt[k] \in d.blocks
               /\ d.heightOf[d.hashAt[k]] = k /\ Depth[d.hashAt[k]] = k
    BY <1>1, <1>2 DEF Filed
  <1>3. ASSUME NEW b \in d.blocks
        PROVE  /\ b \in Blocks /\ d.heightOf[b] \in Heights /\ d.heightOf[b] = Depth[b]
               /\ d.hashAt[d.heightOf[b]] = b /\ b # NoBlock
    <2>1. b \in Blocks /\ d.heightOf[b] # -1
      BY DEF Filed
    <2>2. d.heightOf[b] \in Heights /\ d.hashAt[d.heightOf[b]] = b /\ b # NoBlock
      BY <1>1, <2>1 DEF Filed
    <2>3. Depth[d.hashAt[d.heightOf[b]]] = d.heightOf[b]
      BY <2>2 DEF Filed
    <2> QED
      BY <2>1, <2>2, <2>3
  <1> QED
    BY <1>2, <1>3

\* A chain that has a block at height n and nothing above it ends there.
LEMMA ChainEnds ==
    ASSUME NEW d \in Database, NEW n \in Heights, ChainBelow(d, MaxHeight),
           EmptyFrom(d, n, MaxHeight), d.hashAt[n] # NoBlock
    PROVE  ChainTo(d, n)
  <1>1. PICK m \in 0 .. MaxHeight : ChainTo(d, m) /\ EmptyFrom(d, m, MaxHeight)
    BY DEF ChainBelow
  <1>2. MaxHeight \in Nat /\ n \in 0 .. MaxHeight /\ m \in 0 .. m
    BY BoundAssumption DEF BoundAssumption, Heights
  <1>3. ~(n > m)
    <2>1. n > m => n \in m + 1 .. MaxHeight
      BY <1>2
    <2> QED
      BY <1>1, <2>1 DEF EmptyFrom
  <1>4. ~(m > n)
    <2>1. m > n => m \in n + 1 .. MaxHeight
      BY <1>2
    <2>2. d.hashAt[m] # NoBlock
      BY <1>1, <1>2 DEF ChainTo
    <2> QED
      BY <2>1, <2>2 DEF EmptyFrom
  <1>5. m = n
    BY <1>2, <1>3, <1>4
  <1> QED
    BY <1>1, <1>5

\* A chain and one more block share no transaction, and the chain spends none of
\* the block's outputs.
LEMMA NextTxs ==
    ASSUME Steady, NEW d \in Database, Filed(d), NEW b \in Blocks, NEW h \in Heights, h > 0,
           ChainTo(d, h - 1), d.hashAt[h - 1] = Parent[b], NEW k \in 0 .. h - 1
    PROVE  /\ TxsOf[d.hashAt[k]] \cap TxsOf[b] = {}
           /\ TxsOf[b] \cap Inputs(d.hashAt[k]) = {}
  <1> DEFINE c == [i \in 0 .. h |-> IF i = h THEN b ELSE d.hashAt[i]]
  <1>1. h \in Nat /\ MaxHeight \in Nat /\ h <= MaxHeight
    BY BoundAssumption DEF BoundAssumption, Heights
  <1>2. \A i \in 0 .. h : i # h => i \in 0 .. h - 1 /\ i \in Heights
    BY <1>1 DEF Heights
  <1>3. c \in [0 .. h -> Blocks]
    <2>1. \A i \in 0 .. h : i # h => d.hashAt[i] \in Blocks
      BY <1>2, FiledFacts DEF ChainTo
    <2> QED
      BY <2>1
  <1>4. c[0] = Genesis
    BY <1>1 DEF Filed
  <1>5. \A i \in 1 .. h : Parent[c[i]] = c[i - 1]
    <2>1. ASSUME NEW i \in 1 .. h PROVE Parent[c[i]] = c[i - 1]
      <3>1. CASE i = h
        <4>1. c[i] = b /\ c[i - 1] = d.hashAt[h - 1]
          BY <1>1, <3>1
        <4> QED
          BY <4>1
      <3>2. CASE i # h
        <4>1. i \in 1 .. h - 1 /\ c[i] = d.hashAt[i] /\ c[i - 1] = d.hashAt[i - 1]
          BY <1>1, <3>2
        <4> QED
          BY <4>1 DEF ChainTo
      <3> QED
        BY <3>1, <3>2
    <2> QED
      BY <2>1
  <1>6. k \in 0 .. h /\ h \in 0 .. h /\ k # h /\ k < h /\ c[k] = d.hashAt[k] /\ c[h] = b
    BY <1>1
  <1> HIDE DEF c
  <1>7. TxsOf[c[k]] \cap TxsOf[c[h]] = {}
    BY <1>3, <1>4, <1>5, <1>6 DEF Steady, NoRepeats
  <1>8. TxsOf[c[h]] \cap Inputs(c[k]) = {}
    BY <1>3, <1>4, <1>5, <1>6 DEF Steady, NoEarlySpends
  <1> QED
    BY <1>6, <1>7, <1>8

\* One block more on top of a chain.
LEMMA ApplySteady ==
    ASSUME Steady, NEW d \in Database, Filed(d), Distinct(d), ChainBelow(d, MaxHeight),
           NEW b \in Blocks, NEW h \in Heights, h > 0, h > best.height,
           EmptyFrom(d, h - 1, MaxHeight), d.hashAt[h - 1] = Parent[b], Parent[b] # NoBlock,
           \A t \in Inputs(b) \ TxsOf[b] : d.utxo[t] # NoUTXO,
           NEW e \in Database, e = ApplyBlock(d, b, h)
    PROVE  /\ Filed(e) /\ Distinct(e) /\ ChainBelow(e, MaxHeight) /\ EmptyFrom(e, h, MaxHeight)
           /\ \A k \in Heights : e.hashAt[k] = IF k = h THEN b ELSE d.hashAt[k]
           /\ d.blocks \subseteq e.blocks /\ TipOf(e) = [height |-> h, hash |-> b] /\ Top(e) = h
  <1>1. /\ h \in Nat /\ MaxHeight \in Nat /\ h <= MaxHeight /\ h - 1 \in Heights /\ 0 \in Heights
        /\ NoBlock \notin Blocks
    BY BoundAssumption, BlockAssumption DEF BoundAssumption, BlockAssumption, Heights
  <1>2. /\ e.blocks = d.blocks \cup {b}
        /\ \A k \in Heights : e.hashAt[k] = IF k = h THEN b ELSE d.hashAt[k]
        /\ \A c \in Blocks : e.heightOf[c] = IF c = b THEN h ELSE d.heightOf[c]
        /\ \A t \in Txs : e.txIn[t] = IF t \in TxsOf[b] THEN b ELSE d.txIn[t]
        /\ e.utxo = AppliedUTXOs(d, b, h)
        /\ TipOf(e) = [height |-> h, hash |-> b] /\ Top(e) = h
    BY ApplyFacts
  <1>3. Depth[b] = h
    <2>1. b # Genesis
      BY BlockAssumption DEF BlockAssumption
    <2>2. Depth[Parent[b]] = h - 1
      BY <1>1 DEF Filed
    <2> QED
      BY <1>1, <2>1, <2>2, DepthFacts
  <1>4. d.hashAt[h] = NoBlock
    <2>1. h \in (h - 1) + 1 .. MaxHeight
      BY <1>1
    <2> QED
      BY <2>1 DEF EmptyFrom
  <1>5. b \notin d.blocks /\ \A k \in Heights : d.hashAt[k] # b
    BY <1>1, <1>3, <1>4, FiledFacts
  <1>6. ChainTo(d, h - 1)
    BY <1>1, ChainEnds
  <1>7. \A t \in TxsOf[b] : t \in Txs
    BY TxAssumption DEF TxAssumption
  <1>8. Filed(e)
    <2>1. e.hashAt[0] = Genesis
      BY <1>1, <1>2 DEF Filed
    <2>2. ASSUME NEW k \in Heights, e.hashAt[k] # NoBlock
          PROVE  e.heightOf[e.hashAt[k]] = k /\ Depth[e.hashAt[k]] = k
      <3>1. CASE k = h
        BY <1>2, <1>3, <3>1
      <3>2. CASE k # h
        <4>1. e.hashAt[k] = d.hashAt[k] /\ d.hashAt[k] \in Blocks /\ d.hashAt[k] # b
          BY <1>2, <1>5, <2>2, <3>2, FiledFacts
        <4> QED
          BY <1>2, <2>2, <4>1 DEF Filed
      <3> QED
        BY <3>1, <3>2
    <2>3. ASSUME NEW c \in Blocks, e.heightOf[c] # -1 PROVE e.hashAt[e.heightOf[c]] = c
      <3>1. CASE c = b
        BY <1>2, <3>1
      <3>2. CASE c # b
        <4>1. c \in d.blocks /\ e.heightOf[c] = d.heightOf[c]
          BY <1>2, <2>3, <3>2 DEF Filed
        <4>2. d.heightOf[c] \in Heights /\ d.hashAt[d.heightOf[c]] = c /\ c # NoBlock
          BY <4>1, FiledFacts
        <4> QED
          BY <1>2, <1>4, <4>1, <4>2
      <3> QED
        BY <3>1, <3>2
    <2>4. e.blocks = {c \in Blocks : e.heightOf[c] # -1}
      BY <1>1, <1>2 DEF Filed
    <2> QED
      BY <1>2, <1>3, <2>1, <2>2, <2>3, <2>4 DEF Filed
  <1>9. ASSUME NEW c \in d.blocks
        PROVE  /\ TxsOf[c] \cap TxsOf[b] = {} /\ TxsOf[b] \cap Inputs(c) = {}
               /\ d.heightOf[c] < h /\ c \in Blocks /\ c # b
    <2>1. c \in Blocks /\ d.heightOf[c] \in Heights /\ d.hashAt[d.heightOf[c]] = c /\ c # NoBlock
      BY FiledFacts
    <2>2. d.heightOf[c] \in 0 .. h - 1
      <3>1. d.heightOf[c] \in 0 .. MaxHeight
        BY <2>1 DEF Heights
      <3>2. ~(d.heightOf[c] \in (h - 1) + 1 .. MaxHeight)
        BY <2>1 DEF EmptyFrom
      <3> QED
        BY <1>1, <3>1, <3>2
    <2>3. TxsOf[c] \cap TxsOf[b] = {} /\ TxsOf[b] \cap Inputs(c) = {}
      BY <1>6, <2>1, <2>2, NextTxs
    <2> QED
      BY <1>1, <1>5, <2>1, <2>2, <2>3
  <1>10. Distinct(e)
    <2>1. ASSUME NEW c \in e.blocks, NEW t \in TxsOf[c] PROVE e.txIn[t] # NoBlock
      <3>1. c \in Blocks /\ t \in Txs
        BY <1>2, <1>9, TxAssumption DEF TxAssumption
      <3>2. CASE t \in TxsOf[b]
        BY <1>1, <1>2, <3>1, <3>2
      <3>3. CASE t \notin TxsOf[b]
        BY <1>2, <2>1, <3>1, <3>3 DEF Distinct
      <3> QED
        BY <3>2, <3>3
    <2>2. ASSUME NEW c \in e.blocks, NEW x \in e.blocks, c # x
          PROVE  TxsOf[c] \cap TxsOf[x] = {}
      BY <1>2, <1>9, <2>2 DEF Distinct
    <2>3. ASSUME NEW c \in e.blocks, NEW x \in e.blocks, e.heightOf[c] < e.heightOf[x]
          PROVE  TxsOf[x] \cap Inputs(c) = {}
      <3>1. CASE x = b /\ c # b
        BY <1>2, <1>9, <3>1
      <3>2. CASE x # b /\ c # b
        BY <1>2, <1>9, <2>3, <3>2 DEF Distinct
      <3>3. CASE c = b
        <4>1. x # b /\ x \in d.blocks
          BY <1>1, <1>2, <2>3, <3>3
        <4>2. e.heightOf[x] < h /\ e.heightOf[c] = h
          BY <1>2, <1>9, <3>3, <4>1
        <4>3. e.heightOf[x] \in Heights
          BY <1>2, <1>9, <4>1, FiledFacts
        <4> QED
          BY <1>1, <2>3, <4>2, <4>3 DEF Heights
      <3> QED
        BY <3>1, <3>2, <3>3
    <2> QED
      BY <2>1, <2>2, <2>3 DEF Distinct
  <1>11. EmptyFrom(e, h, MaxHeight)
    <2>1. ASSUME NEW k \in h + 1 .. MaxHeight PROVE e.hashAt[k] = NoBlock
      <3>1. k \in (h - 1) + 1 .. MaxHeight /\ k \in Heights /\ k # h
        BY <1>1 DEF Heights
      <3> QED
        BY <1>2, <3>1 DEF EmptyFrom
    <2> QED
      BY <2>1 DEF EmptyFrom
  <1>12. ChainTo(e, h)
    <2>1. ASSUME NEW k \in 0 .. h PROVE e.hashAt[k] # NoBlock
      <3>1. k \in Heights /\ (k # h => k \in 0 .. h - 1)
        BY <1>1 DEF Heights
      <3> QED
        BY <1>1, <1>2, <1>6, <3>1 DEF ChainTo
    <2>2. ASSUME NEW k \in 1 .. h PROVE e.hashAt[k - 1] = Parent[e.hashAt[k]]
      <3>1. /\ k \in Heights /\ k - 1 \in Heights /\ k - 1 # h
            /\ k # h => k \in 1 .. h - 1
        BY <1>1 DEF Heights
      <3> QED
        BY <1>2, <1>6, <3>1 DEF ChainTo
    <2> QED
      BY <2>1, <2>2 DEF ChainTo
  <1>13. ASSUME NEW k \in 0 .. MaxHeight, e.hashAt[k] # NoBlock, NEW t \in Inputs(e.hashAt[k])
         PROVE  e.utxo[t] # NoUTXO
    <2>1. /\ k \in Heights /\ e.hashAt[k] \in Blocks
          /\ d.utxo \in [Txs -> UTXOData \cup {NoUTXO}]
      BY <1>8, <1>13, FiledFacts, DatabaseParts DEF Heights
    <2>2. t \in Txs
      BY <2>1, TxAssumption DEF TxAssumption, Inputs
    <2>3. t \in TxsOf[b] \/ d.utxo[t] # NoUTXO
      <3>1. CASE k = h
        BY <1>2, <2>1, <3>1
      <3>2. CASE k # h
        BY <1>2, <1>13, <2>1, <3>2 DEF ChainBelow
      <3> QED
        BY <3>1, <3>2
    <2>4. SpenderIn(b, t) \in Txs \cup {NoTx} /\ NoUTXO \notin UTXOData
      BY SpenderInType, SentinelAssumption DEF SentinelAssumption
    <2>5. CASE t \in TxsOf[b]
      <3>1. e.utxo[t] = [height |-> h, spentAt |-> IF t \in Inputs(b) THEN h ELSE 0,
                         spentBy |-> SpenderIn(b, t)]
        BY <1>2, <2>2, <2>5 DEF AppliedUTXOs
      <3>2. e.utxo[t] \in UTXOData
        BY <1>1, <2>4, <3>1 DEF UTXOData
      <3> QED
        BY <2>4, <3>2
    <2>6. CASE t \notin TxsOf[b]
      <3>1. d.utxo[t] \in UTXOData
        BY <2>1, <2>2, <2>3, <2>6
      <3>2. e.utxo[t] = IF t \in Inputs(b)
                        THEN [d.utxo[t] EXCEPT !.spentAt = h, !.spentBy = SpenderIn(b, t)]
                        ELSE d.utxo[t]
        BY <1>2, <2>2, <2>6 DEF AppliedUTXOs
      <3>3. e.utxo[t] \in UTXOData
        BY <2>4, <3>1, <3>2 DEF UTXOData
      <3> QED
        BY <2>4, <3>3
    <2> QED
      BY <2>5, <2>6
  <1>14. ChainBelow(e, MaxHeight)
    <2>1. h \in 0 .. MaxHeight
      BY DEF Heights
    <2> QED
      BY <1>11, <1>12, <1>13, <2>1 DEF ChainBelow
  <1> QED
    BY <1>2, <1>8, <1>10, <1>11, <1>14

\* A chain up to a height is one up to every lower height.
LEMMA ChainShorter ==
    ASSUME NEW d \in Database, NEW l \in Heights, ChainBelow(d, l), NEW m \in 0 .. l
    PROVE  ChainBelow(d, m)
  <1>1. l \in Nat /\ m \in Nat /\ m <= l
    BY BoundAssumption DEF BoundAssumption, Heights
  <1>2. PICK n \in 0 .. l : ChainTo(d, n) /\ EmptyFrom(d, n, l)
    BY DEF ChainBelow
  <1>3. \A k \in 0 .. m : k \in 0 .. l
    BY <1>1
  <1>4. \E i \in 0 .. m : ChainTo(d, i) /\ EmptyFrom(d, i, m)
    <2>1. CASE n <= m
      <3>1. n \in 0 .. m /\ \A k \in n + 1 .. m : k \in n + 1 .. l
        BY <1>1, <1>2, <2>1
      <3> QED
        BY <1>2, <3>1 DEF EmptyFrom
    <2>2. CASE ~(n <= m)
      <3>1. /\ m \in 0 .. m /\ \A k \in 0 .. m : k \in 0 .. n
            /\ \A k \in 1 .. m : k \in 1 .. n
            /\ \A k \in m + 1 .. m : FALSE
        BY <1>1, <1>2, <2>2
      <3>2. ChainTo(d, m) /\ EmptyFrom(d, m, m)
        BY <1>2, <3>1 DEF ChainTo, EmptyFrom
      <3> QED
        BY <3>1, <3>2
    <2> QED
      BY <2>1, <2>2
  <1> QED
    BY <1>2, <1>3, <1>4 DEF ChainBelow

\* The empty end of a chain can be dropped.
LEMMA ChainSkip ==
    ASSUME NEW d \in Database, NEW l \in Heights, l > 0, ChainBelow(d, l)
    PROVE  ChainBelow(d, l - 1)
  <1>1. l - 1 \in 0 .. l
    BY BoundAssumption DEF BoundAssumption, Heights
  <1> QED
    BY <1>1, ChainShorter

\* A stored block is taken out at a height that nothing below rests on.
LEMMA RemoveSteady ==
    ASSUME NEW d \in Database, Filed(d), Distinct(d), NEW b \in d.blocks, d.heightOf[b] > 0,
           NEW e, e.blocks = d.blocks \ {b},
           \A k \in Heights : e.hashAt[k] = IF k = d.heightOf[b] THEN NoBlock ELSE d.hashAt[k],
           \A c \in Blocks : e.heightOf[c] = IF c = b THEN -1 ELSE d.heightOf[c],
           \A t \in Txs \ TxsOf[b] : e.txIn[t] = d.txIn[t],
           \A t \in Txs \ TxsOf[b] : d.utxo[t] # NoUTXO => e.utxo[t] # NoUTXO,
           TipOf(e).hash \in Blocks, Depth[TipOf(e).hash] = Top(e),
           NEW l \in 0 .. d.heightOf[b] - 1, ChainBelow(d, l)
    PROVE  Filed(e) /\ Distinct(e) /\ ChainBelow(e, l)
  <1> DEFINE h == d.heightOf[b]
  <1>1. /\ h \in Heights /\ h \in Nat /\ d.hashAt[h] = b /\ b \in Blocks /\ 0 \in Heights
        /\ NoBlock \notin Blocks /\ MaxHeight \in Nat
    <2>1. MaxHeight \in Nat /\ 0 \in Heights /\ \A k \in Heights : k \in Nat
      BY BoundAssumption DEF BoundAssumption, Heights
    <2>2. h \in Heights /\ d.hashAt[h] = b /\ b \in Blocks
      BY FiledFacts
    <2>3. NoBlock \notin Blocks
      BY BlockAssumption DEF BlockAssumption
    <2> QED
      BY <2>1, <2>2, <2>3
  <1>2. \A c \in d.blocks : c \in Blocks /\ d.heightOf[c] \in Heights
                            /\ d.hashAt[d.heightOf[c]] = c
    BY FiledFacts
  <1>3. Filed(e)
    <2>1. e.hashAt[0] = Genesis
      BY <1>1 DEF Filed
    <2>2. ASSUME NEW k \in Heights, e.hashAt[k] # NoBlock
          PROVE  e.heightOf[e.hashAt[k]] = k /\ Depth[e.hashAt[k]] = k
      <3>1. k # h /\ e.hashAt[k] = d.hashAt[k]
        BY <2>2
      <3>2. d.hashAt[k] \in Blocks /\ d.heightOf[d.hashAt[k]] = k /\ Depth[d.hashAt[k]] = k
        BY <2>2, <3>1, FiledFacts
      <3> QED
        BY <3>1, <3>2
    <2>3. ASSUME NEW c \in Blocks, e.heightOf[c] # -1 PROVE e.hashAt[e.heightOf[c]] = c
      <3>1. c # b /\ e.heightOf[c] = d.heightOf[c]
        BY <2>3
      <3>2. c \in d.blocks
        BY <2>3, <3>1 DEF Filed
      <3>3. d.heightOf[c] # h
        BY <1>1, <1>2, <3>1, <3>2
      <3> QED
        BY <1>2, <3>1, <3>2, <3>3
    <2>4. e.blocks = {c \in Blocks : e.heightOf[c] # -1}
      BY <1>1 DEF Filed
    <2> QED
      BY <2>1, <2>2, <2>3, <2>4 DEF Filed
  <1>4. Distinct(e)
    <2>1. ASSUME NEW c \in e.blocks, NEW t \in TxsOf[c] PROVE e.txIn[t] # NoBlock
      <3>1. c \in d.blocks /\ c # b /\ t \in Txs
        BY <1>2, TxAssumption DEF TxAssumption
      <3>2. t \notin TxsOf[b]
        BY <3>1 DEF Distinct
      <3> QED
        BY <3>1, <3>2 DEF Distinct
    <2>2. \A c, x \in e.blocks : c # x => TxsOf[c] \cap TxsOf[x] = {}
      BY DEF Distinct
    <2>3. \A c, x \in e.blocks : e.heightOf[c] < e.heightOf[x] => TxsOf[x] \cap Inputs(c) = {}
      BY <1>2 DEF Distinct
    <2> QED
      BY <2>1, <2>2, <2>3 DEF Distinct
  <1>5. \A k \in 0 .. l : k \in Heights /\ k # h /\ k < h /\ e.hashAt[k] = d.hashAt[k]
    <2>1. \A k \in 0 .. l : k \in Heights /\ k # h /\ k < h
      BY <1>1 DEF Heights
    <2> QED
      BY <2>1
  <1>6. \E n \in 0 .. l : ChainTo(e, n) /\ EmptyFrom(e, n, l)
    <2>1. PICK n \in 0 .. l : ChainTo(d, n) /\ EmptyFrom(d, n, l)
      BY DEF ChainBelow
    <2>2. /\ \A k \in 0 .. n : k \in 0 .. l
          /\ \A k \in 1 .. n : k \in 0 .. l /\ k - 1 \in 0 .. l
          /\ \A k \in n + 1 .. l : k \in 0 .. l
      BY <1>1
    <2>3. ChainTo(e, n) /\ EmptyFrom(e, n, l)
      BY <1>5, <2>1, <2>2 DEF ChainTo, EmptyFrom
    <2> QED
      BY <2>3
  <1>7. ASSUME NEW k \in 0 .. l, e.hashAt[k] # NoBlock, NEW t \in Inputs(e.hashAt[k])
        PROVE  e.utxo[t] # NoUTXO
    <2>1. /\ d.hashAt[k] \in d.blocks /\ d.hashAt[k] \in Blocks /\ d.heightOf[d.hashAt[k]] = k
          /\ e.hashAt[k] = d.hashAt[k] /\ k < h
      BY <1>5, <1>7, FiledFacts
    <2>2. t \notin TxsOf[b]
      BY <1>7, <2>1 DEF Distinct
    <2>3. t \in Txs
      BY <1>7, <2>1, TxAssumption DEF TxAssumption, Inputs
    <2>4. d.utxo[t] # NoUTXO
      BY <1>7, <2>1 DEF ChainBelow
    <2> QED
      BY <2>2, <2>3, <2>4
  <1> QED
    BY <1>3, <1>4, <1>6, <1>7 DEF ChainBelow

\* A cleared spending reference is still a record.
LEMMA UnspentStays ==
    ASSUME db \in Database, NEW t \in Txs, db.utxo[t] # NoUTXO
    PROVE  Unspent(db.utxo[t]) # NoUTXO
  <1>1. db.utxo[t] \in UTXOData
    BY DatabaseParts
  <1>2. Unspent(db.utxo[t]) \in UTXOData
    BY <1>1, UnspentType
  <1> QED
    BY <1>2, SentinelAssumption DEF SentinelAssumption

\* disconnectBlock on the end of the chain that a rollback has reached.
LEMMA DisconnectSteady ==
    ASSUME db \in Database, Filed(db), Distinct(db), NEW l \in Heights, l > 0,
           ChainBelow(db, l), NEW b, b = db.hashAt[l], b # NoBlock,
           NEW e, e = Disconnected(b)
    PROVE  /\ b \in Blocks /\ b \in db.blocks /\ db.heightOf[b] = l /\ Depth[b] = l
           /\ Parent[b] \in db.blocks /\ Parent[b] \in Blocks
           /\ Filed(e) /\ Distinct(e) /\ ChainBelow(e, l - 1) /\ e.blocks = db.blocks \ {b}
           /\ TipOf(e) = [height |-> l - 1, hash |-> Parent[b]] /\ e.tip = TipOf(e)
  <1>1. /\ l \in Nat /\ l - 1 \in Heights /\ l - 1 \in 0 .. l /\ l \in 0 .. l
        /\ NoBlock \notin Blocks
    BY BoundAssumption, BlockAssumption DEF BoundAssumption, BlockAssumption, Heights
  <1>2. b \in Blocks /\ b \in db.blocks /\ db.heightOf[b] = l /\ Depth[b] = l
    BY FiledFacts
  <1>3. PICK n \in 0 .. l : ChainTo(db, n) /\ EmptyFrom(db, n, l)
    BY DEF ChainBelow
  <1>4. n = l
    <2>1. n < l => l \in n + 1 .. l
      BY <1>1, <1>3
    <2> QED
      BY <1>1, <1>3, <2>1 DEF EmptyFrom
  <1>5. l \in 1 .. n /\ l - 1 \in 0 .. n
    BY <1>1, <1>4
  <1>6. db.hashAt[l - 1] = Parent[b] /\ Parent[b] # NoBlock
    BY <1>3, <1>5 DEF ChainTo
  <1>7. Parent[b] \in db.blocks /\ Parent[b] \in Blocks /\ Depth[Parent[b]] = l - 1
    BY <1>1, <1>6, FiledFacts
  <1>8. /\ db.hashAt \in [Heights -> Blocks \cup {NoBlock}]
        /\ db.heightOf \in [Blocks -> Heights \cup {-1}]
    BY DatabaseParts
  <1>9. /\ e.blocks = db.blocks \ {b}
        /\ e.hashAt = [db.hashAt EXCEPT ![l] = NoBlock]
        /\ e.heightOf = [db.heightOf EXCEPT ![b] = -1]
        /\ e.txIn = DeletedTxs(b) /\ e.utxo = RestoredUTXOs(b)
        /\ e.tip = [height |-> l - 1, hash |-> Parent[b]]
    BY <1>2 DEF Disconnected, WithoutBlock, Database
  <1>10. TipOf(e) = [height |-> l - 1, hash |-> Parent[b]] /\ e.tip = TipOf(e)
         /\ TipOf(e).hash \in Blocks /\ Depth[TipOf(e).hash] = Top(e)
    BY <1>1, <1>7, <1>9 DEF TipOf, Top
  <1>11. \A t \in Txs \ TxsOf[b] : e.txIn[t] = db.txIn[t]
    BY <1>9 DEF DeletedTxs
  <1>12. \A t \in Txs \ TxsOf[b] : db.utxo[t] # NoUTXO => e.utxo[t] # NoUTXO
    BY <1>9, UnspentStays DEF RestoredUTXOs
  <1>13. ChainBelow(db, l - 1)
    BY ChainSkip
  <1>14. l - 1 \in 0 .. db.heightOf[b] - 1 /\ db.heightOf[b] > 0
    BY <1>1, <1>2
  <1>15. Filed(e) /\ Distinct(e) /\ ChainBelow(e, l - 1)
    <2>1. /\ \A k \in Heights : e.hashAt[k] = IF k = db.heightOf[b] THEN NoBlock ELSE db.hashAt[k]
          /\ \A c \in Blocks : e.heightOf[c] = IF c = b THEN -1 ELSE db.heightOf[c]
      BY <1>2, <1>8, <1>9
    <2>2. PICK m \in 0 .. db.heightOf[b] - 1 : m = l - 1
      BY <1>14
    <2>3. ChainBelow(db, m) /\ db.heightOf[b] > 0 /\ b \in db.blocks
      BY <1>2, <1>13, <1>14, <2>2
    <2>4. e.blocks = db.blocks \ {b} /\ TipOf(e).hash \in Blocks /\ Depth[TipOf(e).hash] = Top(e)
      BY <1>9, <1>10
    <2>5. Filed(e) /\ Distinct(e) /\ ChainBelow(e, m)
      BY <1>11, <1>12, <2>1, <2>3, <2>4, RemoveSteady
    <2> QED
      BY <2>2, <2>5
  <1> QED
    BY <1>2, <1>7, <1>9, <1>10, <1>15

\* deleteOrphanedBlock above the height that a rollback has reached.
LEMMA OrphanSteady ==
    ASSUME db \in Database, Filed(db), Distinct(db), NEW l \in Heights, ChainBelow(db, l),
           NEW b \in Blocks, db.heightOf[b] > l, NEW e, e = OrphanDeleted(b)
    PROVE  /\ b \in db.blocks /\ Depth[b] = db.heightOf[b]
           /\ Filed(e) /\ Distinct(e) /\ ChainBelow(e, l) /\ e.blocks = db.blocks \ {b}
           /\ e.tip = db.tip
  <1>1. l \in Nat /\ NoBlock \notin Blocks
    BY BoundAssumption, BlockAssumption DEF BoundAssumption, BlockAssumption, Heights
  <1>2. /\ db.hashAt \in [Heights -> Blocks \cup {NoBlock}]
        /\ db.heightOf \in [Blocks -> Heights \cup {-1}]
    BY DatabaseParts
  <1>3. b \in db.blocks
    BY <1>1 DEF Filed
  <1>4. /\ db.heightOf[b] \in Heights /\ db.heightOf[b] \in Nat /\ Depth[b] = db.heightOf[b]
        /\ db.hashAt[db.heightOf[b]] = b
    BY <1>3, FiledFacts, BoundAssumption DEF BoundAssumption, Heights
  <1>5. /\ e.blocks = db.blocks \ {b}
        /\ e.hashAt = [db.hashAt EXCEPT ![db.heightOf[b]] = NoBlock]
        /\ e.heightOf = [db.heightOf EXCEPT ![b] = -1]
        /\ e.txIn = [t \in Txs |-> IF Readable(b) /\ t \in TxsOf[b]
                                   THEN NoBlock ELSE db.txIn[t]]
        /\ e.utxo = OrphanUTXOs(b) /\ e.tip = db.tip
    BY <1>4 DEF OrphanDeleted, Database
  <1>6. TipOf(e).hash \in Blocks /\ Depth[TipOf(e).hash] = Top(e)
    BY <1>5 DEF Filed, TipOf, Top
  <1>7. \A t \in Txs \ TxsOf[b] : e.txIn[t] = db.txIn[t]
    BY <1>5
  <1>8. \A t \in Txs \ TxsOf[b] : db.utxo[t] # NoUTXO => e.utxo[t] # NoUTXO
    BY <1>5, UnspentStays DEF OrphanUTXOs
  <1>9. l \in 0 .. db.heightOf[b] - 1 /\ db.heightOf[b] > 0
    BY <1>1, <1>4
  <1>10. Filed(e) /\ Distinct(e) /\ ChainBelow(e, l)
    <2>1. /\ \A k \in Heights : e.hashAt[k] = IF k = db.heightOf[b] THEN NoBlock ELSE db.hashAt[k]
          /\ \A c \in Blocks : e.heightOf[c] = IF c = b THEN -1 ELSE db.heightOf[c]
      BY <1>2, <1>4, <1>5
    <2> QED
      BY <1>3, <1>5, <1>6, <1>7, <1>8, <1>9, <2>1, RemoveSteady
  <1> QED
    BY <1>3, <1>4, <1>5, <1>10

\* The chain-state record is set to a block at its height, above which nothing
\* is left.
LEMMA TipSteady ==
    ASSUME db \in Database, Filed(db), Distinct(db), NEW l \in Heights, ChainBelow(db, l),
           \A b \in Blocks : db.heightOf[b] <= l, NEW x \in Blocks, Depth[x] = l,
           NEW e, e = [db EXCEPT !.tip = [height |-> l, hash |-> x]]
    PROVE  /\ Filed(e) /\ Distinct(e) /\ ChainBelow(e, MaxHeight) /\ EmptyFrom(e, l, MaxHeight)
           /\ e.blocks = db.blocks /\ e.tip = [height |-> l, hash |-> x]
           /\ TipOf(e) = [height |-> l, hash |-> x]
  <1>1. l \in Nat /\ MaxHeight \in Nat /\ NoBlock \notin Blocks /\ l <= MaxHeight
    BY BoundAssumption, BlockAssumption DEF BoundAssumption, BlockAssumption, Heights
  <1>2. /\ e.blocks = db.blocks /\ e.hashAt = db.hashAt /\ e.heightOf = db.heightOf
        /\ e.txIn = db.txIn /\ e.utxo = db.utxo /\ e.tip = [height |-> l, hash |-> x]
    BY DEF Database
  <1>3. TipOf(e) = [height |-> l, hash |-> x] /\ Top(e) = l
    BY <1>1, <1>2 DEF TipOf, Top
  <1>4. Filed(e)
    BY <1>2, <1>3 DEF Filed
  <1>5. Distinct(e)
    BY <1>2 DEF Distinct
  <1>6. \A k \in l + 1 .. MaxHeight : k \in Heights /\ db.hashAt[k] = NoBlock
    <2>1. ASSUME NEW k \in l + 1 .. MaxHeight PROVE k \in Heights /\ db.hashAt[k] = NoBlock
      <3>1. k \in Heights /\ k > l
        BY <1>1 DEF Heights
      <3>2. db.hashAt[k] # NoBlock => db.hashAt[k] \in Blocks /\ db.heightOf[db.hashAt[k]] = k
        BY <3>1, FiledFacts
      <3> QED
        BY <1>1, <3>1, <3>2
    <2> QED
      BY <2>1
  <1>7. PICK n \in 0 .. l : ChainTo(db, n) /\ EmptyFrom(db, n, l)
    BY DEF ChainBelow
  <1>8. /\ n \in 0 .. MaxHeight
        /\ \A k \in n + 1 .. MaxHeight : k \in n + 1 .. l \/ k \in l + 1 .. MaxHeight
        /\ \A k \in 0 .. MaxHeight : k \in 0 .. l \/ k \in l + 1 .. MaxHeight
    BY <1>1, <1>7
  <1>9. ChainTo(e, n) /\ EmptyFrom(e, n, MaxHeight)
    BY <1>2, <1>6, <1>7, <1>8 DEF ChainTo, EmptyFrom
  <1>10. \A k \in 0 .. MaxHeight : e.hashAt[k] # NoBlock =>
            \A t \in Inputs(e.hashAt[k]) : e.utxo[t] # NoUTXO
    BY <1>2, <1>6, <1>8 DEF ChainBelow
  <1>11. EmptyFrom(e, l, MaxHeight)
    BY <1>2, <1>6 DEF EmptyFrom
  <1> QED
    BY <1>2, <1>3, <1>4, <1>5, <1>8, <1>9, <1>10, <1>11 DEF ChainBelow

-----------------------------------------------------------------------------
(* Memory and store under every step.                                      *)

\* While w writes, or nobody does, the others are idle or wait for the lock.
LEMMA OthersWait ==
    ASSUME SteadyInv, NEW w \in Workers, pc[w] \in Writing \/ lock = NoWorker,
           NEW v \in Workers, v # w
    PROVE  pc[v] \in {"idle", "waiting"}
  <1>1. pc[v] \notin Writing
    BY LockMeansWriter DEF SteadyInv
  <1>2. pc[v] \in {"idle", "apply", "publish", "waiting", "disconnect", "recover", "delete"}
    BY DEF SteadyInv, WriterInv, TypeOK
  <1> QED
    BY <1>1, <1>2 DEF SteadyInv, LocalSteady, Writing

\* While nobody writes the store holds one chain up to the tip in memory.
LEMMA FreeSteady ==
    ASSUME SteadyInv, lock = NoWorker
    PROVE  /\ Nobody("apply") /\ Nobody("publish") /\ Nobody("disconnect")
           /\ db \in Database /\ Filed(db) /\ Distinct(db) /\ ChainBelow(db, MaxHeight)
           /\ EmptyFrom(db, best.height, MaxHeight) /\ best.height = Top(db)
           /\ best.height \in Heights
  <1>1. Nobody("apply") /\ Nobody("publish") /\ Nobody("disconnect")
    BY LockMeansWriter DEF SteadyInv, Nobody, Writing
  <1> QED
    BY <1>1 DEF SteadyInv, StoreSteady, MemorySteady, WriterInv, TypeOK, ChainState

\* An idle or waiting goroutine rests on nothing that another one can change.
LEMMA WaiterSteady ==
    ASSUME NEW v \in Workers, LocalSteady(v), pc[v] \in {"idle", "waiting"},
           pc'[v] = pc[v], job'[v] = job[v]
    PROVE  LocalSteady(v)'
  BY DEF LocalSteady

\* A step of w is judged by its own locals, the store and the memory.
LEMMA MovedSteady ==
    ASSUME SteadyInv, WriterInv', NEW w \in Workers, pc[w] \in Writing \/ lock = NoWorker,
           \A v \in Workers : v # w => pc'[v] = pc[v] /\ job'[v] = job[v],
           LocalSteady(w)', StoreSteady', MemorySteady'
    PROVE  SteadyInv'
  <1>1. ASSUME NEW v \in Workers, v # w PROVE LocalSteady(v)'
    <2>1. pc[v] \in {"idle", "waiting"} /\ LocalSteady(v)
      BY <1>1, OthersWait DEF SteadyInv
    <2> QED
      BY <1>1, <2>1, WaiterSteady
  <1> QED
    BY <1>1 DEF SteadyInv

\* After a return nobody writes.
LEMMA AfterReturn ==
    ASSUME SteadyInv, NEW w \in Workers, pc[w] \in Writing, Return(w)
    PROVE  /\ pc'[w] = "idle" /\ LocalSteady(w)'
           /\ \A v \in Workers : v # w => pc'[v] = pc[v] /\ job'[v] = job[v]
           /\ Nobody("publish")' /\ Nobody("disconnect")'
  <1>1. /\ pc'[w] = "idle"
        /\ \A v \in Workers : v # w => pc'[v] = pc[v] /\ job'[v] = job[v]
    BY DEF Return, SteadyInv, WriterInv, TypeOK
  <1>2. LocalSteady(w)'
    BY <1>1 DEF LocalSteady
  <1>3. \A v \in Workers : pc'[v] \in {"idle", "waiting"}
    BY <1>1, OthersWait
  <1> QED
    BY <1>1, <1>2, <1>3 DEF Nobody

\* A call that returns.
LEMMA ReturnSteady ==
    ASSUME SteadyInv, WriterInv', NEW w \in Workers, pc[w] \in Writing, Return(w),
           Filed(db'), Distinct(db'), ChainBelow(db', MaxHeight),
           EmptyFrom(db', best'.height, MaxHeight), best'.height = Top(db'),
           best'.hash \in {TipOf(db').hash, db'.tip.hash},
           \A b \in Blocks : knownBlocks'[b] # -1 =>
                knownBlocks'[b] = Depth[b] /\ b \in db'.blocks
    PROVE  SteadyInv'
  <1>1. /\ pc'[w] = "idle" /\ LocalSteady(w)'
        /\ \A v \in Workers : v # w => pc'[v] = pc[v] /\ job'[v] = job[v]
        /\ Nobody("publish")' /\ Nobody("disconnect")'
    BY AfterReturn
  <1>2. StoreSteady'
    BY <1>1 DEF StoreSteady
  <1>3. MemorySteady'
    BY <1>1 DEF MemorySteady
  <1> QED
    BY <1>1, <1>2, <1>3, MovedSteady

\* A fresh node satisfies the invariant.
LEMMA InitSteady ==
    ASSUME Steady, Init
    PROVE  SteadyInv
  <1>1. /\ MaxHeight \in Nat /\ 0 \in Heights /\ 0 \in 0 .. MaxHeight
        /\ Genesis \in Blocks /\ NoBlock \notin Blocks /\ Depth[Genesis] = 0
    BY DepthFacts, BoundAssumption, BlockAssumption
    DEF BoundAssumption, BlockAssumption, Heights
  <1>2. /\ db.blocks = {Genesis}
        /\ \A k \in Heights : db.hashAt[k] = IF k = 0 THEN Genesis ELSE NoBlock
        /\ \A b \in Blocks : db.heightOf[b] = IF b = Genesis THEN 0 ELSE -1
        /\ \A t \in Txs : t \in TxsOf[Genesis] => db.txIn[t] = Genesis
        /\ db.tip.hash = NoBlock /\ TipOf(db) = [height |-> 0, hash |-> Genesis] /\ Top(db) = 0
        /\ best = [height |-> 0, hash |-> NoBlock]
        /\ \A w \in Workers : pc[w] = "idle"
        /\ \A b \in Blocks : knownBlocks[b] = IF b = Genesis THEN 0 ELSE -1
    BY DEF Init, TipOf, Top
  <1>3. Filed(db)
    BY <1>1, <1>2 DEF Filed
  <1>4. Distinct(db)
    BY <1>1, <1>2, TxAssumption DEF Distinct, TxAssumption
  <1>5. EmptyFrom(db, 0, MaxHeight)
    BY <1>1, <1>2 DEF EmptyFrom, Heights
  <1>6. ChainBelow(db, MaxHeight)
    <2>1. ChainTo(db, 0)
      BY <1>1, <1>2 DEF ChainTo
    <2>2. Inputs(Genesis) = {}
      BY TxAssumption DEF Inputs, TxAssumption
    <2>3. \A k \in 0 .. MaxHeight : db.hashAt[k] # NoBlock => db.hashAt[k] = Genesis
      BY <1>2 DEF Heights
    <2> QED
      BY <1>1, <1>5, <2>1, <2>2, <2>3 DEF ChainBelow
  <1>7. \A w \in Workers : LocalSteady(w)
    BY <1>2 DEF LocalSteady
  <1>8. StoreSteady
    BY <1>2, <1>3, <1>4, <1>5, <1>6 DEF StoreSteady
  <1>9. MemorySteady
    BY <1>1, <1>2 DEF MemorySteady
  <1> QED
    BY <1>7, <1>8, <1>9, InitWriter DEF SteadyInv

\* A batch is opened on the tip.
LEMMA StartBatchSteady ==
    ASSUME Steady, SteadyInv, WriterInv', NEW w \in Workers, NEW s \in Offers, StartBatch(w, s)
    PROVE  SteadyInv'
  <1>1. /\ pc[w] = "idle" /\ lock = NoWorker /\ batch' = db
        /\ pc' = [pc EXCEPT ![w] = "apply"]
        /\ UNCHANGED <<db, best, blockIndex, knownBlocks>>
    BY DEF StartBatch, mem
  <1>2. PICK blocks \in NewBlocks(s) :
          LET h == db.heightOf[Parent[blocks[1]]] + 1
          IN  /\ PreValidateBatch(blocks) /\ h > 0 /\ HeightAdvances(blocks, h)
              /\ ForkBatches \/ Len(blocks) = 1 \/ Parent[blocks[1]] = TipOf(db).hash
              /\ job' = [job EXCEPT ![w] = [NoJob EXCEPT !.blocks = blocks, !.h = h]]
    BY DEF StartBatch
  <1> DEFINE x == Parent[blocks[1]]
             h == db.heightOf[x] + 1
  <1>3. blocks \in Seq(Blocks) /\ Len(blocks) \in Nat /\ Len(blocks) >= 1
    BY NewBlocksType
  <1>4. /\ Nobody("apply") /\ Nobody("publish") /\ Nobody("disconnect")
        /\ db \in Database /\ Filed(db) /\ Distinct(db) /\ ChainBelow(db, MaxHeight)
        /\ EmptyFrom(db, best.height, MaxHeight) /\ best.height = Top(db)
        /\ best.height \in Heights
    BY <1>1, FreeSteady
  <1>5. x \in Blocks
    <2>1. blocks[1] \in Blocks
      BY <1>3
    <2> QED
      BY <1>2, <1>4, <2>1, DatabaseParts, BlockAssumption
      DEF PreValidateBatch, HasBlock, SteadyInv, WriterInv, TypeOK, BlockAssumption
  <1>6. /\ x \in db.blocks /\ db.heightOf[x] \in Heights /\ db.hashAt[db.heightOf[x]] = x
        /\ db.heightOf[x] = Depth[x] /\ x # NoBlock
    <2>1. db.heightOf[x] # -1
      BY <1>2
    <2>2. x \in db.blocks
      BY <1>4, <1>5, <2>1 DEF Filed
    <2> QED
      BY <1>4, <2>2, FiledFacts
  <1>7. db.heightOf[x] = best.height
    <2>1. db.heightOf[x] \in Nat /\ best.height \in Nat /\ db.heightOf[x] <= MaxHeight
      BY <1>4, <1>6, BoundAssumption DEF BoundAssumption, Heights
    <2>2. CASE Len(blocks) = 1
      <3>1. db.heightOf[x] >= best.height
        BY <1>2, <2>1, <2>2 DEF HeightAdvances
      <3>2. ~(db.heightOf[x] \in best.height + 1 .. MaxHeight)
        BY <1>4, <1>6 DEF EmptyFrom
      <3> QED
        BY <2>1, <3>1, <3>2, BoundAssumption DEF BoundAssumption
    <2>3. CASE Len(blocks) # 1
      <3>1. x = TipOf(db).hash
        BY <1>2, <2>3 DEF Steady
      <3> QED
        BY <1>4, <1>6, <3>1 DEF Filed
    <2> QED
      BY <2>2, <2>3
  <1>8. /\ job'[w].blocks = blocks /\ job'[w].h = h /\ job'[w].done = 0 /\ pc'[w] = "apply"
        /\ \A v \in Workers : v # w => pc'[v] = pc[v] /\ job'[v] = job[v]
    BY <1>1, <1>2 DEF SteadyInv, WriterInv, TypeOK, NoJob
  <1>9. /\ h - 1 = best.height /\ h + 0 - 1 = best.height /\ \A i \in 1 .. 0 : FALSE
        /\ ~(0 > 0) /\ \A i \in 2 .. Len(blocks) : Parent[blocks[i]] = blocks[i - 1]
    <2>1. best.height \in Nat
      BY <1>4, BoundAssumption DEF BoundAssumption, Heights
    <2> QED
      BY <1>2, <1>7, <2>1 DEF PreValidateBatch
  <1> HIDE DEF h
  <1>10. db.hashAt[h - 1] = x
    BY <1>6, <1>7, <1>9
  <1> HIDE DEF x
  <1>11. Extending(w)'
    BY <1>1, <1>4, <1>5, <1>8, <1>9, <1>10 DEF Extending, x
  <1>12. LocalSteady(w)'
    BY <1>8, <1>11 DEF LocalSteady
  <1>13. StoreSteady'
    BY <1>1, <1>4 DEF StoreSteady
  <1>14. MemorySteady'
    <2>1. \A v \in Workers : pc[v] # "disconnect"
      BY <1>4 DEF Nobody
    <2> QED
      BY <1>1, <1>4, <2>1 DEF SteadyInv, MemorySteady
  <1> QED
    BY <1>1, <1>8, <1>12, <1>13, <1>14, MovedSteady

\* What a goroutine in the middle of a batch knows.
LEMMA InBatch ==
    ASSUME SteadyInv, NEW w \in Workers, pc[w] \in {"apply", "publish"}
    PROVE  /\ job[w] \in Job /\ job[w].blocks \in Seq(Blocks) /\ Len(job[w].blocks) \in Nat
           /\ Len(job[w].blocks) >= 1 /\ job[w].done \in Nat
           /\ job[w].done <= Len(job[w].blocks) /\ job[w].h \in Nat /\ job[w].h >= 1
           /\ job[w].h + Len(job[w].blocks) - 1 <= MaxHeight /\ MaxHeight \in Nat
           /\ db \in Database /\ batch \in Database /\ Filed(db) /\ Distinct(db)
           /\ ChainBelow(db, MaxHeight) /\ Extending(w)
           /\ Nobody("disconnect") /\ (pc[w] = "apply" => Nobody("publish"))
  <1>1. job[w] \in Job /\ LocalsOK(w) /\ LocalSteady(w) /\ batch \in Database /\ db \in Database
    BY LockMeansWriter DEF SteadyInv, WriterInv, TypeOK
  <1>2. \A v \in Workers : v # w => pc[v] \in {"idle", "waiting"}
    BY OthersWait DEF Writing
  <1>3. Nobody("disconnect") /\ (pc[w] = "apply" => Nobody("publish"))
    BY <1>2 DEF Nobody
  <1> QED
    BY <1>1, <1>3, BoundAssumption
    DEF Job, LocalsOK, LocalSteady, Heights, BoundAssumption, SteadyInv, StoreSteady

\* One turn of the batch loop.
LEMMA ApplyNextSteady ==
    ASSUME Steady, SteadyInv, WriterInv', NEW w \in Workers, ApplyNext(w)
    PROVE  SteadyInv'
  <1> DEFINE b == NextBlock(w)
             h == NextHeight(w)
             blocks == job[w].blocks
             n == job[w].done
  <1>1. /\ pc[w] = "apply" /\ ~AllApplied(w) /\ InputsSpendable(b, h)
        /\ batch' = ApplyBlock(batch, b, h)
        /\ job' = [job EXCEPT ![w].done = n + 1]
        /\ UNCHANGED <<db, best, blockIndex, knownBlocks, pc>>
    BY DEF ApplyNext, mem
  <1>2. /\ blocks \in Seq(Blocks) /\ Len(blocks) \in Nat /\ n \in Nat /\ n + 1 \in 1 .. Len(blocks)
        /\ job[w].h \in Nat /\ job[w].h >= 1 /\ MaxHeight \in Nat
        /\ job[w].h + Len(blocks) - 1 <= MaxHeight
        /\ db \in Database /\ batch \in Database /\ Extending(w)
        /\ Nobody("disconnect") /\ Nobody("publish")
    BY <1>1, InBatch DEF AllApplied
  <1>3. b \in Blocks /\ b = blocks[n + 1]
    BY <1>2 DEF NextBlock
  <1>4. /\ h = job[w].h + n /\ h \in Heights /\ h > 0 /\ h > best.height /\ h - 1 = job[w].h + n - 1
        /\ h \in Nat
    <2>1. best.height = job[w].h - 1
      BY <1>2 DEF Extending
    <2>2. h = job[w].h + n
      BY DEF NextHeight
    <2> HIDE DEF n, h, blocks
    <2>3. n \in Nat /\ n < Len(blocks) /\ Len(blocks) \in Nat
      BY <1>2
    <2>4. job[w].h \in Nat /\ MaxHeight \in Nat /\ job[w].h >= 1
          /\ job[w].h + Len(blocks) - 1 <= MaxHeight
      BY <1>2
    <2>a. h \in Nat /\ h > job[w].h - 1 /\ h - 1 = job[w].h + n - 1
      BY <2>2, <2>3, <2>4
    <2>b. h <= MaxHeight
      BY <2>2, <2>3, <2>4
    <2>5. h \in Nat /\ h <= MaxHeight /\ h > job[w].h - 1 /\ h - 1 = job[w].h + n - 1
      BY <2>a, <2>b
    <2>6. h \in Heights
      BY <2>4, <2>5 DEF Heights
    <2>7. h > 0 /\ h > best.height
      BY <2>1, <2>4, <2>5
    <2> QED
      BY <2>2, <2>5, <2>6, <2>7
  <1>5. batch.hashAt[h - 1] = Parent[b] /\ Parent[b] # NoBlock
    <2>1. CASE n = 0
      BY <1>2, <1>3, <1>4, <2>1, BlockAssumption DEF Extending, BlockAssumption
    <2>2. CASE n # 0
      <3>1. n + 1 \in 2 .. Len(blocks) /\ n \in 1 .. n /\ (n + 1) - 1 = n
        BY <1>2, <2>2
      <3>2. Parent[blocks[n + 1]] = blocks[n]
        BY <1>2, <3>1 DEF Extending
      <3>3. n \in 1 .. Len(blocks)
        BY <1>2, <2>2
      <3>4. blocks[n] \in Blocks
        BY <1>2, <3>3
      <3>5. batch.hashAt[job[w].h + n - 1] = blocks[n]
        BY <1>2, <3>1 DEF Extending
      <3> QED
        BY <1>3, <1>4, <3>2, <3>5, <3>4, BlockAssumption DEF BlockAssumption
    <2> QED
      BY <2>1, <2>2
  <1>6. \A t \in Inputs(b) \ TxsOf[b] : batch.utxo[t] # NoUTXO
    BY <1>1 DEF InputsSpendable, CanSpend
  <1> HIDE DEF b, h, n, blocks
  <1>7. batch' \in Database
    BY <1>1, <1>2, <1>3, <1>4, <1>6, ApplyBlockType
  <1>8. /\ Filed(batch) /\ Distinct(batch) /\ ChainBelow(batch, MaxHeight)
        /\ EmptyFrom(batch, h - 1, MaxHeight)
    BY <1>2, <1>4 DEF Extending, n
  <1>9. /\ Filed(batch') /\ Distinct(batch') /\ ChainBelow(batch', MaxHeight)
        /\ EmptyFrom(batch', h, MaxHeight)
        /\ \A k \in Heights : batch'.hashAt[k] = IF k = h THEN b ELSE batch.hashAt[k]
        /\ batch.blocks \subseteq batch'.blocks /\ TipOf(batch') = [height |-> h, hash |-> b]
        /\ Top(batch') = h
    <2>1. batch \in Database /\ batch' = ApplyBlock(batch, b, h)
      BY <1>1, <1>2
    <2>2. b \in Blocks /\ h \in Heights /\ h > 0 /\ h > best.height
      BY <1>3, <1>4
    <2> QED
      BY <1>5, <1>6, <1>7, <1>8, <2>1, <2>2, ApplySteady
  <1>10. /\ job'[w].blocks = blocks /\ job'[w].h = job[w].h /\ job'[w].done = n + 1
         /\ pc'[w] = "apply" /\ \A v \in Workers : v # w => pc'[v] = pc[v] /\ job'[v] = job[v]
    BY <1>1 DEF SteadyInv, WriterInv, TypeOK, Job, n, blocks
  <1>11. Extending(w)'
    <2>1. job[w].h + (n + 1) - 1 = h
      BY <1>2, <1>4
    <2>2. \A i \in 1 .. n + 1 : batch'.hashAt[job[w].h + i - 1] = blocks[i]
      <3>1. ASSUME NEW i \in 1 .. n + 1 PROVE batch'.hashAt[job[w].h + i - 1] = blocks[i]
        <4>1. CASE i = n + 1
          <5>1. job[w].h + i - 1 = h
            BY <1>2, <1>4, <4>1
          <5> QED
            BY <1>3, <1>4, <1>9, <4>1, <5>1
        <4>2. CASE i \in 1 .. n
          <5>1. i <= n /\ i >= 1 /\ i \in Nat /\ n \in Nat
            BY <1>2, <4>2
          <5>2. /\ job[w].h \in Nat /\ job[w].h >= 1 /\ h - 1 = job[w].h + n - 1
                /\ h <= MaxHeight /\ h \in Nat /\ MaxHeight \in Nat
            BY <1>2, <1>4 DEF Heights
          <5>3. job[w].h + i - 1 <= h - 1 /\ job[w].h + i - 1 >= 0 /\ h <= MaxHeight
                /\ h \in Nat /\ i \in Nat /\ job[w].h \in Nat /\ MaxHeight \in Nat
            BY <5>1, <5>2
          <5>4. job[w].h + i - 1 \in Heights /\ job[w].h + i - 1 # h
            BY <5>3 DEF Heights
          <5> QED
            BY <1>2, <1>9, <4>2, <5>4 DEF Extending, n, blocks
        <4> QED
          BY <1>2, <4>1, <4>2
      <3> QED
        BY <3>1
    <2>3. batch'.hashAt[job[w].h - 1] = Parent[blocks[1]] /\ Parent[blocks[1]] \in Blocks
      <3>1. job[w].h - 1 <= h - 1 /\ job[w].h - 1 >= 0 /\ h <= MaxHeight /\ h \in Nat
            /\ job[w].h \in Nat /\ MaxHeight \in Nat
        BY <1>2, <1>4 DEF Heights
      <3>2. job[w].h - 1 \in Heights /\ job[w].h - 1 # h
        BY <3>1 DEF Heights
      <3> QED
        BY <1>2, <1>9, <3>2 DEF Extending, n, blocks
    <2>4. /\ best'.height = job[w].h - 1 /\ db'.blocks \subseteq batch'.blocks
          /\ \A i \in 2 .. Len(blocks) : Parent[blocks[i]] = blocks[i - 1]
      BY <1>1, <1>2, <1>9 DEF Extending, n, blocks
    <2>5. EmptyFrom(batch', job[w].h + (n + 1) - 1, MaxHeight)
          /\ Top(batch') = job[w].h + (n + 1) - 1 /\ TipOf(batch').hash = blocks[n + 1]
      BY <1>3, <1>9, <2>1
    <2> QED
      BY <1>9, <1>10, <2>2, <2>3, <2>4, <2>5 DEF Extending
  <1>12. LocalSteady(w)'
    BY <1>10, <1>11 DEF LocalSteady
  <1>13. StoreSteady'
    BY <1>1 DEF SteadyInv, StoreSteady, Nobody
  <1>14. MemorySteady'
    <2>1. \A v \in Workers : pc[v] # "disconnect"
      BY <1>2 DEF Nobody
    <2> QED
      BY <1>1, <2>1 DEF SteadyInv, MemorySteady, Nobody
  <1> QED
    BY <1>1, <1>10, <1>12, <1>13, <1>14, MovedSteady DEF Writing

\* A batch that is dropped, committed or published.
LEMMA BatchEndSteady ==
    ASSUME Steady, SteadyInv, WriterInv', NEW w \in Workers,
           AbortBatch(w) \/ SyncFails(w) \/ CommitBatch(w) \/ PublishBatch(w)
    PROVE  SteadyInv'
  <1>1. ~SyncFails(w)
    BY DEF Steady, SyncFails
  <1>2. \A b \in Blocks : pc[w] \in {"apply", "publish"} /\ knownBlocks[b] # -1
            => knownBlocks[b] = Depth[b] /\ b \in db.blocks
    BY InBatch DEF SteadyInv, MemorySteady, Nobody
  <1>3. CASE AbortBatch(w)
    <2>1. /\ pc[w] = "apply" /\ Return(w)
          /\ UNCHANGED <<db, best, blockIndex, knownBlocks>>
      BY <1>3 DEF AbortBatch, mem
    <2>2. /\ Filed(db) /\ Distinct(db) /\ ChainBelow(db, MaxHeight)
          /\ Nobody("disconnect") /\ Nobody("publish")
      BY <2>1, InBatch
    <2>3. /\ EmptyFrom(db, best.height, MaxHeight) /\ best.height = Top(db)
          /\ best.hash \in {TipOf(db).hash, db.tip.hash}
      BY <2>2 DEF SteadyInv, StoreSteady, MemorySteady
    <2> QED
      BY <1>2, <2>1, <2>2, <2>3, ReturnSteady DEF Writing
  <1>4. CASE CommitBatch(w)
    <2>1. /\ pc[w] = "apply" /\ AllApplied(w) /\ db' = batch
          /\ pc' = [pc EXCEPT ![w] = "publish"]
          /\ UNCHANGED <<batch, best, blockIndex, knownBlocks, job>>
      BY <1>4 DEF CommitBatch, mem
    <2>2. Extending(w) /\ Nobody("disconnect")
      BY <2>1, InBatch
    <2>3. pc'[w] = "publish" /\ \A v \in Workers : v # w => pc'[v] = pc[v] /\ job'[v] = job[v]
      BY <2>1 DEF SteadyInv, WriterInv, TypeOK
    <2>4. Extending(w)'
      BY <2>1, <2>2 DEF Extending
    <2>5. LocalSteady(w)'
      BY <2>1, <2>3, <2>4 DEF LocalSteady, AllApplied
    <2>6. StoreSteady'
      <3>1. ~Nobody("publish")'
        BY <2>3 DEF Nobody
      <3> QED
        BY <2>1, <2>2, <3>1 DEF StoreSteady, Extending
    <2>7. MemorySteady'
      <3>1. ~Nobody("publish")'
        BY <2>3 DEF Nobody
      <3>2. db.blocks \subseteq batch.blocks
        BY <2>2 DEF Extending
      <3> QED
        BY <1>2, <2>1, <3>1, <3>2 DEF MemorySteady
    <2> QED
      BY <2>1, <2>3, <2>5, <2>6, <2>7, MovedSteady DEF Writing
  <1>5. CASE PublishBatch(w)
    <2> DEFINE blocks == job[w].blocks
               h == job[w].h
               n == Len(blocks)
               new == {blocks[i] : i \in 1 .. n}
               heightIn(b) == h + (CHOOSE i \in 1 .. n : blocks[i] = b) - 1
    <2>1. /\ pc[w] = "publish" /\ Return(w) /\ db' = db
          /\ best' = IF h + n - 1 > best.height
                     THEN [height |-> h + n - 1, hash |-> blocks[n]] ELSE best
          /\ \A b \in Blocks : knownBlocks'[b] = IF b \in new THEN heightIn(b) ELSE knownBlocks[b]
      BY <1>5 DEF PublishBatch
    <2>2. /\ n \in Nat /\ n >= 1 /\ h \in Nat /\ h >= 1
          /\ h + n - 1 <= MaxHeight /\ MaxHeight \in Nat
          /\ db \in Database /\ Filed(db) /\ Distinct(db) /\ ChainBelow(db, MaxHeight)
          /\ Extending(w)
      BY <2>1, InBatch
    <2>3. batch = db /\ AllApplied(w)
      BY <2>1 DEF SteadyInv, LocalSteady
    <2>4. /\ Top(db) = h + n - 1 /\ best.height = h - 1 /\ TipOf(db).hash = blocks[n]
          /\ EmptyFrom(db, h + n - 1, MaxHeight)
          /\ \A i \in 1 .. n : db.hashAt[h + i - 1] = blocks[i]
      BY <2>2, <2>3 DEF Extending, AllApplied
    <2>5. \A i \in 1 .. n : /\ blocks[i] \in Blocks /\ blocks[i] \in db.blocks
                            /\ Depth[blocks[i]] = h + i - 1
      <3>1. ASSUME NEW i \in 1 .. n
            PROVE  /\ blocks[i] \in Blocks /\ blocks[i] \in db.blocks
                   /\ Depth[blocks[i]] = h + i - 1
        <4>1. blocks[i] \in Blocks /\ blocks[i] # NoBlock
          BY <2>1, InBatch, BlockAssumption DEF BlockAssumption
        <4>2. h + i - 1 \in Heights
          BY <2>2 DEF Heights
        <4>3. db.hashAt[h + i - 1] = blocks[i]
          BY <2>4
        <4> DEFINE k == h + i - 1
        <4> HIDE DEF k
        <4>4. k \in Heights /\ db.hashAt[k] = blocks[i] /\ db.hashAt[k] # NoBlock
          BY <4>1, <4>2, <4>3 DEF k
        <4>5. db.hashAt[k] \in db.blocks /\ Depth[db.hashAt[k]] = k
          BY <2>2, <4>4, FiledFacts
        <4> QED
          BY <4>1, <4>4, <4>5 DEF k
      <3> QED
        BY <3>1
    <2>6. \A b \in Blocks : knownBlocks'[b] # -1 => knownBlocks'[b] = Depth[b] /\ b \in db'.blocks
      <3>1. ASSUME NEW b \in Blocks, knownBlocks'[b] # -1
            PROVE  knownBlocks'[b] = Depth[b] /\ b \in db'.blocks
        <4>1. CASE b \in new
          <5>1. (CHOOSE i \in 1 .. n : blocks[i] = b) \in 1 .. n
                /\ blocks[CHOOSE i \in 1 .. n : blocks[i] = b] = b
            BY <4>1
          <5> QED
            BY <2>1, <2>5, <4>1, <5>1
        <4>2. CASE b \notin new
          BY <1>2, <2>1, <3>1, <4>2
        <4> QED
          BY <4>1, <4>2
      <3> QED
        BY <3>1
    <2>7. best' = [height |-> h + n - 1, hash |-> blocks[n]]
      <3> HIDE DEF h, n, blocks
      <3> QED
        BY <2>1, <2>2, <2>4
    <2>8. /\ EmptyFrom(db', best'.height, MaxHeight) /\ best'.height = Top(db')
          /\ best'.hash \in {TipOf(db').hash, db'.tip.hash}
      BY <2>1, <2>4, <2>7
    <2> QED
      BY <2>1, <2>2, <2>6, <2>8, ReturnSteady DEF Writing
  <1> QED
    BY <1>1, <1>3, <1>4, <1>5

\* The start of a rollback: its unlocked reads, and the lock.  Whatever a batch
\* or another rollback has done to the target since, the tree has it at its
\* height.
LEMMA RollbackStartSteady ==
    ASSUME Steady, SteadyInv, WriterInv', NEW w \in Workers,
           (\E target \in Targets : StartRollback(w, target)) \/ LockRollback(w)
    PROVE  SteadyInv'
  <1>1. CASE \E target \in Targets : StartRollback(w, target)
    <2>1. PICK target \in Targets : StartRollback(w, target)
      BY <1>1
    <2>2. /\ pc[w] = "idle" /\ BlockAtHeight(target) # NoBlock
          /\ pc' = [pc EXCEPT ![w] = "waiting"]
          /\ job' = [job EXCEPT ![w] = [NoJob EXCEPT !.h = best.height, !.target = target,
                                                     !.hash = BlockAtHeight(target)]]
          /\ UNCHANGED <<db, batch, best, blockIndex, knownBlocks>>
      BY <2>1 DEF StartRollback, mem
    <2>3. /\ job'[w].target = target /\ job'[w].hash = BlockAtHeight(target)
          /\ pc'[w] = "waiting"
          /\ \A v \in Workers : v # w => pc'[v] = pc[v] /\ job'[v] = job[v]
      BY <2>2 DEF SteadyInv, WriterInv, TypeOK, NoJob
    <2>4. target \in Heights /\ db \in Database /\ Filed(db)
      BY BoundAssumption DEF BoundAssumption, SteadyInv, StoreSteady, WriterInv, TypeOK
    <2>5. batch # NoBatch => batch \in Database /\ Filed(batch)
      <3>1. ASSUME batch # NoBatch PROVE batch \in Database /\ Filed(batch)
        <4>1. PICK v \in Workers : pc[v] \in {"apply", "publish"}
          BY <3>1 DEF SteadyInv, WriterInv, SingleWriter
        <4> QED
          BY <4>1, InBatch DEF Extending
      <3> QED
        BY <3>1
    <2>6. BlockAtHeight(target) \in Blocks /\ Depth[BlockAtHeight(target)] = target
      <3>1. CASE batch # NoBatch /\ batch.hashAt[target] # db.hashAt[target]
        <4>1. BlockAtHeight(target) = batch.hashAt[target]
          BY <3>1 DEF BlockAtHeight
        <4> QED
          BY <2>2, <2>4, <2>5, <3>1, <4>1, FiledFacts
      <3>2. CASE ~(batch # NoBatch /\ batch.hashAt[target] # db.hashAt[target])
        <4>1. BlockAtHeight(target) = db.hashAt[target]
          BY <2>2, <3>2 DEF BlockAtHeight
        <4> QED
          BY <2>2, <2>4, <4>1, FiledFacts
      <3> QED
        BY <3>1, <3>2
    <2>7. LocalSteady(w)'
      BY <2>3, <2>6 DEF LocalSteady
    <2>8. ASSUME NEW v \in Workers PROVE LocalSteady(v)'
      <3>1. CASE v = w
        BY <2>7, <3>1
      <3>2. CASE v # w
        BY <2>2, <2>3, <3>2 DEF SteadyInv, LocalSteady, Extending, AllApplied
      <3> QED
        BY <3>1, <3>2
    <2>9. /\ Nobody("publish")' <=> Nobody("publish")
          /\ Nobody("disconnect")' <=> Nobody("disconnect")
      BY <2>2, <2>3 DEF Nobody
    <2>10. StoreSteady'
      BY <2>2, <2>9 DEF SteadyInv, StoreSteady
    <2>11. MemorySteady'
      <3>1. \A v \in Workers : pc[v] = "disconnect" =>
               pc'[v] = "disconnect" /\ job'[v].target = job[v].target
        BY <2>2, <2>3
      <3> QED
        BY <2>2, <2>9, <3>1 DEF SteadyInv, MemorySteady
    <2> QED
      BY <2>8, <2>10, <2>11 DEF SteadyInv
  <1>2. CASE LockRollback(w)
    <2>1. /\ pc[w] = "waiting" /\ lock = NoWorker
          /\ pc' = [pc EXCEPT ![w] = "disconnect"]
          /\ UNCHANGED <<db, batch, best, blockIndex, knownBlocks, job>>
      BY <1>2 DEF LockRollback, mem
    <2>2. /\ pc'[w] = "disconnect"
          /\ \A v \in Workers : v # w => pc'[v] = pc[v] /\ job'[v] = job[v]
      BY <2>1 DEF SteadyInv, WriterInv, TypeOK
    <2>3. /\ Nobody("publish") /\ Nobody("disconnect") /\ db \in Database
          /\ Filed(db) /\ Distinct(db) /\ ChainBelow(db, MaxHeight)
      BY <2>1, FreeSteady
    <2>4. ChainBelow(db, job[w].h)
      <3>1. job[w].h \in 0 .. MaxHeight /\ MaxHeight \in Heights
        BY BoundAssumption DEF BoundAssumption, SteadyInv, WriterInv, TypeOK, Job, Heights
      <3> QED
        BY <2>3, <3>1, ChainShorter
    <2>5. LocalSteady(w)'
      BY <2>1, <2>2, <2>4 DEF SteadyInv, LocalSteady
    <2>6. Nobody("publish")' /\ ~Nobody("disconnect")'
      BY <2>2, <2>3 DEF Nobody
    <2>7. StoreSteady'
      BY <2>1, <2>3, <2>6 DEF StoreSteady
    <2>8. MemorySteady'
      BY <2>1, <2>3 DEF SteadyInv, MemorySteady, Nobody
    <2> QED
      BY <2>1, <2>2, <2>5, <2>7, <2>8, MovedSteady
  <1> QED
    BY <1>1, <1>2

\* What a goroutine in the middle of a rollback knows.
LEMMA InSteadyRollback ==
    ASSUME SteadyInv, NEW w \in Workers, pc[w] = "disconnect"
    PROVE  /\ db \in Database /\ Filed(db) /\ Distinct(db) /\ ChainBelow(db, job[w].h)
           /\ job[w] \in Job /\ job[w].h \in Heights /\ job[w].target \in Heights
           /\ job[w].h \in Nat /\ job[w].target \in Nat /\ MaxHeight \in Nat
           /\ job[w].hash \in Blocks /\ Depth[job[w].hash] = job[w].target
           /\ best.height = Top(db) /\ best.hash \in {TipOf(db).hash, db.tip.hash}
           /\ \A b \in Blocks : knownBlocks[b] # -1 =>
                 /\ knownBlocks[b] = Depth[b]
                 /\ b \in db.blocks \/ Depth[b] > job[w].target
           /\ ~Nobody("disconnect")
  <1>1. \A v \in Workers : v # w => pc[v] \in {"idle", "waiting"}
    BY OthersWait DEF Writing
  <1>2. Nobody("publish") /\ ~Nobody("disconnect")
    BY <1>1 DEF Nobody
  <1>3. /\ job[w] \in Job /\ job[w].h \in Heights /\ job[w].target \in Heights
        /\ job[w].h \in Nat /\ job[w].target \in Nat /\ MaxHeight \in Nat
    <2>1. job[w] \in Job
      BY DEF SteadyInv, WriterInv, TypeOK
    <2>2. job[w].h \in Heights /\ job[w].target \in Heights
      BY <2>1 DEF Job
    <2> QED
      BY <2>1, <2>2, BoundAssumption DEF BoundAssumption, Heights
  <1>4. db \in Database /\ Filed(db) /\ Distinct(db)
    BY DEF SteadyInv, StoreSteady, WriterInv, TypeOK
  <1>5. /\ ChainBelow(db, job[w].h) /\ job[w].hash \in Blocks
        /\ Depth[job[w].hash] = job[w].target
    BY DEF SteadyInv, LocalSteady
  <1>6. /\ best.height = Top(db) /\ best.hash \in {TipOf(db).hash, db.tip.hash}
        /\ \A b \in Blocks : knownBlocks[b] # -1 =>
              /\ knownBlocks[b] = Depth[b]
              /\ b \in db.blocks \/ Depth[b] > job[w].target
    BY <1>1, <1>2 DEF SteadyInv, MemorySteady
  <1> QED
    BY <1>2, <1>3, <1>4, <1>5, <1>6

\* A rollback goes on.
LEMMA RollbackSteady ==
    ASSUME SteadyInv, WriterInv', NEW w \in Workers, pc[w] = "disconnect", pc' = pc,
           \A v \in Workers : v # w => job'[v] = job[v],
           job'[w].target = job[w].target, job'[w].hash = job[w].hash,
           Filed(db'), Distinct(db'), ChainBelow(db', job'[w].h),
           best'.height = Top(db'), best'.hash \in {TipOf(db').hash, db'.tip.hash},
           \A b \in Blocks : knownBlocks'[b] # -1 =>
                 /\ knownBlocks'[b] = Depth[b]
                 /\ b \in db'.blocks \/ Depth[b] > job[w].target
    PROVE  SteadyInv'
  <1>1. LocalSteady(w)'
    BY DEF SteadyInv, LocalSteady
  <1>2. ~Nobody("disconnect")'
    BY DEF Nobody
  <1>3. StoreSteady'
    BY <1>2 DEF StoreSteady
  <1>4. MemorySteady'
    BY DEF MemorySteady
  <1> QED
    BY <1>1, <1>3, <1>4, MovedSteady DEF Writing

\* The loop of a rollback: it skips only heights that hold nothing, and it never
\* returns early.
LEMMA DisconnectStepSteady ==
    ASSUME Steady, SteadyInv, WriterInv', NEW w \in Workers,
           SkipHeight(w) \/ DisconnectFails(w) \/ DisconnectNext(w)
    PROVE  SteadyInv'
  <1> DEFINE l == job[w].h
             b == db.hashAt[l]
  <1>1. pc[w] = "disconnect" /\ l > job[w].target
    BY DEF SkipHeight, DisconnectFails, DisconnectNext
  <1>2. /\ db \in Database /\ Filed(db) /\ Distinct(db) /\ ChainBelow(db, l)
        /\ job[w] \in Job /\ l \in Heights /\ l \in Nat /\ l > 0 /\ job[w].target \in Nat
        /\ best.height = Top(db) /\ best.hash \in {TipOf(db).hash, db.tip.hash}
        /\ \A c \in Blocks : knownBlocks[c] # -1 =>
              /\ knownBlocks[c] = Depth[c]
              /\ c \in db.blocks \/ Depth[c] > job[w].target
    BY <1>1, InSteadyRollback
  <1>3. b # NoBlock => /\ b \in Blocks /\ b \in db.blocks /\ db.heightOf[b] = l
                       /\ Readable(b) /\ \A t \in Inputs(b) : db.utxo[t] # NoUTXO
    <2>1. ASSUME b # NoBlock
          PROVE  /\ b \in Blocks /\ b \in db.blocks /\ db.heightOf[b] = l
                 /\ Readable(b) /\ \A t \in Inputs(b) : db.utxo[t] # NoUTXO
      <3>1. b \in Blocks /\ b \in db.blocks /\ db.heightOf[b] = l
        BY <1>2, <2>1, FiledFacts
      <3>2. l \in 0 .. l
        BY <1>2
      <3> QED
        BY <1>2, <2>1, <3>1, <3>2 DEF Distinct, Readable, ChainBelow
    <2> QED
      BY <2>1
  <1>4. ~DisconnectFails(w)
    <2>1. l # -1
      BY <1>2
    <2> QED
      BY <1>3, <2>1 DEF DisconnectFails, Steady
  <1>5. job' = [job EXCEPT ![w].h = l - 1] =>
          /\ \A v \in Workers : v # w => job'[v] = job[v]
          /\ job'[w].h = l - 1 /\ job'[w].target = job[w].target /\ job'[w].hash = job[w].hash
    BY <1>2 DEF SteadyInv, WriterInv, TypeOK, Job
  <1>6. CASE SkipHeight(w)
    <2>1. /\ job' = [job EXCEPT ![w].h = l - 1]
          /\ UNCHANGED <<db, best, blockIndex, knownBlocks, pc>>
      BY <1>6 DEF SkipHeight, mem
    <2>2. ChainBelow(db, l - 1)
      BY <1>2, ChainSkip
    <2>3. ChainBelow(db', job'[w].h)
      BY <1>5, <2>1, <2>2
    <2> HIDE DEF l, b
    <2> QED
      BY <1>1, <1>2, <1>5, <2>1, <2>3, RollbackSteady
  <1>7. CASE DisconnectNext(w)
    <2>1. /\ b # NoBlock /\ db' = Disconnected(b)
          /\ IF Readable(Parent[b])
             THEN /\ best' = [height |-> db.heightOf[b] - 1, hash |-> Parent[b]]
                  /\ Forget(b)
                  /\ job' = [job EXCEPT ![w].h = l - 1]
                  /\ UNCHANGED pc
             ELSE TRUE
      BY <1>7 DEF DisconnectNext
    <2>2. b = db.hashAt[l]
      OBVIOUS
    <2> HIDE DEF b, l
    <2>3. /\ b \in Blocks /\ b \in db.blocks /\ db.heightOf[b] = l /\ Depth[b] = l
          /\ Parent[b] \in db.blocks /\ Parent[b] \in Blocks
          /\ Filed(db') /\ Distinct(db') /\ ChainBelow(db', l - 1) /\ db'.blocks = db.blocks \ {b}
          /\ TipOf(db') = [height |-> l - 1, hash |-> Parent[b]] /\ db'.tip = TipOf(db')
      BY <1>2, <2>1, <2>2, DisconnectSteady
    <2>4. Readable(Parent[b])
      BY <1>2, <2>3 DEF Readable, Distinct
    <2>5. /\ best' = [height |-> l - 1, hash |-> Parent[b]]
          /\ knownBlocks' = [knownBlocks EXCEPT ![b] = -1]
          /\ job' = [job EXCEPT ![w].h = l - 1] /\ pc' = pc
      BY <2>1, <2>3, <2>4 DEF Forget
    <2>6. best'.height = Top(db') /\ best'.hash \in {TipOf(db').hash, db'.tip.hash}
      BY <2>3, <2>5 DEF Top
    <2>7. ChainBelow(db', job'[w].h)
      BY <1>5, <2>3, <2>5
    <2>8. \A c \in Blocks : knownBlocks'[c] # -1 =>
              /\ knownBlocks'[c] = Depth[c]
              /\ c \in db'.blocks \/ Depth[c] > job[w].target
      BY <1>2, <2>3, <2>5 DEF SteadyInv, WriterInv, TypeOK
    <2> QED
      BY <1>1, <1>5, <2>3, <2>5, <2>6, <2>7, <2>8, RollbackSteady
  <1> QED
    BY <1>4, <1>6, <1>7

\* The end of a rollback: the blocks above the target go, then the target is the
\* tip.
LEMMA RollbackEndSteady ==
    ASSUME Steady, SteadyInv, WriterInv', NEW w \in Workers, CleanOrphan(w) \/ FinishRollback(w)
    PROVE  SteadyInv'
  <1> DEFINE l == job[w].target
  <1>1. pc[w] = "disconnect" /\ job[w].h = l
    BY DEF CleanOrphan, FinishRollback
  <1>2. /\ db \in Database /\ Filed(db) /\ Distinct(db) /\ ChainBelow(db, l)
        /\ job[w] \in Job /\ l \in Heights /\ l \in Nat /\ job[w].hash \in Blocks
        /\ Depth[job[w].hash] = l
        /\ best.height = Top(db) /\ best.hash \in {TipOf(db).hash, db.tip.hash}
        /\ \A c \in Blocks : knownBlocks[c] # -1 =>
              /\ knownBlocks[c] = Depth[c]
              /\ c \in db.blocks \/ Depth[c] > job[w].target
    BY <1>1, InSteadyRollback
  <1>3. CASE CleanOrphan(w)
    <2>1. UNCHANGED <<best, blockIndex, knownBlocks, pc, job>>
      BY <1>3 DEF CleanOrphan, mem
    <2>2. PICK b \in Blocks : db.heightOf[b] > l /\ db' = OrphanDeleted(b)
      BY <1>3 DEF CleanOrphan
    <2>3. /\ b \in db.blocks /\ Depth[b] = db.heightOf[b]
          /\ Filed(db') /\ Distinct(db') /\ ChainBelow(db', l) /\ db'.blocks = db.blocks \ {b}
          /\ db'.tip = db.tip
      BY <1>2, <2>2, OrphanSteady
    <2>4. TipOf(db') = TipOf(db) /\ Top(db') = Top(db)
      BY <2>3 DEF TipOf, Top
    <2>5. \A c \in Blocks : knownBlocks'[c] # -1 =>
              /\ knownBlocks'[c] = Depth[c]
              /\ c \in db'.blocks \/ Depth[c] > job[w].target
      BY <1>2, <2>1, <2>2, <2>3
    <2>6. best'.height = Top(db') /\ best'.hash \in {TipOf(db').hash, db'.tip.hash}
      BY <1>2, <2>1, <2>3, <2>4
    <2>7. ChainBelow(db', job'[w].h)
      BY <1>1, <2>1, <2>3
    <2> QED
      BY <1>1, <2>1, <2>3, <2>5, <2>6, <2>7, RollbackSteady
  <1>4. CASE FinishRollback(w)
    <2>1. /\ \A b \in Blocks : db.heightOf[b] <= l
          /\ knownBlocks' = KnownUpTo(l) /\ best' = [height |-> l, hash |-> job[w].hash]
          /\ db' = [db EXCEPT !.tip = [height |-> l, hash |-> job[w].hash]]
          /\ Return(w)
      BY <1>4 DEF FinishRollback, Steady
    <2> HIDE DEF l
    <2>2. /\ Filed(db') /\ Distinct(db') /\ ChainBelow(db', MaxHeight)
          /\ EmptyFrom(db', l, MaxHeight)
          /\ db'.blocks = db.blocks /\ db'.tip = [height |-> l, hash |-> job[w].hash]
          /\ TipOf(db') = [height |-> l, hash |-> job[w].hash]
      BY <1>2, <2>1, TipSteady
    <2>3. \A b \in Blocks : knownBlocks'[b] # -1 =>
             knownBlocks'[b] = Depth[b] /\ b \in db'.blocks
      BY <1>2, <2>1, <2>2 DEF KnownUpTo, l
    <2>4. /\ EmptyFrom(db', best'.height, MaxHeight) /\ best'.height = Top(db')
          /\ best'.hash \in {TipOf(db').hash, db'.tip.hash}
      BY <2>1, <2>2 DEF Top
    <2> QED
      BY <1>1, <2>1, <2>2, <2>3, <2>4, ReturnSteady DEF Writing
  <1> QED
    BY <1>3, <1>4

\* Every step keeps the invariant.
LEMMA StepSteady ==
    ASSUME Steady, SteadyInv, [Next]_vars
    PROVE  SteadyInv'
  <1>0. WriterInv'
    BY StepWriter DEF SteadyInv
  <1>1. ASSUME NEW w \in Workers, NEW s \in Offers, StartBatch(w, s) PROVE SteadyInv'
    BY <1>0, <1>1, StartBatchSteady
  <1>2. ASSUME NEW w \in Workers, NEW h \in Targets, StartRollback(w, h) PROVE SteadyInv'
    BY <1>0, <1>2, RollbackStartSteady
  <1>3. ASSUME NEW w \in Workers
        PROVE  /\ ~StartRecovery(w) /\ ~RecoverySetTip(w) /\ ~RecoveryDelete(w)
               /\ ~RecoveryFails(w) /\ ~RecoverySyncFails(w)
    BY DEF Steady, SteadyInv, LocalSteady, StartRecovery, RecoverySetTip, RecoveryDelete,
           RecoveryFails, RecoverySyncFails
  <1>4. ASSUME NEW w \in Workers, Step(w) PROVE SteadyInv'
    <2>1. CASE ApplyNext(w)
      BY <1>0, <2>1, ApplyNextSteady
    <2>2. CASE AbortBatch(w) \/ SyncFails(w) \/ CommitBatch(w) \/ PublishBatch(w)
      BY <1>0, <2>2, BatchEndSteady
    <2>3. CASE LockRollback(w)
      BY <1>0, <2>3, RollbackStartSteady
    <2>4. CASE SkipHeight(w) \/ DisconnectFails(w) \/ DisconnectNext(w)
      BY <1>0, <2>4, DisconnectStepSteady
    <2>5. CASE CleanOrphan(w) \/ FinishRollback(w)
      BY <1>0, <2>5, RollbackEndSteady
    <2> QED
      BY <1>3, <1>4, <2>1, <2>2, <2>3, <2>4, <2>5 DEF Step
  <1>5. ~CrashRestart /\ ~(\E t \in Txs : LoseTx(t))
    BY DEF Steady, SteadyInv, WriterInv, TypeOK, CrashRestart, LoseTx
  <1>6. CASE UNCHANGED vars
    <2>1. StoreSteady'
      BY <1>6 DEF SteadyInv, StoreSteady, Nobody, vars, mem
    <2>2. \A w \in Workers : LocalSteady(w)'
      BY <1>6 DEF SteadyInv, LocalSteady, Extending, AllApplied, vars, mem
    <2>3. MemorySteady'
      BY <1>6 DEF SteadyInv, MemorySteady, Nobody, vars, mem
    <2> QED
      BY <1>0, <2>1, <2>2, <2>3 DEF SteadyInv
  <1> QED
    BY <1>1, <1>2, <1>4, <1>3, <1>5, <1>6 DEF Next

\* Memory and the chain-state record name the same tip whenever processingMu is
\* free, for any number of goroutines that connect blocks and roll back at the
\* same time, whatever happened between a rollback's unlocked reads and its lock.
THEOREM TipsAgreeInRaces ==
    ASSUME Steady
    PROVE  Spec => []TipAgreement
  <1>1. Init => SteadyInv
    BY InitSteady
  <1>2. SteadyInv /\ [Next]_vars => SteadyInv'
    BY StepSteady
  <1>3. SteadyInv => TipAgreement
    BY FreeSteady DEF TipAgreement, SteadyInv, MemorySteady, Top
  <1> QED
    BY <1>1, <1>2, <1>3, PTL DEF Spec

\* No entry of knownBlocks hides a block that the node lacks, however batches and
\* rollbacks of any number of goroutines meet.
THEOREM KnownBlocksBackedInRaces ==
    ASSUME Steady
    PROVE  Spec => []KnownBlocksBacked
  <1>1. Init => SteadyInv
    BY InitSteady
  <1>2. SteadyInv /\ [Next]_vars => SteadyInv'
    BY StepSteady
  <1>3. SteadyInv => KnownBlocksBacked
    <2>1. ASSUME SteadyInv, lock = NoWorker, NEW b \in Blocks, knownBlocks[b] # -1
          PROVE  b \in db.blocks
      BY <2>1, FreeSteady DEF SteadyInv, MemorySteady, Nobody
    <2> QED
      BY <2>1 DEF KnownBlocksBacked
  <1> QED
    BY <1>1, <1>2, <1>3, PTL DEF Spec

-----------------------------------------------------------------------------
(* Calls end: failures, recoveries, crashes and lost records included.     *)

Recovering == {"recover", "delete"}

\* Who holds a lock is in the section that the lock guards, and nobody else is.
LocksHeld ==
    /\ lock # NoWorker => pc[lock] \in Writing
    /\ rmLock # NoWorker => pc[rmLock] \in Recovering
    /\ \A w \in Workers : pc[w] \in Recovering => rmLock = w

\* Genesis stays: it is stored at height 0, alone there and nowhere else, so that
\* no call is ever asked to disconnect or delete it.
GenesisFixed(d) ==
    /\ Genesis \in d.blocks /\ d.heightOf[Genesis] = 0
    /\ \A b \in Blocks : d.heightOf[b] = 0 => b = Genesis
    /\ \A h \in Heights \ {0} : d.hashAt[h] # Genesis

\* What a goroutine's locals name is not genesis.
SparesGenesis(w) ==
    /\ pc[w] \in {"apply", "publish"} =>
        \A i \in 1 .. Len(job[w].blocks) : job[w].blocks[i] # Genesis
    /\ pc[w] \in Recovering => job[w].hash # Genesis

GenesisInv ==
    /\ GenesisFixed(db) /\ (batch # NoBatch => GenesisFixed(batch))
    /\ \A w \in Workers : SparesGenesis(w)

CallInv == WriterInv /\ LocksHeld /\ GenesisInv

LEMMA InitCall == Init => CallInv
  <1> SUFFICES ASSUME Init PROVE CallInv
    OBVIOUS
  <1>1. LocksHeld
    BY DEF Init, LocksHeld, Recovering
  <1>2. GenesisFixed(db)
    BY BlockAssumption DEF Init, GenesisFixed, BlockAssumption
  <1>3. GenesisInv
    BY <1>2 DEF Init, GenesisInv, SparesGenesis, Recovering
  <1> QED
    BY <1>1, <1>3, InitWriter DEF CallInv

\* A step that takes or gives back a lock does so on entering or leaving the
\* section that the lock guards.
LEMMA StepLocks ==
    ASSUME WriterInv, LocksHeld, [Next]_vars
    PROVE  LocksHeld'
  <1>0. pc \in [Workers -> {"idle", "apply", "publish", "waiting", "disconnect",
                            "recover", "delete"}]
        /\ NoWorker \notin Workers /\ lock \in Workers \cup {NoWorker}
        /\ rmLock \in Workers \cup {NoWorker}
    BY BoundAssumption DEF WriterInv, TypeOK, BoundAssumption
  <1>1. ASSUME NEW w \in Workers, Return(w) PROVE LocksHeld'
    BY <1>0, <1>1 DEF LocksHeld, Return, Writing, Recovering
  <1>2. ASSUME NEW w \in Workers, NEW s \in Offers, StartBatch(w, s) PROVE LocksHeld'
    BY <1>0, <1>2 DEF LocksHeld, StartBatch, Writing, Recovering
  <1>3. ASSUME NEW w \in Workers, NEW h \in Targets, StartRollback(w, h) PROVE LocksHeld'
    BY <1>0, <1>3 DEF LocksHeld, StartRollback, Writing, Recovering
  <1>4. ASSUME NEW w \in Workers, StartRecovery(w) PROVE LocksHeld'
    BY <1>0, <1>4 DEF LocksHeld, StartRecovery, Writing, Recovering
  <1>5. ASSUME NEW w \in Workers, Step(w) PROVE LocksHeld'
    <2>1. CASE ApplyNext(w) \/ SkipHeight(w) \/ CleanOrphan(w)
      BY <1>0, <2>1 DEF LocksHeld, ApplyNext, SkipHeight, CleanOrphan
    <2>2. CASE AbortBatch(w) \/ PublishBatch(w) \/ SyncFails(w) \/ DisconnectFails(w)
               \/ FinishRollback(w) \/ RecoveryDelete(w) \/ RecoveryFails(w)
               \/ RecoverySyncFails(w)
      BY <1>1, <2>2 DEF AbortBatch, PublishBatch, SyncFails, DisconnectFails, FinishRollback,
                        RecoveryDelete, RecoveryFails, RecoverySyncFails
    <2>3. CASE CommitBatch(w)
      BY <1>0, <2>3 DEF LocksHeld, CommitBatch, Writing, Recovering
    <2>4. CASE LockRollback(w)
      BY <1>0, <2>4 DEF LocksHeld, LockRollback, Writing, Recovering
    <2>5. CASE DisconnectNext(w)
      <3>1. Return(w) \/ UNCHANGED <<lock, rmLock, pc>>
        BY <2>5 DEF DisconnectNext
      <3> QED
        BY <1>1, <3>1 DEF LocksHeld
    <2>6. CASE RecoverySetTip(w)
      BY <1>0, <2>6 DEF LocksHeld, RecoverySetTip, Writing, Recovering
    <2> QED
      BY <1>5, <2>1, <2>2, <2>3, <2>4, <2>5, <2>6 DEF Step
  <1>6. CASE CrashRestart
    BY <1>6 DEF LocksHeld, CrashRestart, Recovering
  <1>7. ASSUME NEW t \in Txs, LoseTx(t) PROVE LocksHeld'
    BY <1>7 DEF LocksHeld, LoseTx
  <1>8. CASE UNCHANGED vars
    BY <1>8 DEF vars, LocksHeld
  <1> QED
    BY <1>2, <1>3, <1>4, <1>5, <1>6, <1>7, <1>8 DEF Next

\* A write that concerns another block leaves genesis alone.
LEMMA GenesisKept ==
    ASSUME NEW d, NEW e, NEW b \in Blocks \ {Genesis}, GenesisFixed(d),
           d.blocks \ {b} \subseteq e.blocks, e.heightOf[b] # 0,
           \A c \in Blocks \ {b} : e.heightOf[c] = d.heightOf[c],
           \A k \in Heights \ {0} : e.hashAt[k] \in {d.hashAt[k], b, NoBlock}
    PROVE  GenesisFixed(e)
  <1>1. Genesis \in Blocks /\ NoBlock # Genesis
    BY BlockAssumption DEF BlockAssumption
  <1> QED
    BY <1>1 DEF GenesisFixed

LEMMA RemovalKeepsGenesis ==
    ASSUME db \in Database, GenesisFixed(db), NEW b \in Blocks \ {Genesis}, NEW h \in Heights,
           NEW e, e \in {Disconnected(b), CorruptDeleted(b, h), OrphanDeleted(b)}
    PROVE  GenesisFixed(e)
  <1>1. /\ db.hashAt \in [Heights -> Blocks \cup {NoBlock}]
        /\ db.heightOf \in [Blocks -> Heights \cup {-1}]
    BY DatabaseParts
  <1>2. e.blocks = db.blocks \ {b} /\ e.heightOf = [db.heightOf EXCEPT ![b] = -1]
    BY DEF Disconnected, CorruptDeleted, OrphanDeleted, WithoutBlock, Database
  <1>3. \A k \in Heights : e.hashAt[k] \in {db.hashAt[k], NoBlock}
    <2>1. CASE e = Disconnected(b)
      <3>1. e.hashAt = [db.hashAt EXCEPT ![db.heightOf[b]] = NoBlock]
        BY <2>1 DEF Disconnected, WithoutBlock, Database
      <3> QED
        BY <1>1, <3>1
    <2>2. CASE e = CorruptDeleted(b, h)
      <3>1. e.hashAt = [db.hashAt EXCEPT ![h] = NoBlock]
        BY <2>2 DEF CorruptDeleted, WithoutBlock, Database
      <3> QED
        BY <1>1, <3>1
    <2>3. CASE e = OrphanDeleted(b)
      <3> DEFINE at == db.heightOf[b]
      <3>1. e.hashAt = [db.hashAt EXCEPT ![at] = IF db.hashAt[at] = b THEN NoBlock
                                                 ELSE db.hashAt[at]]
        BY <2>3 DEF OrphanDeleted, Database
      <3> QED
        BY <1>1, <3>1
    <2> QED
      BY <2>1, <2>2, <2>3
  <1> QED
    BY <1>1, <1>2, <1>3, GenesisKept

\* Goroutines that go on with what they had, or return.
LEMMA SparesFrame ==
    ASSUME GenesisInv,
           \A v \in Workers :
              /\ pc'[v] \in {"apply", "publish"} =>
                    pc[v] \in {"apply", "publish"} /\ job'[v].blocks = job[v].blocks
              /\ pc'[v] \in Recovering =>
                    pc[v] \in Recovering /\ job'[v].hash = job[v].hash,
           GenesisFixed(db)', (batch # NoBatch)' => GenesisFixed(batch)'
    PROVE  GenesisInv'
  <1>1. ASSUME NEW v \in Workers PROVE SparesGenesis(v)'
    BY DEF GenesisInv, SparesGenesis
  <1> QED
    BY <1>1 DEF GenesisInv

LEMMA ReturnSpares ==
    ASSUME WriterInv, GenesisInv, NEW w \in Workers, Return(w), GenesisFixed(db)',
           batch' \in {batch, NoBatch}
    PROVE  GenesisInv'
  <1>1. \A v \in Workers : pc'[v] = IF v = w THEN "idle" ELSE pc[v]
    BY DEF WriterInv, TypeOK, Return
  <1>2. \A v \in Workers : v # w => job'[v] = job[v]
    BY DEF WriterInv, TypeOK, Return
  <1>3. (batch # NoBatch)' => GenesisFixed(batch)'
    BY DEF GenesisInv
  <1> QED
    BY <1>1, <1>2, <1>3, SparesFrame DEF Recovering

\* A batch never holds genesis: it is stored, and it has no parent.
LEMMA StartBatchSpares ==
    ASSUME WriterInv, GenesisInv, NEW w \in Workers, NEW s \in Offers, StartBatch(w, s)
    PROVE  GenesisInv'
  <1>1. PICK blocks \in NewBlocks(s) :
            /\ PreValidateBatch(blocks)
            /\ job' = [job EXCEPT ![w] = [NoJob EXCEPT !.blocks = blocks,
                          !.h = db.heightOf[Parent[blocks[1]]] + 1]]
    BY DEF StartBatch
  <1>2. blocks \in Seq(Blocks) /\ Len(blocks) >= 1 /\ Len(blocks) \in Nat
    BY NewBlocksType
  <1>3. blocks[1] # Genesis
    <2>1. PICK k \in 0 .. Len(s) - 1 : blocks = SubSeq(s, k + 1, Len(s)) /\ ~HasBlock(s[k + 1])
      BY DEF NewBlocks
    <2>2. s \in Seq(Blocks)
      BY BlockAssumption DEF BlockAssumption
    <2>3. blocks[1] = s[k + 1]
      BY <2>1, <2>2, SubSeqProperties
    <2> QED
      BY <2>1, <2>3 DEF HasBlock, GenesisInv, GenesisFixed
  <1>4. ASSUME NEW i \in 1 .. Len(blocks) PROVE blocks[i] # Genesis
    <2>1. CASE i = 1
      BY <1>3, <2>1
    <2>2. CASE i # 1
      <3>1. i \in 2 .. Len(blocks) /\ i - 1 \in 1 .. Len(blocks)
        BY <1>2, <2>2
      <3>2. Parent[blocks[i]] = blocks[i - 1] /\ blocks[i - 1] \in Blocks
        BY <1>1, <1>2, <3>1 DEF PreValidateBatch
      <3> QED
        BY <3>2, BlockAssumption DEF BlockAssumption
    <2> QED
      BY <2>1, <2>2
  <1>5. job'[w].blocks = blocks
    BY <1>1 DEF WriterInv, TypeOK, NoJob
  <1>6. pc' = [pc EXCEPT ![w] = "apply"] /\ db' = db /\ batch' = db
    BY DEF StartBatch
  <1>7. ASSUME NEW v \in Workers PROVE SparesGenesis(v)'
    <2>1. CASE v = w
      BY <1>4, <1>5, <1>6, <2>1 DEF SparesGenesis, Recovering, WriterInv, TypeOK
    <2>2. CASE v # w
      <3>1. pc'[v] = pc[v] /\ job'[v] = job[v]
        BY <1>1, <1>6, <2>2 DEF WriterInv, TypeOK
      <3> QED
        BY <3>1 DEF SparesGenesis, GenesisInv
    <2> QED
      BY <2>1, <2>2
  <1> QED
    BY <1>6, <1>7 DEF GenesisInv

LEMMA BatchSpares ==
    ASSUME WriterInv, GenesisInv, NEW w \in Workers,
           ApplyNext(w) \/ AbortBatch(w) \/ CommitBatch(w) \/ PublishBatch(w) \/ SyncFails(w)
    PROVE  GenesisInv'
  <1>1. CASE ApplyNext(w)
    <2> DEFINE b == NextBlock(w)
               h == NextHeight(w)
               j == [job[w] EXCEPT !.done = @ + 1]
    <2>1. /\ job[w] \in Job /\ LocalsOK(w) /\ SparesGenesis(w) /\ batch \in Database
          /\ pc[w] = "apply" /\ ~AllApplied(w) /\ batch # NoBatch
      BY <1>1, LockMeansWriter, DatabaseParts DEF WriterInv, TypeOK, ApplyNext, GenesisInv
    <2>2. /\ job[w].blocks \in Seq(Blocks) /\ job[w].done \in Nat /\ job[w].h \in Nat
          /\ Len(job[w].blocks) \in Nat /\ MaxHeight \in Nat
      BY <2>1, BoundAssumption DEF Job, Heights, BoundAssumption
    <2>3. job[w].done + 1 \in 1 .. Len(job[w].blocks)
      BY <2>1, <2>2 DEF LocalsOK, AllApplied
    <2>4. b \in Blocks \ {Genesis}
      BY <2>1, <2>2, <2>3 DEF SparesGenesis, NextBlock
    <2>5. h \in Heights /\ h > 0
      BY <2>1, <2>2, <2>3 DEF LocalsOK, NextHeight, Heights
    <2>6. batch' = ApplyBlock(batch, b, h)
      BY <1>1 DEF ApplyNext
    <2> HIDE DEF b, h
    <2>7. /\ batch'.blocks = batch.blocks \cup {b}
          /\ batch'.hashAt = [batch.hashAt EXCEPT ![h] = b]
          /\ batch'.heightOf = [batch.heightOf EXCEPT ![b] = h]
      BY <2>6 DEF ApplyBlock
    <2>8. /\ batch.hashAt \in [Heights -> Blocks \cup {NoBlock}]
          /\ batch.heightOf \in [Blocks -> Heights \cup {-1}]
      BY <2>1, DatabaseParts
    <2>9. GenesisFixed(batch')
      <3>1. GenesisFixed(batch)
        BY <2>1 DEF GenesisInv
      <3>2. batch'.heightOf[b] # 0 /\ \A c \in Blocks \ {b} : batch'.heightOf[c] = batch.heightOf[c]
        BY <2>4, <2>5, <2>7, <2>8
      <3>3. \A k \in Heights \ {0} : batch'.hashAt[k] \in {batch.hashAt[k], b, NoBlock}
        BY <2>7, <2>8
      <3>4. batch.blocks \ {b} \subseteq batch'.blocks
        BY <2>7
      <3> QED
        BY <2>4, <3>1, <3>2, <3>3, <3>4, GenesisKept
    <2>10. db' = db /\ pc' = pc /\ \A v \in Workers : job'[v].blocks = job[v].blocks
                                                     /\ job'[v].hash = job[v].hash
      BY <1>1 DEF ApplyNext, WriterInv, TypeOK, Job
    <2>11. GenesisFixed(db)'
      BY <2>10 DEF GenesisInv
    <2> QED
      BY <2>9, <2>10, <2>11, SparesFrame
  <1>2. CASE CommitBatch(w)
    <2>1. db' = batch /\ batch' = batch /\ job' = job /\ pc' = [pc EXCEPT ![w] = "publish"]
          /\ pc[w] = "apply" /\ batch # NoBatch
      BY <1>2, LockMeansWriter, DatabaseParts DEF CommitBatch, Writing
    <2>2. GenesisFixed(db)' /\ GenesisFixed(batch)'
      BY <2>1 DEF GenesisInv
    <2>3. \A v \in Workers : pc'[v] = IF v = w THEN "publish" ELSE pc[v]
      BY <2>1 DEF WriterInv, TypeOK
    <2> QED
      BY <2>1, <2>2, <2>3, SparesFrame DEF Recovering
  <1>3. CASE AbortBatch(w) \/ PublishBatch(w) \/ SyncFails(w)
    <2>1. db' = db /\ batch' = NoBatch /\ Return(w)
      BY <1>3 DEF AbortBatch, PublishBatch, SyncFails
    <2>2. GenesisFixed(db)'
      BY <2>1 DEF GenesisInv
    <2> QED
      BY <2>1, <2>2, ReturnSpares
  <1> QED
    BY <1>1, <1>2, <1>3

LEMMA RollbackSpares ==
    ASSUME WriterInv, GenesisInv, NEW w \in Workers,
           \/ \E h \in Targets : StartRollback(w, h)
           \/ LockRollback(w) \/ SkipHeight(w) \/ DisconnectFails(w) \/ DisconnectNext(w)
           \/ CleanOrphan(w) \/ FinishRollback(w)
    PROVE  GenesisInv'
  <1>0. db \in Database /\ GenesisFixed(db) /\ 0 \in Heights /\ Heights \subseteq Nat
    BY BoundAssumption DEF WriterInv, TypeOK, GenesisInv, Heights, BoundAssumption
  <1>1. CASE DisconnectFails(w)
    <2>1. db' = db /\ batch' = batch /\ Return(w)
      BY <1>1 DEF DisconnectFails
    <2> QED
      BY <1>0, <2>1, ReturnSpares
  <1>2. CASE DisconnectNext(w)
    <2> DEFINE b == db.hashAt[job[w].h]
    <2>1. db.heightOf[b] > 0 /\ b # NoBlock /\ db' = Disconnected(b) /\ batch' = batch
          /\ (Return(w) \/ (pc' = pc /\ job' = [job EXCEPT ![w].h = @ - 1]))
      BY <1>2 DEF DisconnectNext
    <2>2. b \in Blocks \ {Genesis}
      <3>1. job[w].h \in Heights
        BY DEF WriterInv, TypeOK, Job
      <3>2. b \in Blocks \cup {NoBlock}
        BY <1>0, <3>1, DatabaseParts
      <3> QED
        BY <1>0, <2>1, <3>2 DEF GenesisFixed
    <2> HIDE DEF b
    <2>3. GenesisFixed(db)'
      BY <1>0, <2>1, <2>2, RemovalKeepsGenesis
    <2>4. CASE Return(w)
      BY <2>1, <2>3, <2>4, ReturnSpares
    <2>5. CASE pc' = pc /\ job' = [job EXCEPT ![w].h = @ - 1]
      <3>1. \A v \in Workers : job'[v].blocks = job[v].blocks /\ job'[v].hash = job[v].hash
        BY <2>5 DEF WriterInv, TypeOK, Job
      <3> QED
        BY <2>1, <2>3, <2>5, <3>1, SparesFrame DEF GenesisInv
    <2> QED
      BY <2>1, <2>4, <2>5
  <1>3. CASE CleanOrphan(w)
    <2>1. PICK b \in Blocks : db.heightOf[b] > job[w].target /\ db' = OrphanDeleted(b)
      BY <1>3 DEF CleanOrphan
    <2>2. batch' = batch /\ pc' = pc /\ job' = job
      BY <1>3 DEF CleanOrphan
    <2>3. b # Genesis
      <3>1. job[w].target \in Nat
        BY <1>0 DEF WriterInv, TypeOK, Job
      <3> QED
        BY <1>0, <2>1, <3>1 DEF GenesisFixed
    <2>4. GenesisFixed(db)'
      BY <1>0, <2>1, <2>3, RemovalKeepsGenesis
    <2> QED
      BY <2>2, <2>4, SparesFrame DEF GenesisInv
  <1>4. CASE FinishRollback(w)
    <2>1. db'.blocks = db.blocks /\ db'.hashAt = db.hashAt /\ db'.heightOf = db.heightOf
          /\ batch' = batch /\ Return(w)
      BY <1>0, <1>4 DEF FinishRollback, Database
    <2>2. GenesisFixed(db)'
      BY <1>0, <2>1 DEF GenesisFixed
    <2> QED
      BY <2>1, <2>2, ReturnSpares
  <1>5. CASE LockRollback(w) \/ SkipHeight(w) \/ \E h \in Targets : StartRollback(w, h)
    <2>1. db' = db /\ batch' = batch
      BY <1>5 DEF LockRollback, SkipHeight, StartRollback
    <2>2. \A v \in Workers : pc'[v] \in {"apply", "publish"} \cup Recovering
                                => pc'[v] = pc[v] /\ job'[v].blocks = job[v].blocks
                                                  /\ job'[v].hash = job[v].hash
      <3>1. CASE LockRollback(w)
        BY <3>1 DEF LockRollback, WriterInv, TypeOK, Recovering
      <3>2. CASE SkipHeight(w)
        BY <3>2 DEF SkipHeight, WriterInv, TypeOK, Job
      <3>3. CASE \E h \in Targets : StartRollback(w, h)
        <4>1. PICK j : job' = [job EXCEPT ![w] = j]
          BY <3>3 DEF StartRollback
        <4>2. pc' = [pc EXCEPT ![w] = "waiting"]
          BY <3>3 DEF StartRollback
        <4> QED
          BY <4>1, <4>2 DEF WriterInv, TypeOK, Recovering
      <3> QED
        BY <1>5, <3>1, <3>2, <3>3
    <2> QED
      BY <2>1, <2>2, SparesFrame DEF GenesisInv
  <1> QED
    BY <1>1, <1>2, <1>3, <1>4, <1>5

LEMMA RecoverySpares ==
    ASSUME WriterInv, GenesisInv, NEW w \in Workers,
           StartRecovery(w) \/ RecoverySetTip(w) \/ RecoveryDelete(w) \/ RecoveryFails(w)
                            \/ RecoverySyncFails(w)
    PROVE  GenesisInv'
  <1>0. db \in Database /\ GenesisFixed(db)
    BY DEF WriterInv, TypeOK, GenesisInv
  <1>1. CASE StartRecovery(w)
    <2> DEFINE b == db.hashAt[best.height]
               j == [NoJob EXCEPT !.h = best.height, !.hash = b]
    <2>1. best.height > 0 /\ db' = db /\ batch' = batch
          /\ pc' = [pc EXCEPT ![w] = "recover"] /\ job' = [job EXCEPT ![w] = j]
      BY <1>1 DEF StartRecovery
    <2>2. b # Genesis
      <3>1. best.height \in Heights \ {0}
        BY <2>1, BoundAssumption DEF WriterInv, TypeOK, ChainState, Heights, BoundAssumption
      <3> QED
        BY <1>0, <3>1 DEF GenesisFixed
    <2>3. j.hash = b
      BY DEF NoJob
    <2> HIDE DEF b, j
    <2>4. ASSUME NEW v \in Workers PROVE SparesGenesis(v)'
      <3>1. CASE v = w
        BY <2>1, <2>2, <2>3, <3>1 DEF SparesGenesis, WriterInv, TypeOK
      <3>2. CASE v # w
        <4>1. pc'[v] = pc[v] /\ job'[v] = job[v]
          BY <2>1, <3>2 DEF WriterInv, TypeOK
        <4> QED
          BY <4>1 DEF SparesGenesis, GenesisInv
      <3> QED
        BY <3>1, <3>2
    <2> QED
      BY <2>1, <2>4 DEF GenesisInv
  <1>2. CASE RecoverySetTip(w)
    <2>1. db'.blocks = db.blocks /\ db'.hashAt = db.hashAt /\ db'.heightOf = db.heightOf
          /\ batch' = batch /\ job' = job /\ pc[w] = "recover"
          /\ \A v \in Workers : pc'[v] = IF v = w THEN "delete" ELSE pc[v]
      BY <1>0, <1>2 DEF RecoverySetTip, Database, WriterInv, TypeOK
    <2>2. GenesisFixed(db)'
      BY <1>0, <2>1 DEF GenesisFixed
    <2> QED
      BY <2>1, <2>2, SparesFrame DEF GenesisInv, Recovering
  <1>3. CASE RecoveryDelete(w) \/ RecoveryFails(w) \/ RecoverySyncFails(w)
    <2>1. Return(w) /\ batch' = batch
          /\ (db' = db \/ (pc[w] = "delete" /\ db' = CorruptDeleted(job[w].hash, job[w].h)))
      BY <1>3 DEF RecoveryDelete, RecoveryFails, RecoverySyncFails
    <2>2. pc[w] = "delete" => job[w].hash \in Blocks \ {Genesis} /\ job[w].h \in Heights
      BY DEF WriterInv, TypeOK, LocalsOK, GenesisInv, SparesGenesis, Job, Recovering
    <2>3. GenesisFixed(db)'
      BY <1>0, <2>1, <2>2, RemovalKeepsGenesis
    <2> QED
      BY <2>1, <2>3, ReturnSpares
  <1> QED
    BY <1>1, <1>2, <1>3

LEMMA StepCall == CallInv /\ [Next]_vars => CallInv'
  <1> SUFFICES ASSUME CallInv, [Next]_vars PROVE CallInv'
    OBVIOUS
  <1>1. WriterInv' /\ LocksHeld'
    BY StepWriter, StepLocks DEF CallInv
  <1>2. ASSUME NEW w \in Workers,
               \/ \E s \in Offers : StartBatch(w, s)
               \/ \E h \in Targets : StartRollback(w, h)
               \/ StartRecovery(w) \/ Step(w)
        PROVE  GenesisInv'
    BY <1>2, StartBatchSpares, BatchSpares, RollbackSpares, RecoverySpares DEF CallInv, Step
  <1>3. ASSUME CrashRestart PROVE GenesisInv'
    <2>1. batch' = NoBatch /\ \A v \in Workers : pc'[v] = "idle"
      BY <1>3 DEF CrashRestart
    <2>3. db'.blocks = db.blocks /\ db'.hashAt = db.hashAt /\ db'.heightOf = db.heightOf
      BY <1>3 DEF CrashRestart, CallInv, WriterInv, TypeOK, Database
    <2>2. GenesisFixed(db)'
      BY <2>3 DEF CallInv, GenesisInv, GenesisFixed
    <2> QED
      BY <2>1, <2>2, SparesFrame DEF CallInv, Recovering
  <1>4. ASSUME NEW t \in Txs, LoseTx(t) PROVE GenesisInv'
    <2>1. db'.blocks = db.blocks /\ db'.hashAt = db.hashAt /\ db'.heightOf = db.heightOf
          /\ batch' = batch /\ job' = job /\ pc' = pc
      BY <1>4 DEF LoseTx, CallInv, WriterInv, TypeOK, Database
    <2>2. GenesisFixed(db)'
      BY <2>1 DEF GenesisFixed, CallInv, GenesisInv
    <2> QED
      BY <2>1, <2>2, SparesFrame DEF CallInv, GenesisInv
  <1>5. ASSUME UNCHANGED vars PROVE GenesisInv'
    <2>1. GenesisFixed(db)' /\ ((batch # NoBatch)' => GenesisFixed(batch)')
      BY <1>5 DEF vars, CallInv, GenesisInv
    <2> QED
      BY <1>5, <2>1, SparesFrame DEF vars, CallInv
  <1> QED
    BY <1>1, <1>2, <1>3, <1>4, <1>5 DEF Next, CallInv

\* The next step of w's call has a guard that is true: processingMu is free where
\* it is asked for, and a rollback has no block at height 0 to disconnect.
Ready(w) ==
    \/ pc[w] \in {"apply", "publish", "delete"}
    \/ pc[w] \in {"waiting", "recover"} /\ lock = NoWorker
    \/ pc[w] = "disconnect" /\ job[w].h = job[w].target
    \/ /\ pc[w] = "disconnect" /\ job[w].h > job[w].target
       /\ LET b == db.hashAt[job[w].h]
          IN  b = NoBlock \/ ~Readable(b) \/ db.heightOf[b] # 0

\* Whoever holds a lock can go on, so that while a call is in progress one can.
LocksReleasable ==
    /\ lock # NoWorker => Ready(lock)
    /\ rmLock # NoWorker => pc[rmLock] \in Recovering
    /\ \A v, w \in Workers : pc[v] \in Recovering /\ pc[w] \in Recovering => v = w
    /\ (\E w \in Workers : pc[w] # "idle") => \E w \in Workers : Ready(w)

LEMMA HolderReady ==
    ASSUME CallInv
    PROVE  LocksReleasable
  <1>0. /\ lock \in Workers \cup {NoWorker} /\ db \in Database
        /\ pc \in [Workers -> {"idle", "apply", "publish", "waiting", "disconnect",
                               "recover", "delete"}]
        /\ \A w \in Workers : job[w].h \in Heights /\ job[w].target \in Heights
    BY DEF CallInv, WriterInv, TypeOK, Job
  <1>1. ASSUME lock # NoWorker PROVE Ready(lock)
    <2>1. lock \in Workers /\ pc[lock] \in Writing
      BY <1>0, <1>1 DEF CallInv, LocksHeld
    <2>2. CASE pc[lock] = "disconnect"
      <3> DEFINE b == db.hashAt[job[lock].h]
      <3>1. /\ job[lock].target <= job[lock].h
            /\ job[lock].h \in Nat /\ job[lock].target \in Nat
        BY <1>0, <2>1, <2>2, BoundAssumption
        DEF CallInv, WriterInv, LocalsOK, Heights, BoundAssumption
      <3>2. ASSUME job[lock].h > job[lock].target, b # NoBlock PROVE db.heightOf[b] # 0
        <4>1. job[lock].h \in Heights \ {0}
          BY <1>0, <2>1, <3>1, <3>2
        <4>2. b \in Blocks
          BY <1>0, <3>2, <4>1, DatabaseParts
        <4>3. b # Genesis
          BY <4>1 DEF CallInv, GenesisInv, GenesisFixed
        <4> QED
          BY <4>2, <4>3 DEF CallInv, GenesisInv, GenesisFixed
      <3> QED
        BY <2>2, <3>1, <3>2 DEF Ready
    <2>3. CASE pc[lock] # "disconnect"
      BY <2>1, <2>3 DEF Ready, Writing
    <2> QED
      BY <2>2, <2>3
  <1>2. ASSUME lock = NoWorker, NEW w \in Workers, pc[w] # "idle" PROVE Ready(w)
    <2>1. pc[w] \notin Writing
      BY <1>2, LockMeansWriter DEF CallInv
    <2> QED
      BY <1>0, <1>2, <2>1 DEF Ready, Writing
  <1>3. \A v, w \in Workers : pc[v] \in Recovering /\ pc[w] \in Recovering => v = w
    BY DEF CallInv, LocksHeld
  <1>4. rmLock # NoWorker => pc[rmLock] \in Recovering
    BY DEF CallInv, LocksHeld
  <1> QED
    BY <1>0, <1>1, <1>2, <1>3, <1>4 DEF LocksReleasable

\* No error return, crash or lost record leaves processingMu or rm.mu with a
\* goroutine that is not in the section it guards or cannot go on there, and two
\* recoveries never meet: with any number of goroutines no set of calls ends up
\* waiting for each other.
THEOREM NobodyKeepsALock == Spec => []LocksReleasable
  <1> QED
    BY InitCall, StepCall, HolderReady, PTL DEF Spec

\* The stored blocks above a height.
Above(heightOf, h) == {b \in Blocks : heightOf[b] > h}

\* At most how many steps of its own are left of a call: a batch's blocks, its
\* commit and what follows; a rollback's heights, orphans and end.
StepsLeft(at, j, heightOf) ==
    CASE at = "idle" -> 0
      [] at = "apply" -> Len(j.blocks) - j.done + 2
      [] at = "publish" -> 1
      [] at = "waiting" -> j.h - j.target + Cardinality(Blocks) + 2
      [] at = "disconnect" /\ j.h # j.target -> j.h - j.target + Cardinality(Blocks) + 1
      [] at = "disconnect" /\ j.h = j.target -> Cardinality(Above(heightOf, j.target)) + 1
      [] at = "recover" -> 2
      [] at = "delete" -> 1

Left(w) == StepsLeft(pc[w], job[w], db.heightOf)

LEMMA StepsLeftIs ==
    ASSUME NEW at, NEW j, NEW heightOf
    PROVE  /\ at = "idle" => StepsLeft(at, j, heightOf) = 0
           /\ at = "apply" => StepsLeft(at, j, heightOf) = Len(j.blocks) - j.done + 2
           /\ at \in {"publish", "delete"} => StepsLeft(at, j, heightOf) = 1
           /\ at = "recover" => StepsLeft(at, j, heightOf) = 2
           /\ at = "waiting" =>
                StepsLeft(at, j, heightOf) = j.h - j.target + Cardinality(Blocks) + 2
           /\ at = "disconnect" /\ j.h # j.target =>
                StepsLeft(at, j, heightOf) = j.h - j.target + Cardinality(Blocks) + 1
           /\ at = "disconnect" /\ j.h = j.target =>
                StepsLeft(at, j, heightOf) = Cardinality(Above(heightOf, j.target)) + 1
  <1>1. at = "idle" => StepsLeft(at, j, heightOf) = 0
    BY DEF StepsLeft
  <1>2. at = "apply" => StepsLeft(at, j, heightOf) = Len(j.blocks) - j.done + 2
    BY DEF StepsLeft
  <1>3. at \in {"publish", "delete"} => StepsLeft(at, j, heightOf) = 1
    BY DEF StepsLeft
  <1>4. at = "recover" => StepsLeft(at, j, heightOf) = 2
    BY DEF StepsLeft
  <1>5. at = "waiting" => StepsLeft(at, j, heightOf) = j.h - j.target + Cardinality(Blocks) + 2
    BY DEF StepsLeft
  <1>6. at = "disconnect" /\ j.h # j.target =>
          StepsLeft(at, j, heightOf) = j.h - j.target + Cardinality(Blocks) + 1
    BY DEF StepsLeft
  <1>7. at = "disconnect" /\ j.h = j.target =>
          StepsLeft(at, j, heightOf) = Cardinality(Above(heightOf, j.target)) + 1
    BY DEF StepsLeft
  <1> QED
    BY <1>1, <1>2, <1>3, <1>4, <1>5, <1>6, <1>7

LEMMA OrphanCount ==
    ASSUME IsFiniteSet(Blocks), NEW heightOf, NEW h
    PROVE  /\ Cardinality(Above(heightOf, h)) \in 0 .. Cardinality(Blocks)
           /\ Cardinality(Blocks) \in Nat
           /\ \A b \in Above(heightOf, h) :
                Cardinality(Above(heightOf, h) \ {b}) = Cardinality(Above(heightOf, h)) - 1
  <1>1. IsFiniteSet(Above(heightOf, h)) /\ Cardinality(Above(heightOf, h)) <= Cardinality(Blocks)
    BY FS_Subset DEF Above
  <1> QED
    BY <1>1, FS_CardinalityType, FS_RemoveElement

\* Locals as numbers.
LEMMA LocalNumbers ==
    ASSUME WriterInv, IsFiniteSet(Blocks), NEW w \in Workers
    PROVE  /\ Len(job[w].blocks) \in Nat /\ job[w].done \in Nat
           /\ job[w].h \in Nat /\ job[w].target \in Nat
           /\ Cardinality(Blocks) \in Nat
           /\ pc[w] = "apply" => job[w].done <= Len(job[w].blocks)
           /\ pc[w] \in {"waiting", "disconnect"} => job[w].target <= job[w].h
  <1>1. job[w] \in Job /\ LocalsOK(w)
    BY DEF WriterInv, TypeOK
  <1>2. job[w].blocks \in Seq(Blocks) /\ job[w].h \in Nat /\ job[w].target \in Nat
        /\ job[w].done \in Nat
    BY <1>1, BoundAssumption DEF Job, Heights, BoundAssumption
  <1> QED
    BY <1>1, <1>2, FS_CardinalityType DEF LocalsOK

LEMMA LeftPositive ==
    ASSUME WriterInv, IsFiniteSet(Blocks), NEW w \in Workers
    PROVE  Left(w) \in Nat /\ (pc[w] # "idle" => Left(w) > 0)
  <1> DEFINE at == pc[w]
             j == job[w]
             orphans == Cardinality(Above(db.heightOf, j.target))
             all == Cardinality(Blocks)
  <1>1. at \in {"idle", "apply", "publish", "waiting", "disconnect", "recover", "delete"}
    BY DEF WriterInv, TypeOK
  <1>2. orphans \in Nat
    BY OrphanCount
  <1>3. /\ Len(j.blocks) \in Nat /\ j.done \in Nat /\ j.h \in Nat /\ j.target \in Nat /\ all \in Nat
        /\ at = "apply" => j.done <= Len(j.blocks)
        /\ at \in {"waiting", "disconnect"} => j.target <= j.h
    BY LocalNumbers
  <1> HIDE DEF at, j
  <1>4. /\ at = "idle" => StepsLeft(at, j, db.heightOf) = 0
        /\ at = "apply" => StepsLeft(at, j, db.heightOf) = Len(j.blocks) - j.done + 2
        /\ at \in {"publish", "delete"} => StepsLeft(at, j, db.heightOf) = 1
        /\ at = "recover" => StepsLeft(at, j, db.heightOf) = 2
        /\ at = "waiting" => StepsLeft(at, j, db.heightOf) = j.h - j.target + all + 2
        /\ at = "disconnect" /\ j.h # j.target =>
                StepsLeft(at, j, db.heightOf) = j.h - j.target + all + 1
        /\ at = "disconnect" /\ j.h = j.target =>
                StepsLeft(at, j, db.heightOf) = orphans + 1
    BY StepsLeftIs
  <1> DEFINE left == StepsLeft(at, j, db.heightOf)
  <1> HIDE DEF left, orphans, all
  <1>5. left \in Nat /\ (at # "idle" => left > 0)
    BY <1>1, <1>2, <1>3, <1>4 DEF left
  <1> QED
    BY <1>5 DEF Left, left, at, j

\* A step of one's own call.
LEMMA OwnStep ==
    ASSUME WriterInv, WriterInv', IsFiniteSet(Blocks), NEW w \in Workers, Step(w)
    PROVE  Left(w)' < Left(w)
  <1> DEFINE j == job[w]
             k == job'[w]
             all == Cardinality(Blocks)
  <1>1. /\ Len(j.blocks) \in Nat /\ j.done \in Nat /\ j.h \in Nat /\ j.target \in Nat /\ all \in Nat
        /\ pc[w] = "apply" => j.done <= Len(j.blocks)
        /\ pc[w] \in {"waiting", "disconnect"} => j.target <= j.h
    BY LocalNumbers
  <1>2. /\ pc \in [Workers -> {"idle", "apply", "publish", "waiting", "disconnect",
                               "recover", "delete"}]
        /\ job \in [Workers -> Job]
    BY DEF WriterInv, TypeOK
  <1>3. /\ Left(w) = StepsLeft(pc[w], j, db.heightOf)
        /\ Left(w)' = StepsLeft(pc'[w], k, db'.heightOf)
    BY DEF Left
  <1>4. Left(w) \in Nat /\ (pc[w] # "idle" => Left(w) > 0)
    BY LeftPositive
  <1>5. ASSUME Return(w), pc[w] # "idle" PROVE Left(w)' < Left(w)
    <2>1. pc'[w] = "idle"
      BY <1>2, <1>5 DEF Return
    <2> QED
      BY <1>3, <1>4, <1>5, <2>1, StepsLeftIs
  <1>6. CASE ApplyNext(w)
    <2>1. /\ pc[w] = "apply" /\ pc'[w] = "apply" /\ k.done = j.done + 1 /\ k.blocks = j.blocks
      BY <1>2, <1>6 DEF ApplyNext, Job
    <2>2. Left(w) = Len(j.blocks) - j.done + 2 /\ Left(w)' = Len(k.blocks) - k.done + 2
      BY <1>3, <2>1, StepsLeftIs
    <2> HIDE DEF j, k
    <2> QED
      BY <1>1, <2>1, <2>2
  <1>7. CASE CommitBatch(w)
    <2>1. pc[w] = "apply" /\ pc'[w] = "publish" /\ j.done = Len(j.blocks)
      BY <1>2, <1>7 DEF CommitBatch, AllApplied
    <2>2. Left(w) = Len(j.blocks) - j.done + 2 /\ Left(w)' = 1
      BY <1>3, <2>1, StepsLeftIs
    <2> HIDE DEF j, k
    <2> QED
      BY <1>1, <2>1, <2>2
  <1>8. CASE LockRollback(w)
    <2>1. pc[w] = "waiting" /\ pc'[w] = "disconnect" /\ k = j
      BY <1>2, <1>8 DEF LockRollback
    <2>2. Left(w) = j.h - j.target + all + 2
      BY <1>3, <2>1, StepsLeftIs
    <2> DEFINE orphans == Cardinality(Above(db'.heightOf, j.target))
    <2>3. Left(w)' \in {j.h - j.target + all + 1, orphans + 1}
      BY <1>3, <2>1, StepsLeftIs
    <2>4. orphans \in 0 .. all
      BY OrphanCount
    <2> HIDE DEF j, k, orphans, all
    <2> QED
      BY <1>1, <2>1, <2>2, <2>3, <2>4
  <1>9. CASE SkipHeight(w) \/ (DisconnectNext(w) /\ ~Return(w))
    <2>1. /\ pc[w] = "disconnect" /\ pc'[w] = "disconnect" /\ j.h > j.target
          /\ k.h = j.h - 1 /\ k.target = j.target
      BY <1>2, <1>9 DEF SkipHeight, DisconnectNext, Job
    <2>2. Left(w) = j.h - j.target + all + 1
      <3>1. j.h # j.target
        BY <1>1, <2>1
      <3> QED
        BY <1>3, <2>1, <3>1, StepsLeftIs
    <2> DEFINE orphans == Cardinality(Above(db'.heightOf, k.target))
    <2>3. Left(w)' \in {k.h - k.target + all + 1, orphans + 1}
      BY <1>3, <2>1, StepsLeftIs
    <2>4. orphans \in 0 .. all
      BY OrphanCount
    <2> HIDE DEF j, k, orphans, all
    <2> QED
      BY <1>1, <2>1, <2>2, <2>3, <2>4
  <1>10. CASE CleanOrphan(w)
    <2>1. /\ pc[w] = "disconnect" /\ j.h = j.target /\ pc' = pc /\ job' = job
      BY <1>10 DEF CleanOrphan
    <2>2. PICK b \in Blocks : db.heightOf[b] > j.target /\ db' = OrphanDeleted(b)
      BY <1>10 DEF CleanOrphan
    <2>3. db'.heightOf = [db.heightOf EXCEPT ![b] = -1]
      BY <2>2 DEF OrphanDeleted, WriterInv, TypeOK, Database
    <2>4. Above(db'.heightOf, j.target) = Above(db.heightOf, j.target) \ {b}
      <3>1. db.heightOf \in [Blocks -> Heights \cup {-1}]
        BY DatabaseParts DEF WriterInv, TypeOK
      <3>2. ~(-1 > j.target)
        BY <1>1
      <3> QED
        BY <2>3, <3>1, <3>2 DEF Above
    <2>5. b \in Above(db.heightOf, j.target)
      BY <2>2 DEF Above
    <2> DEFINE before == Cardinality(Above(db.heightOf, j.target))
    <2>6. before \in Nat /\ Cardinality(Above(db'.heightOf, j.target)) = before - 1
      <3>1. before \in Nat
        BY OrphanCount
      <3> QED
        BY <2>4, <2>5, <3>1, OrphanCount
    <2>7. Left(w) = before + 1 /\ Left(w)' = Cardinality(Above(db'.heightOf, j.target)) + 1
      BY <1>3, <2>1, StepsLeftIs
    <2> QED
      BY <2>6, <2>7
  <1>11. CASE RecoverySetTip(w)
    <2>1. pc[w] = "recover" /\ pc'[w] = "delete"
      BY <1>2, <1>11 DEF RecoverySetTip
    <2>2. Left(w) = 2 /\ Left(w)' = 1
      BY <1>3, <2>1, StepsLeftIs
    <2> QED
      BY <2>2
  <1>12. CASE \/ AbortBatch(w) \/ PublishBatch(w) \/ SyncFails(w) \/ DisconnectFails(w)
              \/ FinishRollback(w) \/ RecoveryDelete(w) \/ RecoveryFails(w)
              \/ RecoverySyncFails(w) \/ (DisconnectNext(w) /\ Return(w))
    <2>1. Return(w) /\ pc[w] # "idle"
      BY <1>12 DEF AbortBatch, PublishBatch, SyncFails, DisconnectFails, FinishRollback,
                   RecoveryDelete, RecoveryFails, RecoverySyncFails, DisconnectNext
    <2> QED
      BY <1>5, <2>1
  <1> QED
    BY <1>6, <1>7, <1>8, <1>9, <1>10, <1>11, <1>12 DEF Step

\* A step of the others: it does not reach into a rollback, which holds the lock.
LEMMA OthersStep ==
    ASSUME CallInv, [Next]_vars, NEW w \in Workers, ~Step(w), pc[w] # "idle"
    PROVE  \/ pc'[w] = "idle"
           \/ /\ pc'[w] = pc[w] /\ job'[w] = job[w]
              /\ pc[w] = "disconnect" => db'.heightOf = db.heightOf
  <1>0. pc[w] = "disconnect" =>
            /\ lock = w
            /\ \A v \in Workers \ {w} : pc[v] \notin Writing
    BY LockMeansWriter DEF CallInv, Writing
  <1>1. pc \in [Workers -> {"idle", "apply", "publish", "waiting", "disconnect",
                            "recover", "delete"}]
        /\ job \in [Workers -> Job] /\ NoWorker \notin Workers
    BY BoundAssumption DEF CallInv, WriterInv, TypeOK, BoundAssumption
  <1>2. ASSUME NEW v \in Workers,
               \/ \E s \in Offers : StartBatch(v, s)
               \/ \E h \in Targets : StartRollback(v, h)
               \/ StartRecovery(v)
        PROVE  pc'[w] = pc[w] /\ job'[w] = job[w] /\ db' = db
    BY <1>1, <1>2 DEF StartBatch, StartRollback, StartRecovery
  <1>3. ASSUME NEW v \in Workers \ {w}, Step(v)
        PROVE  pc'[w] = pc[w] /\ job'[w] = job[w] /\ pc[w] # "disconnect"
    <2>1. pc'[w] = pc[w]
      BY <1>1, <1>3 DEF Step, ApplyNext, AbortBatch, CommitBatch, PublishBatch, SyncFails,
         LockRollback, SkipHeight, DisconnectFails, DisconnectNext, CleanOrphan, FinishRollback,
         RecoverySetTip, RecoveryDelete, RecoveryFails, RecoverySyncFails, Return
    <2>2. job'[w] = job[w]
      BY <1>1, <1>3 DEF Step, ApplyNext, AbortBatch, CommitBatch, PublishBatch, SyncFails,
         LockRollback, SkipHeight, DisconnectFails, DisconnectNext, CleanOrphan, FinishRollback,
         RecoverySetTip, RecoveryDelete, RecoveryFails, RecoverySyncFails, Return
    <2>3. pc[v] \in Writing \/ lock = NoWorker
      BY <1>3 DEF Step, ApplyNext, AbortBatch, CommitBatch, PublishBatch, SyncFails,
         LockRollback, SkipHeight, DisconnectFails, DisconnectNext, CleanOrphan, FinishRollback,
         RecoverySetTip, RecoveryDelete, RecoveryFails, RecoverySyncFails, Writing
    <2> QED
      BY <1>0, <1>1, <2>1, <2>2, <2>3
  <1>4. CASE CrashRestart
    BY <1>4 DEF CrashRestart
  <1>5. ASSUME NEW t \in Txs, LoseTx(t)
        PROVE  pc' = pc /\ job' = job /\ db'.heightOf = db.heightOf
    BY <1>5 DEF LoseTx, CallInv, WriterInv, TypeOK, Database
  <1>6. CASE UNCHANGED vars
    BY <1>6 DEF vars
  <1> QED
    BY <1>2, <1>3, <1>4, <1>5, <1>6 DEF Next

\* Every step of a call brings its end nearer, and nothing that others do puts it
\* off: a batch ends after its blocks, a rollback after its heights and orphans,
\* whatever fails on the way.  With NobodyKeepsALock: as long as the goroutines
\* are scheduled, calls end.
THEOREM CallsShorten ==
    ASSUME IsFiniteSet(Blocks)
    PROVE  Spec => [][\A w \in Workers :
                        /\ Left(w) \in Nat /\ (Left(w) = 0 <=> pc[w] = "idle")
                        /\ Step(w) => Left(w)' < Left(w)
                        /\ ~Step(w) /\ pc[w] # "idle" => Left(w)' <= Left(w)]_vars
  <1>1. ASSUME CallInv, [Next]_vars, NEW w \in Workers
        PROVE  /\ Left(w) \in Nat /\ (Left(w) = 0 <=> pc[w] = "idle")
               /\ Step(w) => Left(w)' < Left(w)
               /\ ~Step(w) /\ pc[w] # "idle" => Left(w)' <= Left(w)
    <2>1. WriterInv /\ WriterInv'
      BY <1>1, StepCall DEF CallInv
    <2>2. Left(w) \in Nat /\ (pc[w] # "idle" => Left(w) > 0)
      BY <2>1, LeftPositive
    <2>3. /\ pc[w] = "idle" => Left(w) = 0
          /\ pc'[w] = "idle" => Left(w)' = 0
      BY StepsLeftIs DEF Left
    <2>4. Step(w) => Left(w)' < Left(w)
      BY <2>1, OwnStep
    <2>5. ASSUME ~Step(w), pc[w] # "idle" PROVE Left(w)' <= Left(w)
      <3>1. CASE pc'[w] = "idle"
        BY <2>2, <2>3, <3>1
      <3>2. CASE /\ pc'[w] = pc[w] /\ job'[w] = job[w]
                 /\ pc[w] = "disconnect" => db'.heightOf = db.heightOf
        <4> DEFINE at == pc[w]
                   j == job[w]
                   before == StepsLeft(at, j, db.heightOf)
                   after == StepsLeft(at, j, db'.heightOf)
        <4>1. Left(w) = before /\ Left(w)' = after
          BY <3>2 DEF Left
        <4>2. at \in {"idle", "apply", "publish", "waiting", "disconnect", "recover", "delete"}
          BY <2>1 DEF WriterInv, TypeOK
        <4> HIDE DEF at, j
        <4>3. at # "disconnect" => before = after
          BY <4>2, StepsLeftIs
        <4>4. at = "disconnect" => before = after
          BY <3>2 DEF at
        <4> QED
          BY <2>2, <4>1, <4>3, <4>4
      <3> QED
        BY <1>1, <2>5, <3>1, <3>2, OthersStep
    <2> QED
      BY <2>2, <2>3, <2>4, <2>5
  <1>2. CallInv /\ [Next]_vars
          => [\A w \in Workers :
                /\ Left(w) \in Nat /\ (Left(w) = 0 <=> pc[w] = "idle")
                /\ Step(w) => Left(w)' < Left(w)
                /\ ~Step(w) /\ pc[w] # "idle" => Left(w)' <= Left(w)]_vars
    BY <1>1
  <1> QED
    BY <1>2, InitCall, StepCall, PTL DEF Spec
=============================================================================
