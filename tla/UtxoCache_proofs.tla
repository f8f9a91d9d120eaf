-------------------------- MODULE UtxoCache_proofs --------------------------
(***************************************************************************)
(* Theorems about UtxoCache: for every set of blocks and batches, the      *)
(* cache follows the database as far as the code guarantees it.            *)
(***************************************************************************)
EXTENDS UtxoCache, SequenceTheorems, TLAPS

-----------------------------------------------------------------------------
(* The operators.                                                          *)

\* A created output's record has the height of its block.
LEMMA StoredType ==
    ASSUME chain \in Seq(Blocks), NEW bs \in Seq(Blocks), Connectable(bs),
           NEW o \in Created(bs)
    PROVE  Stored(bs, o) \in UTXO
  <1> DEFINE i == CHOOSE k \in 1 .. Len(bs) : o \in Creates[bs[k]]
  <1>1. \E k \in 1 .. Len(bs) : o \in Creates[bs[k]]
    BY DEF Created
  <1>2. i \in 1 .. Len(bs)
    BY <1>1
  <1>3. Len(chain) \in Nat /\ Len(bs) \in Nat /\ Len(chain) + Len(bs) <= MaxHeight
    BY DEF Connectable
  <1> HIDE DEF i
  <1>4. Len(chain) + i \in 1 .. MaxHeight
    BY <1>2, <1>3, CacheAssumption DEF CacheAssumption
  <1>5. Stored(bs, o) = [height |-> Len(chain) + i, by |-> NoTx]
    BY DEF Stored, i
  <1> QED
    BY <1>4, <1>5 DEF UTXO

\* The spender of a spent output is a block of the batch.
LEMMA SpenderType ==
    ASSUME NEW bs \in Seq(Blocks), NEW o \in Spent(bs)
    PROVE  Spender(bs, o) \in Blocks
  <1>1. \E k \in 1 .. Len(bs) : o \in Spends[bs[k]]
    BY DEF Spent
  <1> QED
    BY <1>1 DEF Spender

\* What a batch spends is in the store or created by the batch.
LEMMA SpentExists ==
    ASSUME NEW bs \in Seq(Blocks), Connectable(bs), NEW o \in Spent(bs)
    PROVE  o \in Created(bs) \/ store[o] # NoUTXO
  <1>1. PICK i \in 1 .. Len(bs) : o \in Spends[bs[i]]
    BY DEF Spent
  <1>2. CASE store[o] # NoUTXO
    BY <1>2
  <1>3. CASE \E j \in 1 .. i : o \in Creates[bs[j]]
    <2>1. PICK j \in 1 .. i : o \in Creates[bs[j]]
      BY <1>3
    <2>2. j \in 1 .. Len(bs)
      BY <1>1
    <2> QED
      BY <2>1, <2>2 DEF Created
  <1> QED
    BY <1>1, <1>2, <1>3 DEF Connectable

\* What the commit of a connected batch does to one output: new ones are as
\* StoreUTXO wrote them but for the spender, old ones keep their height, and
\* only what the batch spends changes its spender.
LEMMA ConnectEffect ==
    ASSUME TypeOK, NEW bs \in Seq(Blocks), Connectable(bs), NEW o \in Outs
    PROVE  LET u == ConnectedStore(bs)[o]
           IN  /\ o \in Created(bs) => /\ store[o] = NoUTXO /\ u \in UTXO
                                       /\ u.height = Stored(bs, o).height
                                       /\ o \notin Spent(bs) => u = Stored(bs, o)
               /\ store[o] # NoUTXO => /\ u \in UTXO /\ u.height = store[o].height
                                       /\ o \notin Spent(bs) => u = store[o]
               /\ (o \notin Created(bs) /\ store[o] = NoUTXO) => u = NoUTXO
               /\ u \in UTXO \cup {NoUTXO}
  <1> DEFINE u == ConnectedStore(bs)[o]
             v == IF o \in Created(bs) THEN Stored(bs, o) ELSE store[o]
  <1>1. u = IF o \in Spent(bs) THEN [height |-> v.height, by |-> Spender(bs, o)] ELSE v
    BY DEF ConnectedStore
  <1>2. chain \in Seq(Blocks) /\ store[o] \in UTXO \cup {NoUTXO}
    BY DEF TypeOK
  <1>3. o \in Created(bs) => Stored(bs, o) \in UTXO /\ store[o] = NoUTXO
    BY <1>2, StoredType DEF Connectable
  <1>4. o \in Spent(bs) => Spender(bs, o) \in Blocks /\ v # NoUTXO
    BY <1>3, SpenderType, SpentExists, AbsentAssumption DEF AbsentAssumption
  <1>5. v # NoUTXO => v \in UTXO
    BY <1>2, <1>3
  <1>6. o \in Spent(bs) => u \in UTXO /\ u.height = v.height
    BY <1>1, <1>4, <1>5 DEF UTXO
  <1>7. o \notin Spent(bs) => u = v
    BY <1>1
  <1> HIDE DEF u, v
  <1>8. /\ o \in Created(bs) => v = Stored(bs, o)
        /\ o \notin Created(bs) => v = store[o]
    BY DEF v
  <1>9. /\ o \in Created(bs) => /\ store[o] = NoUTXO /\ u \in UTXO
                                /\ u.height = Stored(bs, o).height
                                /\ o \notin Spent(bs) => u = Stored(bs, o)
        /\ store[o] # NoUTXO => /\ u \in UTXO /\ u.height = store[o].height
                                /\ o \notin Spent(bs) => u = store[o]
        /\ (o \notin Created(bs) /\ store[o] = NoUTXO) => u = NoUTXO
        /\ u \in UTXO \cup {NoUTXO}
    BY <1>2, <1>3, <1>4, <1>5, <1>6, <1>7, <1>8
  <1> QED
    BY <1>9 DEF u

\* What taking back a block does to one output.
LEMMA DisconnectEffect ==
    ASSUME TypeOK, NEW b \in Blocks, NEW o \in Outs
    PROVE  LET u == DisconnectedStore(b)[o]
           IN  /\ u \in UTXO \cup {NoUTXO}
               /\ (o \notin Creates[b] /\ store[o] # NoUTXO)
                    => (u # NoUTXO /\ u.height = store[o].height)
               /\ (u # NoUTXO /\ u.by # NoTx) => u = store[o]
  <1>1. store[o] \in UTXO \cup {NoUTXO}
    BY DEF TypeOK
  <1>2. CASE o \in Creates[b]
    BY <1>2 DEF DisconnectedStore
  <1>3. CASE o \notin Creates[b] /\ o \in Spends[b] /\ store[o] # NoUTXO
    <2>1. DisconnectedStore(b)[o] = [height |-> store[o].height, by |-> NoTx]
      BY <1>3 DEF DisconnectedStore
    <2>2. DisconnectedStore(b)[o] \in UTXO
      BY <1>1, <1>3, <2>1 DEF UTXO
    <2> QED
      BY <1>3, <2>1, <2>2, AbsentAssumption DEF AbsentAssumption
  <1>4. CASE o \notin Creates[b] /\ ~(o \in Spends[b] /\ store[o] # NoUTXO)
    <2>1. DisconnectedStore(b)[o] = store[o]
      BY <1>4 DEF DisconnectedStore
    <2> QED
      BY <1>1, <1>4, <2>1
  <1> QED
    BY <1>2, <1>3, <1>4

-----------------------------------------------------------------------------
(* Type correctness.                                                       *)

\* A fresh node is well typed.
LEMMA InitType == Init => TypeOK
  <1> SUFFICES ASSUME Init PROVE TypeOK
    OBVIOUS
  <1>1. <<>> \in Seq(Blocks)
    BY EmptySeq
  <1> QED
    BY <1>1 DEF Init, TypeOK, NoOps

\* Every step keeps the state well typed.
LEMMA StepType == TypeOK /\ [Next]_vars => TypeOK'
  <1> SUFFICES ASSUME TypeOK, [Next]_vars PROVE TypeOK'
    OBVIOUS
  <1> USE DEF TypeOK
  <1>1. ASSUME NEW bs \in Offers, Connect(bs) PROVE TypeOK'
    <2>1. bs \in Seq(Blocks) /\ Connectable(bs)
      BY <1>1, CacheAssumption DEF Connect, CacheAssumption
    <2>2. store' \in [Outs -> UTXO \cup {NoUTXO}]
      <3>1. store' = ConnectedStore(bs)
        BY <1>1 DEF Connect
      <3>2. \A o \in Outs : ConnectedStore(bs)[o] \in UTXO \cup {NoUTXO}
        BY <2>1, ConnectEffect
      <3>3. ConnectedStore(bs) = [o \in Outs |-> ConnectedStore(bs)[o]]
        BY DEF ConnectedStore
      <3> QED
        BY <3>1, <3>2, <3>3
    <2>3. ConnectOps(bs) \in [deleted : SUBSET Outs, spent : SUBSET Outs,
                              stored : [Outs -> UTXO \cup {NoUTXO}]]
      <3>1. Spent(bs) \subseteq Outs
        BY <2>1, CacheAssumption DEF Spent, CacheAssumption
      <3>2. \A o \in Created(bs) : Stored(bs, o) \in UTXO
        BY <2>1, StoredType
      <3> QED
        BY <3>1, <3>2 DEF ConnectOps
    <2>4. chain' \in Seq(Blocks)
      BY <1>1, <2>1, ConcatProperties DEF Connect
    <2>5. raced' \subseteq Outs
      <3>1. Spent(bs) \subseteq Outs
        BY <2>1, CacheAssumption DEF Spent, CacheAssumption
      <3> QED
        BY <1>1, <3>1 DEF Connect, InFlight
    <2> QED
      BY <1>1, <2>2, <2>3, <2>4, <2>5 DEF Connect
  <1>2. ASSUME Len(chain) > 0
        PROVE  /\ chain[Len(chain)] \in Blocks
               /\ SubSeq(chain, 1, Len(chain) - 1) \in Seq(Blocks)
               /\ DisconnectedStore(chain[Len(chain)]) \in [Outs -> UTXO \cup {NoUTXO}]
    <2>1. Len(chain) \in Nat
      OBVIOUS
    <2>2. chain[Len(chain)] \in Blocks
      BY <1>2, <2>1
    <2>3. \A i \in 1 .. Len(chain) - 1 : chain[i] \in Blocks
      BY <1>2, <2>1
    <2>4. SubSeq(chain, 1, Len(chain) - 1) \in Seq(Blocks)
      BY <1>2, <2>1, <2>3, SubSeqProperties
    <2>5. \A o \in Outs : DisconnectedStore(chain[Len(chain)])[o] \in UTXO \cup {NoUTXO}
      BY <2>2, DisconnectEffect
    <2> QED
      BY <2>2, <2>4, <2>5 DEF DisconnectedStore
  <1>3. CASE Disconnect
    <2>1. Creates[chain[Len(chain)]] \subseteq Outs
      BY <1>2, <1>3, CacheAssumption DEF Disconnect, CacheAssumption
    <2>3. raced' \subseteq Outs
      BY <1>3, <2>1 DEF Disconnect, InFlight
    <2>2. todo' \in [deleted : SUBSET Outs, spent : SUBSET Outs,
                     stored : [Outs -> UTXO \cup {NoUTXO}]]
      BY <1>3, <2>1 DEF Disconnect, DisconnectOps, NoOps
    <2> QED
      BY <1>2, <1>3, <2>2, <2>3 DEF Disconnect
  <1>4. CASE Bypass
    <2>1. raced' \subseteq Outs
      BY <1>2, <1>4, CacheAssumption DEF Bypass, CacheAssumption
    <2> QED
      BY <1>2, <1>4, <2>1 DEF Bypass
  <1>5. CASE ApplyDeletions \/ InvalidateSpent \/ ApplyAdditions
    BY <1>5 DEF ApplyDeletions, InvalidateSpent, ApplyAdditions, Without, NoOps
  <1>6. ASSUME NEW o \in Outs, ValidationRead(o) \/ Evict(o) PROVE TypeOK'
    BY <1>6 DEF ValidationRead, Evict, Without
  <1>7. ASSUME NEW r \in Readers, NEW o \in Outs, FetchUTXO(r, o) PROVE TypeOK'
    BY <1>7 DEF FetchUTXO
  <1>8. ASSUME NEW r \in Readers, CacheUTXO(r) PROVE TypeOK'
    BY <1>8 DEF CacheUTXO
  <1>9. CASE FlushCache \/ Restart
    BY <1>9 DEF FlushCache, Restart, Without, NoOps
  <1>10. CASE UNCHANGED vars
    BY <1>10 DEF vars
  <1> QED
    BY <1>1, <1>3, <1>4, <1>5, <1>6, <1>7, <1>8, <1>9, <1>10 DEF Next

\* The store, the cache, the commit in progress and the reads in flight keep
\* their types, so every record the cache serves is one that StoreUTXO or
\* MarkUTXOSpent could have written.
THEOREM CacheTypeCorrect == Spec => []TypeOK
  BY InitType, StepType, PTL DEF Spec

-----------------------------------------------------------------------------
(* The cache holds nothing that the database does not.                     *)

\* Between two commits nothing is waiting to be applied to the cache.
QuietWhenIdle == step = "idle" => todo = NoOps

\* An addition that is still waiting is of an output that is committed.
PendingStored ==
    \A o \in Outs : todo.stored[o] # NoUTXO =>
        store[o] # NoUTXO /\ store[o].height = todo.stored[o].height

\* A record a reader has fetched is of an output that is still there, unless
\* the output was raced.
InFlightStored ==
    \A r \in Readers : (reads[r] # NoRead /\ reads[r].out \notin raced) =>
        /\ store[reads[r].out] # NoUTXO
        /\ store[reads[r].out].height = reads[r].utxo.height

FollowInv == TypeOK /\ QuietWhenIdle /\ CachedOutputExists /\ PendingStored /\ InFlightStored

\* A new batch is not waiting to store anything but what it creates.
LEMMA ConnectStored ==
    ASSUME NEW bs \in Seq(Blocks), NEW o \in Outs
    PROVE  ConnectOps(bs).stored[o] # NoUTXO
             => o \in Created(bs) /\ ConnectOps(bs).stored[o] = Stored(bs, o)
  BY DEF ConnectOps

\* Commits, reads, evictions, flushes and restarts keep the cache behind the
\* database; taking back a block leaves only raced outputs out of step.
LEMMA StepFollows == FollowInv /\ [Next]_vars => FollowInv'
  <1> SUFFICES ASSUME FollowInv, [Next]_vars PROVE FollowInv'
    OBVIOUS
  <1> USE DEF FollowInv
  <1>0. TypeOK'
    BY StepType
  <1>1. ASSUME NEW bs \in Offers, Connect(bs) PROVE FollowInv'
    <2>1. bs \in Seq(Blocks) /\ Connectable(bs)
      BY <1>1, CacheAssumption DEF Connect, CacheAssumption
    <2>2. /\ step = "idle" /\ step' = "delete" /\ store' = ConnectedStore(bs)
          /\ todo' = ConnectOps(bs) /\ cache' = cache /\ reads' = reads
          /\ raced \subseteq raced'
      BY <1>1 DEF Connect
    <2>3. \A o \in Outs : store[o] # NoUTXO => store'[o] # NoUTXO /\ store'[o].height = store[o].height
      BY <2>1, <2>2, ConnectEffect, AbsentAssumption DEF AbsentAssumption
    <2>4. CachedOutputExists'
      BY <2>2, <2>3 DEF CachedOutputExists
    <2>5. ASSUME NEW o \in Outs, todo'.stored[o] # NoUTXO
          PROVE  store'[o] # NoUTXO /\ store'[o].height = todo'.stored[o].height
      <3>1. o \in Created(bs) /\ todo'.stored[o] = Stored(bs, o)
        BY <2>1, <2>2, <2>5, ConnectStored
      <3> QED
        BY <2>1, <2>2, <3>1, ConnectEffect, AbsentAssumption DEF AbsentAssumption
    <2>6. InFlightStored'
      BY <2>2, <2>3 DEF InFlightStored, TypeOK
    <2> QED
      BY <1>0, <2>2, <2>4, <2>5, <2>6 DEF PendingStored, QuietWhenIdle
  <1>2. CASE Disconnect
    <2> DEFINE b == chain[Len(chain)]
    <2>1. b \in Blocks
      BY <1>2 DEF Disconnect, TypeOK
    <2>2. /\ step = "idle" /\ step' = "delete" /\ store' = DisconnectedStore(b)
          /\ todo' = DisconnectOps(b) /\ cache' = cache /\ reads' = reads
          /\ raced' = raced \cup InFlight(Creates[b])
      BY <1>2 DEF Disconnect
    <2> HIDE DEF b
    <2>3. todo'.deleted = Creates[b] /\ \A o \in Outs : todo'.stored[o] = NoUTXO
      BY <2>2 DEF DisconnectOps, NoOps
    <2>4. CachedOutputExists'
      <3> SUFFICES ASSUME NEW o \in Outs, o \notin raced, cache[o] # NoUTXO, o \notin Creates[b]
                   PROVE  store'[o] # NoUTXO /\ store'[o].height = cache[o].height
        BY <2>2, <2>3 DEF CachedOutputExists
      <3>1. store[o] # NoUTXO /\ store[o].height = cache[o].height
        BY <2>2 DEF CachedOutputExists
      <3> QED
        BY <2>1, <2>2, <3>1, DisconnectEffect
    <2>5. InFlightStored'
      <3> SUFFICES ASSUME NEW r \in Readers, reads[r] # NoRead, reads[r].out \notin raced'
                   PROVE  /\ store'[reads[r].out] # NoUTXO
                          /\ store'[reads[r].out].height = reads[r].utxo.height
        BY <2>2 DEF InFlightStored
      <3>1. reads[r].out \in Outs
        BY DEF TypeOK
      <3>2. reads[r].out \notin Creates[b] /\ reads[r].out \notin raced
        BY <2>2 DEF InFlight
      <3>3. /\ store[reads[r].out] # NoUTXO
            /\ store[reads[r].out].height = reads[r].utxo.height
        BY <3>2 DEF InFlightStored
      <3> QED
        BY <2>1, <2>2, <3>1, <3>2, <3>3, DisconnectEffect
    <2> QED
      BY <1>0, <2>2, <2>3, <2>4, <2>5 DEF PendingStored, QuietWhenIdle
  <1>3. CASE Bypass
    <2> DEFINE b == chain[Len(chain)]
    <2>1. b \in Blocks
      BY <1>3 DEF Bypass, TypeOK
    <2>2. /\ step = "idle" /\ step' = step /\ store' = DisconnectedStore(b)
          /\ todo' = todo /\ cache' = cache /\ reads' = reads
          /\ raced' = raced \cup Creates[b] /\ todo = NoOps
      BY <1>3 DEF Bypass, QuietWhenIdle
    <2> HIDE DEF b
    <2>3. ASSUME NEW o \in Outs, o \notin raced', store[o] # NoUTXO
          PROVE  store'[o] # NoUTXO /\ store'[o].height = store[o].height
      BY <2>1, <2>2, <2>3, DisconnectEffect
    <2>4. CachedOutputExists'
      BY <2>2, <2>3 DEF CachedOutputExists
    <2>5. InFlightStored'
      <3> SUFFICES ASSUME NEW r \in Readers, reads[r] # NoRead, reads[r].out \notin raced'
                   PROVE  /\ store'[reads[r].out] # NoUTXO
                          /\ store'[reads[r].out].height = reads[r].utxo.height
        BY <2>2 DEF InFlightStored
      <3>1. reads[r].out \in Outs
        BY DEF TypeOK
      <3>2. /\ store[reads[r].out] # NoUTXO
            /\ store[reads[r].out].height = reads[r].utxo.height
        BY <2>2 DEF InFlightStored
      <3> QED
        BY <2>3, <3>1, <3>2
    <2> QED
      BY <1>0, <2>2, <2>4, <2>5 DEF PendingStored, QuietWhenIdle, NoOps
  <1>4. CASE ApplyDeletions
    BY <1>0, <1>4 DEF ApplyDeletions, Without, CachedOutputExists, PendingStored,
                      InFlightStored, QuietWhenIdle
  <1>5. CASE InvalidateSpent
    BY <1>0, <1>5 DEF InvalidateSpent, Without, CachedOutputExists, PendingStored,
                      InFlightStored, QuietWhenIdle
  <1>6. CASE ApplyAdditions
    <2>1. CachedOutputExists'
      BY <1>6 DEF ApplyAdditions, CachedOutputExists, PendingStored
    <2>2. PendingStored' /\ InFlightStored' /\ QuietWhenIdle'
      BY <1>6 DEF ApplyAdditions, NoOps, PendingStored, InFlightStored, QuietWhenIdle
    <2> QED
      BY <1>0, <2>1, <2>2
  <1>7. ASSUME NEW o \in Outs, ValidationRead(o) \/ Evict(o) PROVE FollowInv'
    <2>1. CachedOutputExists'
      BY <1>7 DEF ValidationRead, Evict, Without, CachedOutputExists, TypeOK
    <2>2. PendingStored' /\ InFlightStored' /\ QuietWhenIdle'
      BY <1>7 DEF ValidationRead, Evict, PendingStored, InFlightStored, QuietWhenIdle
    <2> QED
      BY <1>0, <2>1, <2>2
  <1>8. ASSUME NEW r \in Readers, NEW o \in Outs, FetchUTXO(r, o) PROVE FollowInv'
    <2>1. CachedOutputExists' /\ PendingStored' /\ QuietWhenIdle'
      BY <1>8 DEF FetchUTXO, CachedOutputExists, PendingStored, QuietWhenIdle
    <2>2. InFlightStored'
      BY <1>8 DEF FetchUTXO, InFlightStored, TypeOK
    <2> QED
      BY <1>0, <2>1, <2>2
  <1>9. ASSUME NEW r \in Readers, CacheUTXO(r) PROVE FollowInv'
    <2>1. CachedOutputExists'
      BY <1>9 DEF CacheUTXO, CachedOutputExists, InFlightStored, TypeOK
    <2>2. PendingStored' /\ InFlightStored' /\ QuietWhenIdle'
      BY <1>9 DEF CacheUTXO, PendingStored, InFlightStored, QuietWhenIdle, TypeOK
    <2> QED
      BY <1>0, <2>1, <2>2
  <1>10. CASE FlushCache
    BY <1>0, <1>10 DEF FlushCache, Without, CachedOutputExists, PendingStored,
                       InFlightStored, QuietWhenIdle
  <1>11. CASE Restart
    BY <1>0, <1>11 DEF Restart, Without, NoOps, CachedOutputExists, PendingStored,
                       InFlightStored, QuietWhenIdle
  <1>12. CASE UNCHANGED vars
    BY <1>0, <1>12 DEF vars, CachedOutputExists, PendingStored, InFlightStored, QuietWhenIdle
  <1> QED
    BY <1>1, <1>2, <1>3, <1>4, <1>5, <1>6, <1>7, <1>8, <1>9, <1>10, <1>11, <1>12 DEF Next

\* GetUTXO never serves an output that is not committed, nor at a wrong height,
\* whatever the blocks, the batches, the readers and the cache's size, but for
\* the outputs of the two races that raced names.
THEOREM CacheFollowsStore == Spec => []CachedOutputExists
  <1>1. Init => FollowInv
    <2> SUFFICES ASSUME Init PROVE FollowInv
      OBVIOUS
    <2> QED
      BY InitType DEF Init, NoOps, FollowInv, QuietWhenIdle, CachedOutputExists,
                      PendingStored, InFlightStored
  <1>2. FollowInv /\ [Next]_vars => FollowInv'
    BY StepFollows
  <1>3. FollowInv => CachedOutputExists
    BY DEF FollowInv
  <1> QED
    BY <1>1, <1>2, <1>3, PTL DEF Spec

-----------------------------------------------------------------------------
(* The cache serves no spent output as unspent.                            *)

\* An entry names the spender of its output, unless the commit that spends it
\* has still to remove the entry.
Coherent ==
    \A o \in Outs \ raced : cache[o] # NoUTXO =>
        Fresh(o, cache[o]) \/ (step \in {"delete", "spend"} /\ o \in todo.spent)

\* So does a record that a reader has fetched.
InFlightFresh ==
    \A r \in Readers : (reads[r] # NoRead /\ reads[r].out \notin raced)
        => Fresh(reads[r].out, reads[r].utxo)

\* An addition that is still waiting is what is committed.
PendingFresh ==
    \A o \in Outs \ raced : todo.stored[o] # NoUTXO => store[o] = todo.stored[o]

SpentInv == TypeOK /\ QuietWhenIdle /\ Coherent /\ InFlightFresh /\ PendingFresh

\* A connected batch leaves what it neither creates nor spends as it was, and
\* what it creates and does not spend is unspent.
LEMMA ConnectFresh ==
    ASSUME TypeOK, NEW bs \in Seq(Blocks), Connectable(bs), NEW o \in Outs, o \notin Spent(bs),
           store' = ConnectedStore(bs), NEW u, Fresh(o, u)
    PROVE  Fresh(o, u)'
  <1>1. CASE o \in Created(bs)
    <2>1. store'[o] = Stored(bs, o)
      BY <1>1, ConnectEffect
    <2> QED
      BY <2>1 DEF Stored, Fresh
  <1>2. CASE o \notin Created(bs)
    <2>1. store'[o] = store[o]
      BY <1>2, ConnectEffect
    <2> QED
      BY <2>1 DEF Fresh
  <1> QED
    BY <1>1, <1>2

\* The order in which Commit updates the cache keeps it coherent for every
\* output that is not raced.
LEMMA StepCoherent == SpentInv /\ [Next]_vars => SpentInv'
  <1> SUFFICES ASSUME SpentInv, [Next]_vars PROVE SpentInv'
    OBVIOUS
  <1> USE DEF SpentInv
  <1>0. TypeOK'
    BY StepType
  <1>1. ASSUME NEW bs \in Offers, Connect(bs) PROVE SpentInv'
    <2>1. bs \in Seq(Blocks) /\ Connectable(bs)
      BY <1>1, CacheAssumption DEF Connect, CacheAssumption
    <2>2. /\ step = "idle" /\ step' = "delete" /\ store' = ConnectedStore(bs)
          /\ todo' = ConnectOps(bs) /\ cache' = cache /\ reads' = reads
          /\ raced' = raced \cup (Created(bs) \cap Spent(bs)) \cup InFlight(Spent(bs))
      BY <1>1 DEF Connect
    <2>3. todo'.spent = Spent(bs)
      BY <2>2 DEF ConnectOps
    <2>4. Coherent'
      <3> SUFFICES ASSUME NEW o \in Outs, o \notin raced, cache[o] # NoUTXO, o \notin Spent(bs)
                   PROVE  Fresh(o, cache[o])'
        BY <2>2, <2>3 DEF Coherent
      <3>1. Fresh(o, cache[o])
        BY <2>2 DEF Coherent
      <3>2. \A u : Fresh(o, u) => Fresh(o, u)'
        BY <2>1, <2>2, ConnectFresh
      <3> QED
        BY <2>2, <3>1, <3>2 DEF Fresh
    <2>5. InFlightFresh'
      <3> SUFFICES ASSUME NEW r \in Readers, reads[r] # NoRead, reads[r].out \notin raced'
                   PROVE  Fresh(reads[r].out, reads[r].utxo)'
        BY <2>2 DEF InFlightFresh
      <3>1. reads[r].out \in Outs /\ reads[r].out \notin Spent(bs)
        BY <2>2 DEF InFlight, TypeOK
      <3>2. Fresh(reads[r].out, reads[r].utxo)
        BY <2>2 DEF InFlightFresh
      <3>3. store'[reads[r].out] = store[reads[r].out] \/ store'[reads[r].out].by = NoTx
        <4>1. reads[r].out \in Created(bs) => store'[reads[r].out] = Stored(bs, reads[r].out)
          BY <2>1, <2>2, <3>1, ConnectEffect
        <4>2. reads[r].out \notin Created(bs) => store'[reads[r].out] = store[reads[r].out]
          BY <2>1, <2>2, <3>1, ConnectEffect
        <4> QED
          BY <4>1, <4>2 DEF Stored
      <3> QED
        BY <2>2, <3>2, <3>3 DEF Fresh
    <2>6. PendingFresh'
      <3> SUFFICES ASSUME NEW o \in Outs, o \notin raced', todo'.stored[o] # NoUTXO
                   PROVE  store'[o] = todo'.stored[o]
        BY DEF PendingFresh
      <3>1. o \in Created(bs) /\ todo'.stored[o] = Stored(bs, o)
        BY <2>1, <2>2, ConnectStored
      <3>2. o \notin Spent(bs)
        BY <2>2, <3>1
      <3> QED
        BY <2>1, <2>2, <3>1, <3>2, ConnectEffect
    <2> QED
      BY <1>0, <2>2, <2>4, <2>5, <2>6 DEF QuietWhenIdle
  <1>2. ASSUME step = "idle", Len(chain) > 0, raced \subseteq raced', cache' = cache,
               reads' = reads, store' = DisconnectedStore(chain[Len(chain)])
        PROVE  Coherent' /\ InFlightFresh'
    <2>1. chain[Len(chain)] \in Blocks
      BY <1>2 DEF TypeOK
    <2>2. \A o \in Outs : (store'[o] # NoUTXO /\ store'[o].by # NoTx) => store'[o] = store[o]
      BY <1>2, <2>1, DisconnectEffect
    <2>3. Coherent'
      BY <1>2, <2>2 DEF Coherent, Fresh
    <2>4. InFlightFresh'
      <3> SUFFICES ASSUME NEW r \in Readers, reads[r] # NoRead, reads[r].out \notin raced'
                   PROVE  Fresh(reads[r].out, reads[r].utxo)'
        BY <1>2 DEF InFlightFresh
      <3>1. reads[r].out \in Outs
        BY DEF TypeOK
      <3>2. Fresh(reads[r].out, reads[r].utxo)
        BY <1>2 DEF InFlightFresh
      <3> QED
        BY <1>2, <2>2, <3>1, <3>2 DEF Fresh
    <2> QED
      BY <2>3, <2>4
  <1>3. CASE Disconnect
    <2>1. \A o \in Outs : todo'.stored[o] = NoUTXO
      BY <1>3 DEF Disconnect, DisconnectOps, NoOps
    <2> QED
      BY <1>0, <1>2, <1>3, <2>1 DEF Disconnect, PendingFresh, QuietWhenIdle
  <1>4. CASE Bypass
    <2>1. todo' = NoOps
      BY <1>4 DEF Bypass, QuietWhenIdle
    <2>2. PendingFresh' /\ QuietWhenIdle'
      BY <1>4, <2>1 DEF Bypass, NoOps, PendingFresh, QuietWhenIdle
    <2> QED
      BY <1>0, <1>2, <1>4, <2>2 DEF Bypass
  <1>5. CASE ApplyDeletions
    BY <1>0, <1>5 DEF ApplyDeletions, Without, Coherent, InFlightFresh, PendingFresh,
                      QuietWhenIdle, Fresh
  <1>6. CASE InvalidateSpent
    BY <1>0, <1>6 DEF InvalidateSpent, Without, Coherent, InFlightFresh, PendingFresh,
                      QuietWhenIdle, Fresh
  <1>7. CASE ApplyAdditions
    <2>1. Coherent'
      BY <1>7 DEF ApplyAdditions, Coherent, PendingFresh, Fresh
    <2>2. InFlightFresh' /\ PendingFresh' /\ QuietWhenIdle'
      BY <1>7 DEF ApplyAdditions, NoOps, InFlightFresh, PendingFresh, QuietWhenIdle, Fresh
    <2> QED
      BY <1>0, <2>1, <2>2
  <1>8. ASSUME NEW o \in Outs, ValidationRead(o) \/ Evict(o) PROVE SpentInv'
    <2>1. Coherent'
      BY <1>8 DEF ValidationRead, Evict, Without, Coherent, TypeOK, Fresh
    <2>2. InFlightFresh' /\ PendingFresh' /\ QuietWhenIdle'
      BY <1>8 DEF ValidationRead, Evict, InFlightFresh, PendingFresh, QuietWhenIdle, Fresh
    <2> QED
      BY <1>0, <2>1, <2>2
  <1>9. ASSUME NEW r \in Readers, NEW o \in Outs, FetchUTXO(r, o) PROVE SpentInv'
    <2>1. Coherent' /\ PendingFresh' /\ QuietWhenIdle'
      BY <1>9 DEF FetchUTXO, Coherent, PendingFresh, QuietWhenIdle, Fresh
    <2>2. InFlightFresh'
      BY <1>9 DEF FetchUTXO, InFlightFresh, TypeOK, Fresh
    <2> QED
      BY <1>0, <2>1, <2>2
  <1>10. ASSUME NEW r \in Readers, CacheUTXO(r) PROVE SpentInv'
    <2>1. Coherent'
      BY <1>10 DEF CacheUTXO, Coherent, InFlightFresh, TypeOK, Fresh
    <2>2. InFlightFresh' /\ PendingFresh' /\ QuietWhenIdle'
      BY <1>10 DEF CacheUTXO, InFlightFresh, PendingFresh, QuietWhenIdle, TypeOK, Fresh
    <2> QED
      BY <1>0, <2>1, <2>2
  <1>11. CASE FlushCache
    BY <1>0, <1>11 DEF FlushCache, Without, Coherent, InFlightFresh, PendingFresh,
                       QuietWhenIdle, Fresh
  <1>12. CASE Restart
    BY <1>0, <1>12 DEF Restart, Without, NoOps, Coherent, InFlightFresh, PendingFresh,
                       QuietWhenIdle, Fresh
  <1>13. CASE UNCHANGED vars
    BY <1>0, <1>13 DEF vars, Coherent, InFlightFresh, PendingFresh, QuietWhenIdle, Fresh
  <1> QED
    BY <1>1, <1>3, <1>4, <1>5, <1>6, <1>8, <1>7, <1>9, <1>10, <1>11, <1>12, <1>13 DEF Next

\* A spent output is never served as unspent once its commit is done, even when
\* DeleteCorruptBlock changes the database behind the cache's back, but for the
\* outputs of the two races that raced names.
THEOREM SpentNotServedUnspent == Spec => []NoStaleUnspent
  <1>1. Init => SpentInv
    <2> SUFFICES ASSUME Init PROVE SpentInv
      OBVIOUS
    <2> QED
      BY InitType DEF Init, NoOps, SpentInv, QuietWhenIdle, Coherent, InFlightFresh, PendingFresh
  <1>2. SpentInv /\ [Next]_vars => SpentInv'
    BY StepCoherent
  <1>3. SpentInv => NoStaleUnspent
    BY DEF SpentInv, Coherent, NoStaleUnspent
  <1> QED
    BY <1>1, <1>2, <1>3, PTL DEF Spec
=============================================================================
