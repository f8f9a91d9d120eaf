--------------------------- MODULE Mempool_proofs ---------------------------
(***************************************************************************)
(* Theorems about Mempool, for every set of transactions, every number of  *)
(* goroutines and every limit: the conflict index is exact, so the pool    *)
(* never holds two transactions that spend the same output; the fee index  *)
(* is exact; pool and orphan pool keep to their limits; and after a block  *)
(* the pool holds nothing that the block confirms or spends.               *)
(***************************************************************************)
EXTENDS Mempool, FiniteSetTheorems, SequenceTheorems, TLAPS

-----------------------------------------------------------------------------
(* The operators.                                                          *)

NoDuplicates(s) == \A i, j \in DOMAIN s : s[i] = s[j] => i = j

\* Taking an orphan out leaves a sequence of orphans, no longer than before and
\* without new duplicates.
LEMMA WithoutProperties ==
    ASSUME NEW S, NEW s \in Seq(S), NEW t
    PROVE  /\ Without(t, s) \in Seq(S)
           /\ Len(Without(t, s)) <= Len(s)
           /\ NoDuplicates(s) => NoDuplicates(Without(t, s))
  <1>1. CASE t \notin ToSet(s)
    BY <1>1 DEF Without
  <1>2. CASE t \in ToSet(s)
    <2> DEFINE i == CHOOSE k \in DOMAIN s : s[k] = t
               f == SubSeq(s, 1, i - 1)
               g == SubSeq(s, i + 1, Len(s))
               r == f \o g
    <2>1. i \in 1 .. Len(s)
      BY <1>2 DEF ToSet
    <2> HIDE DEF i
    <2>2. f \in Seq(S) /\ Len(f) = i - 1 /\ \A k \in 1 .. i - 1 : f[k] = s[k]
      BY <2>1, SubSeqProperties
    <2>3. g \in Seq(S) /\ Len(g) = Len(s) - i /\ \A k \in 1 .. Len(s) - i : g[k] = s[i + k]
      <3>1. i + 1 \in Int /\ Len(s) \in Int /\ \A k \in i + 1 .. Len(s) : s[k] \in S
        BY <2>1
      <3>2. /\ g \in Seq(S)
            /\ Len(g) = IF i + 1 <= Len(s) THEN Len(s) - (i + 1) + 1 ELSE 0
            /\ \A k \in 1 .. Len(s) - (i + 1) + 1 : g[k] = s[(i + 1) + k - 1]
        BY <3>1, SubSeqProperties
      <3> HIDE DEF g
      <3> QED
        BY <2>1, <3>2
    <2> HIDE DEF f, g
    <2>4. r \in Seq(S) /\ Len(r) = Len(s) - 1
      <3>1. r \in Seq(S) /\ Len(r) = Len(f) + Len(g)
        BY <2>2, <2>3
      <3> HIDE DEF r
      <3> QED
        BY <2>1, <2>2, <2>3, <3>1
    <2>5. \A k \in 1 .. Len(s) - 1 : r[k] = s[IF k < i THEN k ELSE k + 1]
      <3> TAKE k \in 1 .. Len(s) - 1
      <3>1. CASE k < i
        BY <3>1, <2>1, <2>2, <2>3
      <3>2. CASE ~(k < i)
        <4>1. r[k] = g[k - (i - 1)]
          BY <3>2, <2>1, <2>2, <2>3
        <4>2. k - (i - 1) \in 1 .. Len(s) - i /\ i + (k - (i - 1)) = k + 1
          BY <3>2, <2>1
        <4> QED
          BY <4>1, <4>2, <2>3, <3>2
      <3> QED
        BY <3>1, <3>2
    <2>6. Without(t, s) = r
      BY <1>2 DEF Without, RemoveAt, i, f, g
    <2> HIDE DEF r
    <2>7. NoDuplicates(s) => NoDuplicates(r)
      <3> SUFFICES ASSUME NoDuplicates(s), NEW j \in 1 .. Len(s) - 1, NEW k \in 1 .. Len(s) - 1,
                          r[j] = r[k]
                   PROVE  j = k
        BY <2>4 DEF NoDuplicates
      <3> DEFINE at(n) == IF n < i THEN n ELSE n + 1
      <3>1. at(j) \in DOMAIN s /\ at(k) \in DOMAIN s
        BY <2>1
      <3>2. s[at(j)] = s[at(k)]
        BY <2>5
      <3>3. at(j) = at(k)
        BY <3>1, <3>2 DEF NoDuplicates
      <3> QED
        BY <3>3, <2>1
    <2> QED
      BY <2>4, <2>6, <2>7
  <1> QED
    BY <1>1, <1>2

\* Storing an orphan keeps the limit and adds no duplicate.
LEMMA StoredOrphansProperties ==
    ASSUME NEW S, orphans \in Seq(S), OrphanBound, NEW t \in S
    PROVE  /\ StoredOrphans(t) \in Seq(S)
           /\ Len(StoredOrphans(t)) <= MaxOrphans
           /\ NoDuplicates(StoredOrphans(t))
  <1>1. CASE t \in ToSet(orphans)
    BY <1>1 DEF StoredOrphans, OrphanBound, NoDuplicates
  <1>2. CASE t \notin ToSet(orphans)
    <2> DEFINE q == IF Len(orphans) >= MaxOrphans THEN Tail(orphans) ELSE orphans
    <2>1. /\ q \in Seq(S) /\ Len(q) < MaxOrphans /\ NoDuplicates(q)
          /\ \A k \in DOMAIN q : q[k] # t
      <3>1. CASE Len(orphans) >= MaxOrphans
        <4>1. Len(orphans) = MaxOrphans /\ MaxOrphans \in Nat \ {0}
          BY <3>1, BoundAssumption DEF OrphanBound, BoundAssumption
        <4>2. orphans # << >>
          BY <4>1
        <4>3. /\ q \in Seq(S) /\ Len(q) = Len(orphans) - 1
              /\ \A k \in 1 .. Len(q) : q[k] = orphans[k + 1]
          BY <3>1, <4>2, HeadTailProperties
        <4> HIDE DEF q
        <4>4. \A k \in DOMAIN q : k + 1 \in DOMAIN orphans
          BY <4>1, <4>3
        <4> QED
          BY <4>1, <4>3, <4>4, <1>2 DEF OrphanBound, NoDuplicates, ToSet
      <3>2. CASE ~(Len(orphans) >= MaxOrphans)
        BY <3>2, <1>2, BoundAssumption DEF OrphanBound, NoDuplicates, ToSet, BoundAssumption
      <3> QED
        BY <3>1, <3>2
    <2>2. StoredOrphans(t) = Append(q, t)
      BY <1>2 DEF StoredOrphans
    <2> HIDE DEF q
    <2>3. /\ Append(q, t) \in Seq(S) /\ Len(Append(q, t)) = Len(q) + 1
          /\ \A k \in 1 .. Len(q) : Append(q, t)[k] = q[k]
          /\ Append(q, t)[Len(q) + 1] = t
      BY <2>1, AppendProperties
    <2>4. NoDuplicates(Append(q, t))
      BY <2>1, <2>3 DEF NoDuplicates
    <2> QED
      BY <2>1, <2>2, <2>3, <2>4, BoundAssumption DEF BoundAssumption
  <1> QED
    BY <1>1, <1>2

\* A sequence without its last element.
LEMMA FrontElements ==
    ASSUME NEW S, NEW s \in Seq(S), s # <<>>
    PROVE  /\ Front(s) \in Seq(S) /\ Len(Front(s)) = Len(s) - 1
           /\ \A i \in 1 .. Len(s) - 1 : Front(s)[i] = s[i]
  <1> DEFINE n == Len(s) - 1
  <1>1. n \in Nat /\ 1 \in Int /\ n \in Int /\ \A i \in 1 .. n : s[i] \in S
    OBVIOUS
  <1>2. Front(s) = SubSeq(s, 1, n)
    BY DEF Front
  <1> HIDE DEF n
  <1>3. /\ SubSeq(s, 1, n) \in Seq(S)
        /\ Len(SubSeq(s, 1, n)) = IF 1 <= n THEN n - 1 + 1 ELSE 0
        /\ \A i \in 1 .. n - 1 + 1 : SubSeq(s, 1, n)[i] = s[1 + i - 1]
    BY <1>1, SubSeqProperties
  <1>4. Len(Front(s)) = n /\ \A i \in 1 .. n : Front(s)[i] = s[i]
    BY <1>1, <1>2, <1>3
  <1> QED
    BY <1>2, <1>3, <1>4 DEF n

\* Removal takes out of the map and of the index the same transactions.
LEMMA RemovedIndex ==
    ASSUME TypeOK, SpentIndexExact, NEW S \in SUBSET PoolTxs, Removed(S)
    PROVE  SpentIndexExact'
  BY TxAssumption DEF TypeOK, SpentIndexExact, Removed, PoolTxs, TxAssumption

LEMMA RemovedType ==
    ASSUME TypeOK, NEW S \in SUBSET PoolTxs, Removed(S)
    PROVE  /\ txs' \subseteq PoolTxs /\ spentOutpoints' \in [Txs -> PoolTxs \cup {None}]
           /\ byFeeRate' \in [Txs -> Nat] /\ owed' \in Nat /\ raced' \subseteq Txs
  <1>1. Cardinality(S) \in Nat
    BY FS_Subset, FS_CardinalityType, TxAssumption DEF TxAssumption, PoolTxs
  <1> QED
    BY <1>1 DEF TypeOK, Removed, Overlaps, PoolTxs

-----------------------------------------------------------------------------
(* The inductive invariant.                                                *)

Inv == TypeOK /\ SpentIndexExact /\ OrphanBound

\* The part of TypeOK about the goroutines that add transactions.
WorkersOK ==
    /\ orphans \in Seq(PoolTxs)
    /\ pc \in [Workers -> {"idle", "check", "orphan", "validate", "capacity",
                           "insert", "index", "count", "next"}]
    /\ job \in [Workers -> Job]
    /\ \A w \in Workers : pc[w] \notin {"idle", "next"} => job[w].tx # None

NoJobType == NoJob \in Job

LEMMA NoJobTyped == NoJobType
  BY DEF NoJobType, NoJob, Job

LEMMA FailStep ==
    ASSUME WorkersOK, OrphanBound, NEW w \in Workers, NEW m \in BOOLEAN, Fail(w, m)
    PROVE  WorkersOK' /\ OrphanBound'
  <1>1. job[w] \in Job /\ [job[w] EXCEPT !.tx = None] \in Job
    BY DEF WorkersOK, Job
  <1>2. job' \in [Workers -> Job]
    BY <1>1, NoJobTyped DEF Fail, WorkersOK, NoJobType
  <1>3. orphans' \in Seq(PoolTxs) /\ OrphanBound'
    <2>1. CASE job[w].nested /\ ~m
      <3>1. orphans' = Without(job[w].tx, orphans) /\ NoDuplicates(orphans)
        BY <2>1 DEF Fail, OrphanBound, NoDuplicates
      <3>2. /\ orphans' \in Seq(PoolTxs) /\ Len(orphans') <= Len(orphans)
            /\ NoDuplicates(orphans')
        BY <3>1, WithoutProperties DEF WorkersOK
      <3> QED
        BY <3>2, BoundAssumption DEF OrphanBound, NoDuplicates, WorkersOK, BoundAssumption
    <2>2. CASE ~(job[w].nested /\ ~m)
      BY <2>2 DEF Fail, WorkersOK, OrphanBound
    <2> QED
      BY <2>1, <2>2
  <1>4. pc' \in [Workers -> {"idle", "check", "orphan", "validate", "capacity",
                             "insert", "index", "count", "next"}]
    BY DEF Fail, WorkersOK
  <1>5. \A v \in Workers : pc'[v] \notin {"idle", "next"} => job'[v].tx # None
    BY DEF Fail, WorkersOK
  <1> QED
    BY <1>2, <1>3, <1>4, <1>5 DEF WorkersOK

LEMMA GoToStep ==
    ASSUME WorkersOK, OrphanBound, NEW w \in Workers, pc[w] \notin {"idle", "next"},
           NEW step \in {"orphan", "validate", "capacity", "insert", "index", "count"},
           GoTo(w, step)
    PROVE  WorkersOK' /\ OrphanBound'
  BY DEF WorkersOK, OrphanBound, GoTo

\* A step that leaves map and index alone keeps the index exact.
LEMMA PoolUnchanged ==
    ASSUME SpentIndexExact, UNCHANGED poolVars
    PROVE  SpentIndexExact'
  BY DEF SpentIndexExact, poolVars

\* The initial state.
LEMMA InitInv == ASSUME Init PROVE Inv
  <1>1. TypeOK
    <2>1. job \in [Workers -> Job] /\ \A w \in Workers : pc[w] = "idle"
      BY NoJobTyped DEF Init, NoJobType
    <2>2. block \in [txs : SUBSET Txs, collected : BOOLEAN, toRemove : SUBSET PoolTxs]
      BY DEF Init, NoBlock
    <2>3. /\ chain \in Seq(SUBSET Txs) /\ txs \subseteq PoolTxs /\ orphans \in Seq(PoolTxs)
          /\ spentOutpoints \in [Txs -> PoolTxs \cup {None}]
      BY DEF Init
    <2>4. /\ byFeeRate \in [Txs -> Nat] /\ count \in Nat /\ owed \in Nat
          /\ adds \in 0 .. MaxAdds /\ ops \in 0 .. MaxOps
      BY BoundAssumption DEF Init, BoundAssumption
    <2>5. /\ pc \in [Workers -> {"idle", "check", "orphan", "validate", "capacity",
                                  "insert", "index", "count", "next"}]
          /\ clearing \in {"no", "stats", "orphans"} /\ raced \subseteq Txs
      BY DEF Init
    <2>6. reset \in BOOLEAN
      BY DEF Init
    <2> QED
      BY <2>1, <2>2, <2>3, <2>4, <2>5, <2>6 DEF TypeOK
  <1>2. SpentIndexExact
    BY TxAssumption DEF Init, SpentIndexExact, PoolTxs, TxAssumption
  <1>3. OrphanBound
    BY BoundAssumption DEF Init, OrphanBound, BoundAssumption
  <1> QED
    BY <1>1, <1>2, <1>3 DEF Inv

\* addTransaction.
LEMMA AddInv ==
    ASSUME Inv, NEW w \in Workers, NEW t \in PoolTxs, Add(w, t)
    PROVE  Inv'
  <1>1. [NoJob EXCEPT !.tx = t] \in Job /\ t # None
    BY NoJobTyped, TxAssumption DEF NoJobType, Job, PoolTxs, TxAssumption
  <1>2. adds' \in 0 .. MaxAdds
    BY BoundAssumption DEF Inv, TypeOK, Add, BoundAssumption
  <1>3. job' \in [Workers -> Job] /\ job'[w] = [NoJob EXCEPT !.tx = t]
        /\ \A v \in Workers : v # w => job'[v] = job[v] /\ pc'[v] = pc[v]
    BY <1>1 DEF Inv, TypeOK, Add
  <1>4. job'[w].tx = t
    BY <1>3 DEF NoJob
  <1>5. WorkersOK'
    BY <1>1, <1>3, <1>4 DEF Inv, TypeOK, Add, WorkersOK
  <1>6. TypeOK'
    BY <1>2, <1>5 DEF Inv, TypeOK, Add, WorkersOK, poolVars, history
  <1> QED
    BY <1>6, PoolUnchanged DEF Inv, Add, OrphanBound

\* A step of addTransaction that touches neither map, indexes nor statistics.
LEMMA QuietStep ==
    ASSUME Inv, WorkersOK', OrphanBound',
           UNCHANGED <<chain, poolVars, count, adds, block, owed, clearing, history, ops>>
    PROVE  Inv'
  <1>1. TypeOK'
    BY DEF Inv, TypeOK, WorkersOK, poolVars, history
  <1> QED
    BY <1>1, PoolUnchanged DEF Inv

LEMMA CheckInv ==
    ASSUME Inv, NEW w \in Workers, Check(w)
    PROVE  Inv'
  <1>1. WorkersOK /\ OrphanBound
    BY DEF Inv, TypeOK, WorkersOK
  <1>2. CASE job[w].tx \in txs
    BY <1>1, <1>2, FailStep, QuietStep DEF Check
  <1>3. CASE job[w].tx \notin txs
    BY <1>1, <1>3, GoToStep, QuietStep DEF Check
  <1> QED
    BY <1>2, <1>3

LEMMA StoreOrphanInv ==
    ASSUME Inv, NEW w \in Workers, StoreOrphan(w)
    PROVE  Inv'
  <1>1. WorkersOK /\ OrphanBound
    BY DEF Inv, TypeOK, WorkersOK
  <1>2. job[w] \in Job /\ [job[w] EXCEPT !.tx = None] \in Job /\ job[w].tx \in PoolTxs
    BY <1>1 DEF WorkersOK, Job, StoreOrphan
  <1>3. orphans' \in Seq(PoolTxs) /\ OrphanBound'
    BY <1>1, <1>2, StoredOrphansProperties DEF StoreOrphan, OrphanBound, NoDuplicates, WorkersOK
  <1>4. job' \in [Workers -> Job]
    BY <1>1, <1>2, NoJobTyped DEF StoreOrphan, WorkersOK, NoJobType
  <1>5. WorkersOK'
    BY <1>1, <1>3, <1>4 DEF StoreOrphan, WorkersOK
  <1> QED
    BY <1>3, <1>5, QuietStep DEF StoreOrphan

LEMMA ValidateInv ==
    ASSUME Inv, NEW w \in Workers, Validate(w)
    PROVE  Inv'
  <1>1. WorkersOK /\ OrphanBound
    BY DEF Inv, TypeOK, WorkersOK
  <1>2. CASE Conflicts(job[w].tx)
    BY <1>1, <1>2, FailStep, QuietStep DEF Validate
  <1>3. CASE ~Conflicts(job[w].tx) /\ Inputs[job[w].tx] \subseteq Unspent
    BY <1>1, <1>3, GoToStep, QuietStep DEF Validate
  <1>4. CASE ~Conflicts(job[w].tx) /\ ~(Inputs[job[w].tx] \subseteq Unspent)
    BY <1>1, <1>4, FailStep, QuietStep DEF Validate
  <1> QED
    BY <1>2, <1>3, <1>4

LEMMA CheckCapacityInv ==
    ASSUME Inv, NEW w \in Workers, CheckCapacity(w)
    PROVE  Inv'
  <1>1. WorkersOK /\ OrphanBound
    BY DEF Inv, TypeOK, WorkersOK
  <1>2. CASE count >= MaxTransactions
    BY <1>1, <1>2, FailStep, QuietStep DEF CheckCapacity
  <1>3. CASE ~(count >= MaxTransactions)
    BY <1>1, <1>3, GoToStep, QuietStep DEF CheckCapacity
  <1> QED
    BY <1>2, <1>3

\* The insertion looks for conflicts again under the write lock: the entries it
\* writes were free.
LEMMA InsertInv ==
    ASSUME Inv, NEW w \in Workers, Insert(w)
    PROVE  Inv'
  <1> DEFINE t == job[w].tx
  <1>1. WorkersOK /\ OrphanBound
    BY DEF Inv, TypeOK, WorkersOK
  <1>2. CASE Conflicts(t)
    BY <1>1, <1>2, FailStep, QuietStep DEF Insert
  <1>3. CASE ~Conflicts(t)
    <2>1. t \in PoolTxs
      BY <1>1 DEF WorkersOK, Job, Insert
    <2>2. /\ GoTo(w, "index")
          /\ txs' = txs \cup {t}
          /\ spentOutpoints' = [o \in Txs |-> IF o \in Inputs[t] THEN t ELSE spentOutpoints[o]]
          /\ byFeeRate' = byFeeRate
      BY <1>3 DEF Insert
    <2>3. WorkersOK' /\ OrphanBound'
      BY <1>1, <2>2, GoToStep DEF Insert
    <2> HIDE DEF t
    <2>4. TypeOK'
      BY <2>1, <2>2, <2>3 DEF Insert, Inv, TypeOK, WorkersOK, history
    <2>5. SpentIndexExact'
      <3> SUFFICES ASSUME NEW o \in Txs, NEW u \in PoolTxs
                   PROVE  (spentOutpoints'[o] = u) <=> (u \in txs' /\ o \in Inputs[u])
        BY DEF SpentIndexExact
      <3>1. (spentOutpoints[o] = u) <=> (u \in txs /\ o \in Inputs[u])
        BY DEF Inv, SpentIndexExact
      <3>2. CASE o \in Inputs[t]
        <4>1. spentOutpoints'[o] = t
          BY <2>2, <3>2
        <4>2. spentOutpoints[o] = None
          BY <1>3, <3>2 DEF Conflicts
        <4>3. u # None
          BY TxAssumption DEF TxAssumption, PoolTxs
        <4> QED
          BY <4>1, <4>2, <4>3, <3>1, <3>2, <2>2
      <3>3. CASE o \notin Inputs[t]
        BY <3>1, <3>3, <2>2
      <3> QED
        BY <3>2, <3>3
    <2> QED
      BY <2>3, <2>4, <2>5 DEF Inv
  <1> QED
    BY <1>2, <1>3

LEMMA UpdateIndexesInv ==
    ASSUME Inv, NEW w \in Workers, UpdateIndexes(w)
    PROVE  Inv'
  <1>1. WorkersOK /\ OrphanBound
    BY DEF Inv, TypeOK, WorkersOK
  <1>2. WorkersOK' /\ OrphanBound'
    BY <1>1, GoToStep DEF UpdateIndexes
  <1>3. byFeeRate' \in [Txs -> Nat]
    <2>1. job[w].tx \in Txs
      BY <1>1 DEF UpdateIndexes, WorkersOK, Job, PoolTxs
    <2> QED
      BY <2>1 DEF UpdateIndexes, Inv, TypeOK
  <1>4. TypeOK'
    BY <1>2, <1>3 DEF UpdateIndexes, Inv, TypeOK, WorkersOK, history
  <1>5. SpentIndexExact'
    BY DEF UpdateIndexes, Inv, SpentIndexExact
  <1> QED
    BY <1>2, <1>4, <1>5 DEF Inv

LEMMA UpdateAddStatsInv ==
    ASSUME Inv, NEW w \in Workers, UpdateAddStats(w)
    PROVE  Inv'
  <1> DEFINE j == [job[w] EXCEPT !.tx = None, !.nested = TRUE, !.queue = Append(@, job[w].tx)]
  <1>1. WorkersOK /\ OrphanBound
    BY DEF Inv, TypeOK, WorkersOK
  <1>2. job[w] \in Job /\ job[w].tx \in PoolTxs
    BY <1>1 DEF WorkersOK, Job, UpdateAddStats
  <1>3. j \in Job
    <2>1. Append(job[w].queue, job[w].tx) \in Seq(PoolTxs)
      BY <1>2 DEF Job
    <2> QED
      BY <1>2, <2>1 DEF Job
  <1>4. job' = [job EXCEPT ![w] = j] /\ pc' = [pc EXCEPT ![w] = "next"]
    BY DEF UpdateAddStats
  <1> HIDE DEF j
  <1>5. orphans' \in Seq(PoolTxs) /\ OrphanBound'
    <2>1. CASE job[w].nested
      <3>1. orphans' = Without(job[w].tx, orphans) /\ NoDuplicates(orphans)
        BY <1>1, <2>1 DEF UpdateAddStats, OrphanBound, NoDuplicates
      <3>2. /\ orphans' \in Seq(PoolTxs) /\ Len(orphans') <= Len(orphans)
            /\ NoDuplicates(orphans')
        BY <1>1, <3>1, WithoutProperties DEF WorkersOK
      <3> QED
        BY <1>1, <3>2, BoundAssumption DEF OrphanBound, NoDuplicates, WorkersOK, BoundAssumption
    <2>2. CASE ~job[w].nested
      BY <1>1, <2>2 DEF UpdateAddStats, WorkersOK, OrphanBound
    <2> QED
      BY <2>1, <2>2
  <1>6. WorkersOK'
    BY <1>1, <1>3, <1>4, <1>5 DEF WorkersOK
  <1>7. count' \in Nat
    BY DEF UpdateAddStats, Inv, TypeOK
  <1>8. TypeOK'
    BY <1>6, <1>7 DEF UpdateAddStats, Inv, TypeOK, WorkersOK, poolVars, history
  <1>9. SpentIndexExact'
    BY PoolUnchanged DEF UpdateAddStats, Inv
  <1> QED
    BY <1>5, <1>8, <1>9 DEF Inv

LEMMA ProcessOrphansInv ==
    ASSUME Inv, NEW w \in Workers, ProcessOrphans(w)
    PROVE  Inv'
  <1>1. WorkersOK /\ OrphanBound
    BY DEF Inv, TypeOK, WorkersOK
  <1>2. job[w] \in Job
    BY <1>1 DEF WorkersOK
  <1>3. WorkersOK'
    <2>1. CASE \E t \in job[w].cands :
                  /\ pc' = [pc EXCEPT ![w] = "check"]
                  /\ job' = [job EXCEPT ![w] = [job[w] EXCEPT !.tx = t, !.cands = @ \ {t}]]
      <3>1. PICK t \in job[w].cands :
                  /\ pc' = [pc EXCEPT ![w] = "check"]
                  /\ job' = [job EXCEPT ![w] = [job[w] EXCEPT !.tx = t, !.cands = @ \ {t}]]
        BY <2>1
      <3>2. t \in PoolTxs /\ t # None
        BY <1>2, TxAssumption DEF Job, PoolTxs, TxAssumption
      <3>3. [job[w] EXCEPT !.tx = t, !.cands = @ \ {t}] \in Job
            /\ [job[w] EXCEPT !.tx = t, !.cands = @ \ {t}].tx = t
        BY <1>2, <3>2 DEF Job
      <3>4. job' \in [Workers -> Job] /\ job'[w].tx = t
        BY <1>1, <3>1, <3>3 DEF WorkersOK
      <3> QED
        BY <1>1, <3>1, <3>2, <3>4 DEF WorkersOK, ProcessOrphans
    <2>2. CASE /\ job[w].cands = {} /\ job[w].queue # <<>>
               /\ job' = [job EXCEPT ![w] = [job[w] EXCEPT !.queue = Tail(@),
                            !.cands = {t \in ToSet(orphans) : Head(job[w].queue) \in Inputs[t]}]]
               /\ UNCHANGED pc
      <3> DEFINE S == {t \in ToSet(orphans) : Head(job[w].queue) \in Inputs[t]}
                 j == [job[w] EXCEPT !.queue = Tail(@), !.cands = S]
      <3>1. Tail(job[w].queue) \in Seq(PoolTxs)
        BY <1>2, <2>2 DEF Job
      <3>2. S \subseteq PoolTxs
        BY <1>1 DEF WorkersOK, ToSet
      <3>3. j \in Job
        BY <1>2, <3>1, <3>2 DEF Job
      <3>4. job' = [job EXCEPT ![w] = j]
        BY <2>2
      <3> HIDE DEF j
      <3>5. \A v \in Workers : pc[v] \notin {"idle", "next"} => job'[v] = job[v]
        BY <1>1, <3>4 DEF ProcessOrphans, WorkersOK
      <3> QED
        BY <1>1, <2>2, <3>3, <3>4, <3>5 DEF WorkersOK, ProcessOrphans
    <2>3. CASE pc' = [pc EXCEPT ![w] = "idle"] /\ job' = [job EXCEPT ![w] = NoJob]
      BY <1>1, <2>3, NoJobTyped DEF WorkersOK, ProcessOrphans, NoJobType
    <2> QED
      BY <2>1, <2>2, <2>3 DEF ProcessOrphans
  <1> QED
    BY <1>3, QuietStep DEF ProcessOrphans, Inv, OrphanBound

\* Removal and Clear.
LEMMA RemovalInv ==
    ASSUME Inv, NEW S \in SUBSET PoolTxs, Removed(S),
           ops' \in 0 .. MaxOps,
           block' \in [txs : SUBSET Txs, collected : BOOLEAN, toRemove : SUBSET PoolTxs],
           UNCHANGED <<chain, orphans, count, workerVars, clearing, reset>>
    PROVE  Inv'
  <1>1. TypeOK /\ SpentIndexExact
    BY DEF Inv
  <1>2. TypeOK'
    BY <1>1, RemovedType DEF TypeOK, workerVars
  <1>3. SpentIndexExact'
    BY <1>1, RemovedIndex
  <1> QED
    BY <1>2, <1>3 DEF Inv, OrphanBound

LEMMA OtherInv ==
    ASSUME Inv,
           \/ UpdateRemoveStats \/ UpdatePriority
           \/ ClearMaps \/ ClearStats \/ ClearOrphans
    PROVE  Inv'
  <1>0. TypeOK /\ SpentIndexExact /\ OrphanBound
    BY DEF Inv
  <1>1. CASE UpdateRemoveStats
    <2>1. owed' \in Nat /\ count' \in Nat
      BY <1>0, <1>1 DEF UpdateRemoveStats, TypeOK
    <2> QED
      BY <1>0, <1>1, <2>1, PoolUnchanged
      DEF UpdateRemoveStats, Inv, TypeOK, OrphanBound, poolVars, workerVars, history
  <1>2. CASE UpdatePriority
    <2>1. byFeeRate' \in [Txs -> Nat] /\ ops' \in 0 .. MaxOps
      BY <1>0, <1>2, BoundAssumption DEF UpdatePriority, TypeOK, BoundAssumption
    <2>2. raced' \subseteq Txs
      <3>1. \A v \in Workers : pc[v] = "index" => job[v].tx \in Txs
        BY <1>0 DEF TypeOK, Job, PoolTxs
      <3> QED
        BY <1>0, <1>2, <3>1 DEF UpdatePriority, TypeOK
    <2>3. TypeOK'
      BY <1>0, <1>2, <2>1, <2>2 DEF UpdatePriority, TypeOK, workerVars
    <2> QED
      BY <1>0, <1>2, <2>3 DEF UpdatePriority, Inv, SpentIndexExact, OrphanBound
  <1>3. CASE ClearMaps
    <2>1. ops' \in 0 .. MaxOps /\ byFeeRate' \in [Txs -> Nat]
      BY <1>0, <1>3, BoundAssumption DEF ClearMaps, TypeOK, BoundAssumption
    <2>2. raced' \subseteq Txs
      <3>1. \A v \in Workers : pc[v] \in {"index", "count"} => job[v].tx \in Txs
        BY <1>0 DEF TypeOK, Job, PoolTxs
      <3> QED
        BY <1>0, <1>3, <3>1 DEF ClearMaps, TypeOK, Uncounted
    <2>3. TypeOK'
      BY <1>0, <1>3, <2>1, <2>2 DEF ClearMaps, TypeOK, workerVars
    <2>4. SpentIndexExact'
      BY <1>3, TxAssumption DEF ClearMaps, SpentIndexExact, PoolTxs, TxAssumption
    <2> QED
      BY <1>0, <1>3, <2>3, <2>4 DEF ClearMaps, Inv, OrphanBound
  <1>4. CASE ClearStats
    <2>1. reset' \in BOOLEAN
      BY <1>4 DEF ClearStats
    <2>2. count' \in Nat
      BY <1>4 DEF ClearStats
    <2>3. TypeOK'
      BY <1>0, <1>4, <2>1, <2>2 DEF ClearStats, TypeOK, poolVars, workerVars
    <2> QED
      BY <1>0, <1>4, <2>3, PoolUnchanged DEF ClearStats, Inv, OrphanBound
  <1>5. CASE ClearOrphans
    <2>1. orphans' \in Seq(PoolTxs) /\ OrphanBound'
      BY <1>5, BoundAssumption DEF ClearOrphans, OrphanBound, BoundAssumption
    <2>2. TypeOK'
      BY <1>0, <1>5, <2>1 DEF ClearOrphans, TypeOK, poolVars, workerVars, history
    <2> QED
      BY <1>0, <1>5, <2>1, <2>2, PoolUnchanged DEF ClearOrphans, Inv
  <1> QED
    BY <1>1, <1>2, <1>3, <1>4, <1>5

\* The block processor.
LEMMA BlockInv ==
    ASSUME Inv,
           \/ \E b \in Offers : Connect(b)
           \/ CollectConfirmed \/ Disconnect
    PROVE  Inv'
  <1>0. TypeOK /\ SpentIndexExact /\ OrphanBound
    BY DEF Inv
  <1>1. \A v \in Workers : pc[v] \notin {"idle", "next"} => job[v].tx \in Txs
    BY <1>0 DEF TypeOK, Job, PoolTxs
  <1>2. ASSUME NEW b \in Offers, Connect(b)
        PROVE  Inv'
    <2>1. b \subseteq Txs
      BY TxAssumption DEF TxAssumption, PoolTxs
    <2>2. chain' \in Seq(SUBSET Txs)
      <3>1. chain' = Append(chain, b)
        BY <1>2 DEF Connect, Commit
      <3> QED
        BY <1>0, <2>1, <3>1 DEF TypeOK
    <2>3. block' \in [txs : SUBSET Txs, collected : BOOLEAN, toRemove : SUBSET PoolTxs]
      <3>1. block' \in {block, [NoBlock EXCEPT !.txs = b, !.collected = FALSE]}
        BY <1>2 DEF Connect, Commit
      <3> QED
        BY <1>0, <2>1, <3>1 DEF NoBlock, TypeOK
    <2>4. raced' \subseteq Txs
      <3>1. raced' \subseteq raced \cup {job[w].tx : w \in InFlight} \cup Collected(b)
        BY <1>2 DEF Connect, Commit
      <3>2. Collected(b) \subseteq Txs
        BY <1>0 DEF Collected, TypeOK, PoolTxs
      <3>3. {job[w].tx : w \in InFlight} \subseteq Txs
        <4>1. \A w \in InFlight : w \in Workers /\ pc[w] \notin {"idle", "next"}
          BY DEF InFlight
        <4> QED
          BY <1>1, <4>1
      <3>4. raced \subseteq Txs
        BY <1>0 DEF TypeOK
      <3> QED
        BY <3>1, <3>2, <3>3, <3>4
    <2>5. TypeOK'
      <3>1. /\ UNCHANGED <<orphans, count, owed, clearing, reset>>
            /\ UNCHANGED <<txs, spentOutpoints, byFeeRate, pc, job, adds>>
        BY <1>2 DEF Connect, Commit, poolVars, workerVars
      <3>2. ops' \in 0 .. MaxOps
        <4>1. ops' = ops \/ (ops < MaxOps /\ ops' = ops + 1)
          BY <1>2 DEF Connect, Commit
        <4>2. ops \in 0 .. MaxOps
          BY <1>0 DEF TypeOK
        <4> QED
          BY <4>1, <4>2, BoundAssumption DEF BoundAssumption
      <3> QED
        BY <1>0, <2>2, <2>3, <2>4, <3>1, <3>2 DEF TypeOK
    <2> QED
      BY <1>0, <1>2, <2>5, PoolUnchanged DEF Connect, Commit, Inv, OrphanBound
  <1>3. CASE CollectConfirmed
    <2>1. Collected(block.txs) \subseteq PoolTxs
      BY <1>0 DEF TypeOK, Collected
    <2>2. block' \in [txs : SUBSET Txs, collected : BOOLEAN, toRemove : SUBSET PoolTxs]
      BY <1>0, <1>3, <2>1 DEF CollectConfirmed, TypeOK, NoBlock
    <2>3. TypeOK'
      BY <1>0, <1>3, <2>2 DEF CollectConfirmed, TypeOK, poolVars, workerVars, history
    <2> QED
      BY <1>0, <1>3, <2>3, PoolUnchanged DEF CollectConfirmed, Inv, OrphanBound
  <1>4. CASE Disconnect
    <2>1. chain' \in Seq(SUBSET Txs)
      BY <1>0, <1>4, SubSeqProperties DEF Disconnect, TypeOK, Front
    <2>2. ops' \in 0 .. MaxOps
      BY <1>0, <1>4, BoundAssumption DEF Disconnect, TypeOK, BoundAssumption
    <2>3. raced' \subseteq Txs
      BY <1>0, <1>4 DEF Disconnect, TypeOK, PoolTxs
    <2>4. TypeOK'
      BY <1>0, <1>4, <2>1, <2>2, <2>3 DEF Disconnect, TypeOK, poolVars, workerVars
    <2> QED
      BY <1>0, <1>4, <2>4, PoolUnchanged DEF Disconnect, Inv, OrphanBound
  <1> QED
    BY <1>2, <1>3, <1>4

\* The operations that remove transactions, with what each removes.
LEMMA RemovingInv ==
    ASSUME Inv,
           \/ \E t \in PoolTxs : RemoveTransaction(t) \/ RemoveNext(t)
           \/ \E S \in SUBSET PoolTxs : RemoveExpired(S)
    PROVE  Inv'
  <1>0. TypeOK
    BY DEF Inv
  <1>1. ASSUME NEW t \in PoolTxs, RemoveTransaction(t)
        PROVE  Inv'
    <2>1. ops' \in 0 .. MaxOps
      BY <1>0, <1>1, BoundAssumption DEF RemoveTransaction, TypeOK, BoundAssumption
    <2>2. {t} \in SUBSET PoolTxs
      OBVIOUS
    <2> QED
      BY <1>0, <1>1, <2>1, <2>2, RemovalInv DEF RemoveTransaction, TypeOK
  <1>2. ASSUME NEW t \in PoolTxs, RemoveNext(t)
        PROVE  Inv'
    <2>1. block' \in [txs : SUBSET Txs, collected : BOOLEAN, toRemove : SUBSET PoolTxs]
      BY <1>0, <1>2 DEF RemoveNext, TypeOK, NoBlock
    <2>2. {t} \cap txs \in SUBSET PoolTxs
      OBVIOUS
    <2> QED
      BY <1>0, <1>2, <2>1, <2>2, RemovalInv DEF RemoveNext, TypeOK
  <1>3. ASSUME NEW S \in SUBSET PoolTxs, RemoveExpired(S)
        PROVE  Inv'
    <2>1. ops' \in 0 .. MaxOps
      BY <1>0, <1>3, BoundAssumption DEF RemoveExpired, TypeOK, BoundAssumption
    <2> QED
      BY <1>0, <1>3, <2>1, RemovalInv DEF RemoveExpired, TypeOK
  <1> QED
    BY <1>1, <1>2, <1>3

LEMMA StutterInv ==
    ASSUME Inv, UNCHANGED vars
    PROVE  Inv'
  BY DEF Inv, TypeOK, SpentIndexExact, OrphanBound, vars, poolVars, workerVars, history

\* Every step keeps the invariant.
LEMMA StepInv ==
    ASSUME Inv, [Next]_vars
    PROVE  Inv'
  <1>1. ASSUME NEW w \in Workers, AddStep(w)
        PROVE  Inv'
    BY <1>1, CheckInv, StoreOrphanInv, ValidateInv, CheckCapacityInv, InsertInv,
       UpdateIndexesInv, UpdateAddStatsInv, ProcessOrphansInv DEF AddStep
  <1> QED
    BY <1>1, AddInv, OtherInv, BlockInv, RemovingInv, StutterInv DEF Next

\* Type correctness of the pool, its indexes and the goroutines that fill it.
THEOREM MempoolTypeCorrect == Spec => []TypeOK
  <1>1. Inv => TypeOK
    BY DEF Inv
  <1> QED
    BY <1>1, InitInv, StepInv, PTL DEF Spec

\* The spent-outpoint index, on which conflict detection rests, is exact in
\* every state, whatever addTransaction, RemoveTransaction, removeExpired,
\* RemoveConfirmedTransactions and Clear do between each other's locks.
THEOREM SpentIndexAlwaysExact == Spec => []SpentIndexExact
  <1>1. Inv => SpentIndexExact
    BY DEF Inv
  <1> QED
    BY <1>1, InitInv, StepInv, PTL DEF Spec

\* addOrphan's eviction keeps the orphan pool within its limit, and no orphan
\* is stored twice.
THEOREM OrphansBounded == Spec => []OrphanBound
  <1>1. Inv => OrphanBound
    BY DEF Inv
  <1> QED
    BY <1>1, InitInv, StepInv, PTL DEF Spec

-----------------------------------------------------------------------------
(* Mempool implements Pool.                                                *)

LEMMA InsertAccepts ==
    ASSUME Inv, NEW w \in Workers, Insert(w)
    PROVE  [P!Next]_txs
  <1> DEFINE t == job[w].tx
  <1>1. CASE Conflicts(t)
    BY <1>1 DEF Insert, poolVars
  <1>2. CASE ~Conflicts(t)
    <2>1. t \in PoolTxs
      BY DEF Inv, TypeOK, Job, Insert
    <2>2. txs' = txs \cup {t}
      BY <1>2 DEF Insert
    <2> HIDE DEF t
    <2>3. \A u \in txs : Inputs[t] \cap Inputs[u] = {}
      <3> SUFFICES ASSUME NEW u \in txs, NEW o \in Inputs[t], o \in Inputs[u]
                   PROVE  FALSE
        OBVIOUS
      <3>1. o \in Txs /\ u \in PoolTxs /\ u # None
        BY <2>1, TxAssumption DEF Inv, TypeOK, PoolTxs, TxAssumption
      <3>2. spentOutpoints[o] = u
        BY <3>1 DEF Inv, SpentIndexExact
      <3> QED
        BY <1>2, <3>1, <3>2 DEF Conflicts
    <2>4. CASE t \in txs
      BY <2>2, <2>4
    <2>5. CASE t \notin txs
      <3>1. P!Accept(t)
        BY <2>2, <2>3, <2>5 DEF P!Accept, P!Free
      <3> QED
        BY <2>1, <3>1 DEF P!Next
    <2> QED
      BY <2>4, <2>5
  <1> QED
    BY <1>1, <1>2

LEMMA RemovedRemoves ==
    ASSUME Inv, NEW S \in SUBSET PoolTxs, txs' = txs \ S
    PROVE  [P!Next]_txs
  <1>1. S \cap txs \in SUBSET PoolTxs /\ P!Remove(S \cap txs)
    BY DEF P!Remove
  <1> QED
    BY <1>1 DEF P!Next

LEMMA NextImplements ==
    ASSUME Inv, [Next]_vars
    PROVE  [P!Next]_txs
  <1>1. ASSUME NEW w \in Workers, AddStep(w)
        PROVE  [P!Next]_txs
    BY <1>1, InsertAccepts
    DEF AddStep, Check, StoreOrphan, Validate, CheckCapacity, UpdateIndexes, UpdateAddStats,
        ProcessOrphans, poolVars
  <1>2. ASSUME NEW S \in SUBSET PoolTxs, Removed(S)
        PROVE  [P!Next]_txs
    BY <1>2, RemovedRemoves DEF Removed
  <1>3. ASSUME NEW t \in PoolTxs, RemoveTransaction(t) \/ RemoveNext(t)
        PROVE  [P!Next]_txs
    <2>1. {t} \in SUBSET PoolTxs /\ {t} \cap txs \in SUBSET PoolTxs
      OBVIOUS
    <2> QED
      BY <1>2, <1>3, <2>1 DEF RemoveTransaction, RemoveNext
  <1>4. ASSUME NEW S \in SUBSET PoolTxs, RemoveExpired(S)
        PROVE  [P!Next]_txs
    BY <1>2, <1>4 DEF RemoveExpired
  <1>5. CASE ClearMaps
    <2>1. txs' = txs \ PoolTxs
      BY <1>5 DEF ClearMaps, Inv, TypeOK
    <2> QED
      BY <2>1, RemovedRemoves
  <1>6. CASE \/ UpdateRemoveStats \/ UpdatePriority \/ ClearStats \/ ClearOrphans
             \/ CollectConfirmed \/ Disconnect \/ UNCHANGED vars
             \/ \E b \in Offers : Connect(b)
             \/ \E w \in Workers, t \in PoolTxs : Add(w, t)
    BY <1>6 DEF UpdateRemoveStats, UpdatePriority, ClearStats, ClearOrphans, CollectConfirmed,
                Disconnect, Connect, Commit, Add, vars, poolVars
  <1> QED
    BY <1>1, <1>3, <1>4, <1>5, <1>6 DEF Next

\* The pool with its locks, indexes and goroutines implements the pool that
\* accepts a transaction only if no pooled one spends its inputs: checking for
\* conflicts before validation and again at the insertion is enough.
THEOREM MempoolImplementsPool == Spec => ImplementsPool
  <1>1. Init => P!Init
    BY DEF Init, P!Init
  <1> QED
    BY <1>1, InitInv, StepInv, NextImplements, PTL DEF Spec, ImplementsPool, P!Spec
-----------------------------------------------------------------------------
(* What the steps of the goroutines leave alone.                           *)

\* A step of worker w moves no other worker.
LEMMA OthersStay ==
    ASSUME Inv, NEW w \in Workers, AddStep(w) \/ \E t \in PoolTxs : Add(w, t)
    PROVE  /\ \A v \in Workers \ {w} : pc'[v] = pc[v] /\ job'[v] = job[v]
           /\ UNCHANGED <<chain, block, owed, clearing, raced, reset>>
  <1>1. pc \in [Workers -> {"idle", "check", "orphan", "validate", "capacity",
                            "insert", "index", "count", "next"}]
        /\ job \in [Workers -> Job]
    BY DEF Inv, TypeOK
  <1>2. CASE \E t \in PoolTxs : Add(w, t)
    BY <1>1, <1>2 DEF Add, history
  <1>3. CASE Check(w) \/ StoreOrphan(w) \/ Validate(w) \/ CheckCapacity(w)
    BY <1>1, <1>3 DEF Check, StoreOrphan, Validate, CheckCapacity, Fail, GoTo, history
  <1>4. CASE Insert(w) \/ UpdateIndexes(w) \/ UpdateAddStats(w)
    BY <1>1, <1>4 DEF Insert, UpdateIndexes, UpdateAddStats, Fail, GoTo, history
  <1>5. CASE ProcessOrphans(w)
    <2>1. PICK j : job' = [job EXCEPT ![w] = j]
      BY <1>5 DEF ProcessOrphans
    <2>2. \A v \in Workers \ {w} : pc'[v] = pc[v]
      BY <1>1, <1>5 DEF ProcessOrphans
    <2>3. \A v \in Workers \ {w} : job'[v] = job[v]
      BY <1>1, <2>1
    <2>4. UNCHANGED <<chain, block, owed, clearing, raced, reset>>
      BY <1>5 DEF ProcessOrphans, history
    <2> QED
      BY <2>2, <2>3, <2>4
  <1> QED
    BY <1>2, <1>3, <1>4, <1>5 DEF AddStep

\* Where a step of worker w leads, for the steps outside the pool's write lock.
LEMMA OutsideStep ==
    ASSUME Inv, NEW w \in Workers,
           \/ Check(w) \/ StoreOrphan(w) \/ Validate(w) \/ CheckCapacity(w) \/ ProcessOrphans(w)
           \/ \E t \in PoolTxs : Add(w, t)
    PROVE  /\ UNCHANGED <<txs, spentOutpoints, byFeeRate, count>>
           /\ pc[w] \notin {"insert", "index", "count"}
           /\ pc'[w] \notin {"index", "count"}
           /\ pc'[w] = "insert" => pc[w] = "capacity" /\ count < MaxTransactions /\ job' = job
           /\ pc'[w] = "capacity" =>
                 pc[w] = "validate" /\ Inputs[job[w].tx] \subseteq Unspent /\ job' = job
  <1>1. pc \in [Workers -> {"idle", "check", "orphan", "validate", "capacity",
                            "insert", "index", "count", "next"}]
        /\ count \in Nat /\ MaxTransactions \in Nat
    BY BoundAssumption DEF Inv, TypeOK, BoundAssumption
  <1>2. CASE \E t \in PoolTxs : Add(w, t)
    BY <1>1, <1>2 DEF Add, poolVars
  <1>3. CASE Check(w) \/ StoreOrphan(w)
    BY <1>1, <1>3 DEF Check, StoreOrphan, Fail, GoTo, poolVars
  <1>4. CASE Validate(w)
    BY <1>1, <1>4 DEF Validate, Fail, GoTo, poolVars
  <1>5. CASE CheckCapacity(w)
    BY <1>1, <1>5 DEF CheckCapacity, Fail, GoTo, poolVars
  <1>6. CASE ProcessOrphans(w)
    BY <1>1, <1>6 DEF ProcessOrphans, poolVars
  <1> QED
    BY <1>2, <1>3, <1>4, <1>5, <1>6

\* The insertion either fails and leaves the pool alone, or adds a transaction
\* that was not pooled.
LEMMA InsertCases ==
    ASSUME Inv, NEW w \in Workers, Insert(w)
    PROVE  LET t == job[w].tx IN
           /\ t \in PoolTxs /\ pc[w] = "insert"
           /\ UNCHANGED <<byFeeRate, count>>
           /\ \/ txs' = txs /\ pc'[w] \in {"next", "idle"}
              \/ t \notin txs /\ txs' = txs \cup {t} /\ pc'[w] = "index" /\ job' = job
  <1> DEFINE t == job[w].tx
  <1>1. t \in PoolTxs /\ pc[w] = "insert"
    BY DEF Inv, TypeOK, Job, Insert
  <1>2. pc \in [Workers -> {"idle", "check", "orphan", "validate", "capacity",
                            "insert", "index", "count", "next"}]
    BY DEF Inv, TypeOK
  <1>3. CASE Conflicts(t)
    BY <1>1, <1>2, <1>3 DEF Insert, Fail, poolVars
  <1>4. CASE ~Conflicts(t)
    <2>1. t \notin txs
      <3> SUFFICES ASSUME t \in txs PROVE FALSE
        OBVIOUS
      <3>1. PICK o \in Inputs[t] : TRUE
        BY <1>1, TxAssumption DEF TxAssumption
      <3>2. o \in Txs /\ t # None
        BY <1>1, <3>1, TxAssumption DEF TxAssumption, PoolTxs
      <3>3. spentOutpoints[o] = t
        BY <1>1, <3>1, <3>2 DEF Inv, SpentIndexExact
      <3> QED
        BY <1>4, <3>1, <3>2, <3>3 DEF Conflicts
    <2> QED
      BY <1>1, <1>2, <1>4, <2>1 DEF Insert, GoTo
  <1> QED
    BY <1>1, <1>3, <1>4

\* A removal, a rebuild of the index, the steps of Clear and the block processor
\* move no worker, and none of them takes a transaction off the history.
LEMMA WorkersStay ==
    ASSUME Inv,
           \/ UpdateRemoveStats \/ UpdatePriority \/ ClearMaps \/ ClearStats \/ ClearOrphans
           \/ \E t \in PoolTxs : RemoveTransaction(t) \/ RemoveNext(t)
           \/ \E S \in SUBSET PoolTxs : RemoveExpired(S)
           \/ \E b \in Offers : Connect(b)
           \/ CollectConfirmed \/ Disconnect
    PROVE  UNCHANGED <<pc, job>> /\ raced \subseteq raced'
  BY DEF UpdateRemoveStats, UpdatePriority, ClearMaps, ClearStats, ClearOrphans,
         RemoveTransaction, RemoveNext, RemoveExpired, Removed, Connect, Commit,
         CollectConfirmed, Disconnect, workerVars, history

-----------------------------------------------------------------------------
(* The fee-rate index.                                                     *)

\* What makes FeeIndexExact inductive: a transaction that waits to be indexed
\* is in the map, and one goroutine only is about to index it, unless it was
\* removed in between.
FeeInv ==
    /\ FeeIndexExact
    /\ \A w \in Workers : pc[w] = "index" => job[w].tx \in txs \cup raced
    /\ \A v, w \in Workers :
          (v # w /\ pc[v] = "index" /\ pc[w] = "index" /\ job[v].tx = job[w].tx)
              => job[w].tx \in raced

LEMMA FeeInit == ASSUME Init PROVE FeeInv
  BY DEF Init, FeeInv, FeeIndexExact, Unindexed, PoolTxs

\* A step that changes neither map nor index, and moves no worker to or from the
\* indexing step.
LEMMA FeeQuiet ==
    ASSUME FeeInv, UNCHANGED <<txs, byFeeRate>>, raced \subseteq raced',
           \A v \in Workers : /\ pc'[v] = "index" <=> pc[v] = "index"
                              /\ pc[v] = "index" => job'[v].tx = job[v].tx
    PROVE  FeeInv'
  <1>1. Unindexed' = Unindexed
    BY DEF Unindexed
  <1>2. FeeIndexExact'
    BY <1>1 DEF FeeInv, FeeIndexExact
  <1>3. \A w \in Workers : pc'[w] = "index" => job'[w].tx \in txs' \cup raced'
    BY DEF FeeInv
  <1>4. \A v, w \in Workers :
          (v # w /\ pc'[v] = "index" /\ pc'[w] = "index" /\ job'[v].tx = job'[w].tx)
              => job'[w].tx \in raced'
    BY DEF FeeInv
  <1> QED
    BY <1>2, <1>3, <1>4 DEF FeeInv

\* Insertion: the transaction is not pooled, so the index does not list it,
\* unless an earlier insertion of it was overtaken by its removal.
LEMMA FeeInsert ==
    ASSUME Inv, FeeInv, NEW w \in Workers, Insert(w)
    PROVE  FeeInv'
  <1> DEFINE t == job[w].tx
  <1>1. \A v \in Workers \ {w} : pc'[v] = pc[v] /\ job'[v] = job[v]
    BY OthersStay DEF AddStep
  <1>2. raced' = raced /\ byFeeRate' = byFeeRate /\ t \in PoolTxs /\ pc[w] = "insert"
    BY OthersStay, InsertCases DEF AddStep
  <1>3. CASE txs' = txs /\ pc'[w] \in {"next", "idle"}
    BY <1>1, <1>2, <1>3, FeeQuiet
  <1>4. CASE t \notin txs /\ txs' = txs \cup {t} /\ pc'[w] = "index" /\ job' = job
    <2>1. Unindexed' = Unindexed \cup {t}
      BY <1>1, <1>2, <1>4 DEF Unindexed
    <2> HIDE DEF t
    <2>2. FeeIndexExact'
      <3>1. \A u \in PoolTxs \ raced : byFeeRate[u] = IF u \in txs' \ Unindexed' THEN 1 ELSE 0
        BY <1>4, <2>1 DEF FeeInv, FeeIndexExact
      <3>2. txs' \ Unindexed' \subseteq txs \ Unindexed
        BY <1>4, <2>1
      <3> QED
        BY <1>2, <3>1, <3>2 DEF FeeInv, FeeIndexExact
    <2>3. \A v \in Workers : pc'[v] = "index" => job'[v].tx \in txs' \cup raced'
      BY <1>1, <1>2, <1>4 DEF FeeInv, t
    <2>4. \A u, v \in Workers :
            (u # v /\ pc'[u] = "index" /\ pc'[v] = "index" /\ job'[u].tx = job'[v].tx)
                => job'[v].tx \in raced'
      BY <1>1, <1>2, <1>4 DEF FeeInv, t
    <2> QED
      BY <2>2, <2>3, <2>4 DEF FeeInv
  <1> QED
    BY <1>3, <1>4, InsertCases

\* Indexing lists the transaction of the worker once more.
LEMMA FeeIndex ==
    ASSUME Inv, FeeInv, NEW w \in Workers, UpdateIndexes(w)
    PROVE  FeeInv'
  <1> DEFINE t == job[w].tx
  <1>1. /\ pc[w] = "index" /\ pc'[w] = "count" /\ job' = job /\ txs' = txs /\ raced' = raced
        /\ byFeeRate' = [byFeeRate EXCEPT ![t] = @ + 1] /\ byFeeRate \in [Txs -> Nat]
        /\ t \in PoolTxs /\ t \in Txs
        /\ \A v \in Workers \ {w} : pc'[v] = pc[v]
    BY DEF UpdateIndexes, GoTo, Inv, TypeOK, Job, PoolTxs, history
  <1>2. Unindexed \ {t} \subseteq Unindexed' /\ Unindexed' \subseteq Unindexed
    BY <1>1 DEF Unindexed
  <1>3. t \notin raced => t \in txs /\ t \in Unindexed /\ t \notin Unindexed'
    BY <1>1 DEF FeeInv, Unindexed
  <1> HIDE DEF t
  <1>4. FeeIndexExact'
    <2>1. ASSUME NEW u \in PoolTxs \ raced'
          PROVE  byFeeRate'[u] = IF u \in txs' \ Unindexed' THEN 1 ELSE 0
      <3>1. byFeeRate[u] = IF u \in txs \ Unindexed THEN 1 ELSE 0
        BY <1>1, <2>1 DEF FeeInv, FeeIndexExact
      <3> QED
        BY <1>1, <1>2, <1>3, <2>1, <3>1 DEF PoolTxs
    <2>2. ASSUME NEW u \in txs' \ Unindexed'
          PROVE  byFeeRate'[u] > 0
      <3>1. u \in Txs
        BY <1>1 DEF Inv, TypeOK, PoolTxs
      <3>2. CASE u = t
        BY <1>1, <3>1, <3>2
      <3>3. CASE u # t
        BY <1>1, <1>2, <3>1, <3>3 DEF FeeInv, FeeIndexExact
      <3> QED
        BY <3>2, <3>3
    <2> QED
      BY <2>1, <2>2 DEF FeeIndexExact
  <1>5. \A v \in Workers : pc'[v] = "index" => job'[v].tx \in txs' \cup raced'
    BY <1>1 DEF FeeInv
  <1>6. \A u, v \in Workers :
          (u # v /\ pc'[u] = "index" /\ pc'[v] = "index" /\ job'[u].tx = job'[v].tx)
              => job'[v].tx \in raced'
    BY <1>1 DEF FeeInv
  <1> QED
    BY <1>4, <1>5, <1>6 DEF FeeInv

\* A removal takes pooled transactions off the index, and those whose insertion
\* it overtakes on record.
LEMMA FeeRemoved ==
    ASSUME Inv, FeeInv, NEW S \in SUBSET txs, Removed(S), UNCHANGED <<pc, job>>
    PROVE  FeeInv'
  <1>1. /\ txs' = txs \ S /\ raced' = raced \cup Overlaps(S) /\ byFeeRate \in [Txs -> Nat]
        /\ byFeeRate' = [t \in Txs |-> IF t \in S /\ byFeeRate[t] > 0
                                       THEN byFeeRate[t] - 1 ELSE byFeeRate[t]]
        /\ txs \subseteq PoolTxs /\ PoolTxs \subseteq Txs
    BY DEF Removed, Inv, TypeOK, PoolTxs
  <1>2. Unindexed' = Unindexed
    BY DEF Unindexed
  <1>3. \A t \in S : t \in Unindexed => t \in raced'
    BY <1>1 DEF Unindexed, Overlaps, Uncounted
  <1>4. FeeIndexExact'
    <2>1. ASSUME NEW t \in PoolTxs \ raced'
          PROVE  byFeeRate'[t] = IF t \in txs' \ Unindexed' THEN 1 ELSE 0
      <3>1. byFeeRate[t] = IF t \in txs \ Unindexed THEN 1 ELSE 0
        BY <1>1, <2>1 DEF FeeInv, FeeIndexExact
      <3> QED
        BY <1>1, <1>2, <1>3, <2>1, <3>1
    <2>2. ASSUME NEW t \in txs' \ Unindexed'
          PROVE  byFeeRate'[t] > 0
      BY <1>1, <1>2, <2>2 DEF FeeInv, FeeIndexExact
    <2> QED
      BY <2>1, <2>2 DEF FeeIndexExact
  <1>5. \A w \in Workers : pc'[w] = "index" => job'[w].tx \in txs' \cup raced'
    <2>1. \A w \in Workers : pc[w] = "index" => job[w].tx \in Unindexed
      BY DEF Unindexed
    <2> QED
      BY <1>1, <1>3, <2>1 DEF FeeInv
  <1>6. \A v, w \in Workers :
          (v # w /\ pc'[v] = "index" /\ pc'[w] = "index" /\ job'[v].tx = job'[w].tx)
              => job'[w].tx \in raced'
    BY <1>1 DEF FeeInv
  <1> QED
    BY <1>4, <1>5, <1>6 DEF FeeInv

\* UpdatePriority and Clear make the index agree with the map again.
LEMMA FeeRebuilt ==
    ASSUME Inv, FeeInv, UpdatePriority \/ ClearMaps
    PROVE  FeeInv'
  <1>1. /\ UNCHANGED <<pc, job>> /\ Unindexed' = Unindexed
        /\ txs' \subseteq PoolTxs /\ PoolTxs \subseteq Txs
        /\ byFeeRate' = [t \in Txs |-> IF t \in txs' THEN 1 ELSE 0]
    BY DEF UpdatePriority, ClearMaps, workerVars, Unindexed, Inv, TypeOK, PoolTxs
  <1>2. raced \cup Unindexed \subseteq raced'
    BY DEF UpdatePriority, ClearMaps, Unindexed, Uncounted
  <1>3. FeeIndexExact'
    BY <1>1, <1>2 DEF FeeIndexExact
  <1>4. \A w \in Workers : pc'[w] = "index" => job'[w].tx \in raced'
    BY <1>1, <1>2 DEF Unindexed
  <1> QED
    BY <1>3, <1>4 DEF FeeInv

LEMMA FeeStep ==
    ASSUME Inv, FeeInv, [Next]_vars
    PROVE  FeeInv'
  <1>1. ASSUME NEW w \in Workers, AddStep(w) \/ \E t \in PoolTxs : Add(w, t)
        PROVE  FeeInv'
    <2>1. CASE \/ Check(w) \/ StoreOrphan(w) \/ Validate(w) \/ CheckCapacity(w)
               \/ ProcessOrphans(w) \/ \E t \in PoolTxs : Add(w, t)
      BY <1>1, <2>1, OthersStay, OutsideStep, FeeQuiet
    <2>2. CASE UpdateAddStats(w)
      <3>1. pc[w] = "count" /\ pc'[w] = "next" /\ UNCHANGED <<txs, byFeeRate>>
        BY <2>2 DEF UpdateAddStats, poolVars, Inv, TypeOK
      <3> QED
        BY <1>1, <3>1, OthersStay, FeeQuiet
    <2> QED
      BY <1>1, <2>1, <2>2, FeeInsert, FeeIndex DEF AddStep
  <1>2. CASE \E t \in PoolTxs : RemoveTransaction(t) \/ RemoveNext(t)
    <2>1. PICK t \in PoolTxs : RemoveTransaction(t) \/ RemoveNext(t)
      BY <1>2
    <2>2. {t} \cap txs \in SUBSET txs /\ (t \in txs => {t} = {t} \cap txs)
      OBVIOUS
    <2> QED
      BY <2>1, <2>2, FeeRemoved DEF RemoveTransaction, RemoveNext, workerVars
  <1>3. CASE \E S \in SUBSET PoolTxs : RemoveExpired(S)
    BY <1>3, FeeRemoved DEF RemoveExpired, workerVars
  <1>4. CASE UpdatePriority \/ ClearMaps
    BY <1>4, FeeRebuilt
  <1>5. CASE \/ UpdateRemoveStats \/ ClearStats \/ ClearOrphans
             \/ \E b \in Offers : Connect(b)
             \/ CollectConfirmed \/ Disconnect
    <2>1. UNCHANGED <<txs, byFeeRate>>
      BY <1>5 DEF UpdateRemoveStats, ClearStats, ClearOrphans, Connect, Commit, CollectConfirmed,
                  Disconnect, poolVars
    <2> QED
      BY <1>5, <2>1, WorkersStay, FeeQuiet
  <1>6. CASE UNCHANGED vars
    BY <1>6, FeeQuiet DEF vars, poolVars, workerVars, history
  <1> QED
    BY <1>1, <1>2, <1>3, <1>4, <1>5, <1>6 DEF Next

\* The fee-rate index, from which blocks are filled, stays exact up to the
\* transactions whose insertion was overtaken by a removal or a rebuild, for any
\* number of goroutines between insertion and updateIndexes.
THEOREM FeeIndexAlwaysExact == Spec => []FeeIndexExact
  <1>1. FeeInv => FeeIndexExact
    BY DEF FeeInv
  <1> QED
    BY <1>1, InitInv, StepInv, FeeInit, FeeStep, PTL DEF Spec

-----------------------------------------------------------------------------
(* The bound on the pool.                                                  *)

\* Goroutines that passed the capacity check and are not yet counted.
Inserting == {w \in Workers : pc[w] \in {"insert", "index", "count"}}

\* The statistics and the goroutines that passed the check keep to the bound,
\* and the map holds no more than the statistics say once the outstanding
\* updates are applied: the floor at zero can only make the statistics larger.
CountInv ==
    /\ count + Cardinality(Inserting) <= MaxTransactions + Cardinality(Workers) - 1
    /\ ~reset => Cardinality(txs) <= count + Cardinality(Uncounted) - owed

LEMMA FiniteSets ==
    ASSUME Inv
    PROVE  /\ IsFiniteSet(Workers) /\ Cardinality(Workers) \in Nat
           /\ IsFiniteSet(txs) /\ Cardinality(txs) \in Nat
           /\ \A S \in SUBSET Workers :
                 IsFiniteSet(S) /\ Cardinality(S) \in Nat /\ Cardinality(S) <= Cardinality(Workers)
           /\ Inserting \in SUBSET Workers /\ Uncounted \in SUBSET Workers
           /\ count \in Nat /\ owed \in Nat /\ MaxTransactions \in Nat \ {0}
  <1>1. IsFiniteSet(Workers) /\ MaxTransactions \in Nat \ {0}
    BY BoundAssumption DEF BoundAssumption
  <1>2. txs \in SUBSET Txs /\ IsFiniteSet(Txs)
    BY TxAssumption DEF Inv, TypeOK, PoolTxs, TxAssumption
  <1>3. IsFiniteSet(txs) /\ Cardinality(txs) \in Nat
    BY <1>2, FS_Subset, FS_CardinalityType
  <1>4. \A S \in SUBSET Workers :
           IsFiniteSet(S) /\ Cardinality(S) \in Nat /\ Cardinality(S) <= Cardinality(Workers)
    BY <1>1, FS_Subset, FS_CardinalityType
  <1>5. Cardinality(Workers) \in Nat
    BY <1>1, FS_CardinalityType
  <1> QED
    BY <1>1, <1>3, <1>4, <1>5 DEF Inserting, Uncounted, Inv, TypeOK

LEMMA CountInit == ASSUME Init PROVE CountInv
  <1>1. Inserting = {} /\ Uncounted = {} /\ txs = {} /\ count = 0 /\ owed = 0
    BY DEF Init, Inserting, Uncounted
  <1>2. Cardinality({}) = 0
    BY FS_EmptySet
  <1> QED
    BY <1>1, <1>2, InitInv, FiniteSets DEF CountInv

\* How the two sets of goroutines change when one worker moves.
LEMMA Moves ==
    ASSUME Inv, NEW w \in Workers, \A v \in Workers \ {w} : pc'[v] = pc[v]
    PROVE  /\ Inserting' = IF pc'[w] \in {"insert", "index", "count"}
                           THEN Inserting \cup {w} ELSE Inserting \ {w}
           /\ Uncounted' = IF pc'[w] \in {"index", "count"}
                           THEN Uncounted \cup {w} ELSE Uncounted \ {w}
           /\ Cardinality(Inserting \cup {w}) =
                 IF w \in Inserting THEN Cardinality(Inserting) ELSE Cardinality(Inserting) + 1
           /\ Cardinality(Inserting \ {w}) =
                 IF w \in Inserting THEN Cardinality(Inserting) - 1 ELSE Cardinality(Inserting)
           /\ Cardinality(Uncounted \cup {w}) =
                 IF w \in Uncounted THEN Cardinality(Uncounted) ELSE Cardinality(Uncounted) + 1
           /\ Cardinality(Uncounted \ {w}) =
                 IF w \in Uncounted THEN Cardinality(Uncounted) - 1 ELSE Cardinality(Uncounted)
  <1>1. /\ Inserting' = IF pc'[w] \in {"insert", "index", "count"}
                        THEN Inserting \cup {w} ELSE Inserting \ {w}
        /\ Uncounted' = IF pc'[w] \in {"index", "count"}
                        THEN Uncounted \cup {w} ELSE Uncounted \ {w}
    BY DEF Inserting, Uncounted
  <1>2. IsFiniteSet(Inserting) /\ IsFiniteSet(Uncounted)
    BY FiniteSets
  <1>3. /\ Cardinality(Inserting \cup {w}) =
              IF w \in Inserting THEN Cardinality(Inserting) ELSE Cardinality(Inserting) + 1
        /\ Cardinality(Inserting \ {w}) =
              IF w \in Inserting THEN Cardinality(Inserting) - 1 ELSE Cardinality(Inserting)
    BY <1>2, FS_AddElement, FS_RemoveElement
  <1>4. /\ Cardinality(Uncounted \cup {w}) =
              IF w \in Uncounted THEN Cardinality(Uncounted) ELSE Cardinality(Uncounted) + 1
        /\ Cardinality(Uncounted \ {w}) =
              IF w \in Uncounted THEN Cardinality(Uncounted) - 1 ELSE Cardinality(Uncounted)
    BY <1>2, FS_AddElement, FS_RemoveElement
  <1> QED
    BY <1>1, <1>3, <1>4

\* addTransaction: the check makes room for one goroutine, the one that checks,
\* while the others may all have passed it already.
LEMMA CountAdd ==
    ASSUME Inv, Inv', CountInv, NEW w \in Workers, AddStep(w) \/ \E t \in PoolTxs : Add(w, t)
    PROVE  CountInv'
  <1>1. (\A v \in Workers \ {w} : pc'[v] = pc[v]) /\ owed' = owed /\ reset' = reset
    BY OthersStay
  <1> DEFINE i == Cardinality(Inserting)
             u == Cardinality(Uncounted)
             n == Cardinality(Workers)
             m == Cardinality(txs)
             j == Cardinality(Inserting')
             k == Cardinality(Uncounted')
  <1>2. /\ i \in Nat /\ u \in Nat /\ n \in Nat /\ m \in Nat /\ count \in Nat /\ owed \in Nat
        /\ MaxTransactions \in Nat \ {0}
    BY FiniteSets
  <1>3. j <= n /\ j \in Nat
    <2>1. Inserting' \in SUBSET Workers
      BY DEF Inserting
    <2> QED
      BY <2>1, FiniteSets
  <1>4. w \in Inserting <=> pc[w] \in {"insert", "index", "count"}
    BY DEF Inserting
  <1>5. w \in Uncounted <=> pc[w] \in {"index", "count"}
    BY DEF Uncounted
  <1>6. /\ pc'[w] \in {"insert", "index", "count"} =>
              j = IF pc[w] \in {"insert", "index", "count"} THEN i ELSE i + 1
        /\ pc'[w] \notin {"insert", "index", "count"} =>
              j = IF pc[w] \in {"insert", "index", "count"} THEN i - 1 ELSE i
        /\ pc'[w] \in {"index", "count"} => k = IF pc[w] \in {"index", "count"} THEN u ELSE u + 1
        /\ pc'[w] \notin {"index", "count"} => k = IF pc[w] \in {"index", "count"} THEN u - 1 ELSE u
    BY <1>1, <1>4, <1>5, Moves
  <1>7. /\ count + i <= MaxTransactions + n - 1
        /\ ~reset => m <= count + u - owed
    BY DEF CountInv
  <1>8. SUFFICES /\ count' + j <= MaxTransactions + n - 1
                 /\ ~reset => Cardinality(txs') <= count' + k - owed
    BY <1>1 DEF CountInv
  <1> HIDE DEF i, u, n, m, j, k
  <1>9. CASE \/ Check(w) \/ StoreOrphan(w) \/ Validate(w) \/ CheckCapacity(w)
             \/ ProcessOrphans(w) \/ \E t \in PoolTxs : Add(w, t)
    <2>1. /\ pc[w] \notin {"insert", "index", "count"} /\ pc'[w] \notin {"index", "count"}
          /\ txs' = txs /\ count' = count /\ (pc'[w] = "insert" => count < MaxTransactions)
      BY <1>9, OutsideStep
    <2>2. k = u /\ Cardinality(txs') = m
      BY <1>6, <2>1 DEF m
    <2>3. CASE pc'[w] = "insert"
      BY <1>2, <1>3, <1>7, <2>1, <2>2, <2>3
    <2>4. CASE pc'[w] # "insert"
      BY <1>2, <1>6, <1>7, <2>1, <2>2, <2>4
    <2> QED
      BY <2>3, <2>4
  <1>10. CASE Insert(w)
    <2> DEFINE t == job[w].tx
    <2>1. pc[w] = "insert" /\ count' = count
      BY <1>10, InsertCases
    <2>2. CASE txs' = txs /\ pc'[w] \in {"next", "idle"}
      BY <1>2, <1>6, <1>7, <2>1, <2>2 DEF m
    <2>3. CASE t \notin txs /\ txs' = txs \cup {t} /\ pc'[w] = "index"
      <3>1. Cardinality(txs') = m + 1
        BY <2>3, FiniteSets, FS_AddElement DEF m
      <3> QED
        BY <1>2, <1>6, <1>7, <2>1, <2>3, <3>1
    <2> QED
      BY <1>10, <2>2, <2>3, InsertCases
  <1>11. CASE UpdateIndexes(w)
    <2>1. pc[w] = "index" /\ pc'[w] = "count" /\ count' = count /\ txs' = txs
      BY <1>11 DEF UpdateIndexes, GoTo, Inv, TypeOK
    <2> QED
      BY <1>2, <1>6, <1>7, <2>1 DEF m
  <1>12. CASE UpdateAddStats(w)
    <2>1. pc[w] = "count" /\ pc'[w] = "next" /\ count' = count + 1 /\ txs' = txs
      BY <1>12 DEF UpdateAddStats, Inv, TypeOK, poolVars
    <2> QED
      BY <1>2, <1>6, <1>7, <2>1 DEF m
  <1> QED
    BY <1>9, <1>10, <1>11, <1>12 DEF AddStep

\* A removal leaves as many updates of the statistics outstanding as it takes
\* transactions off the map.
LEMMA CountRemoved ==
    ASSUME Inv, CountInv, NEW S \in SUBSET txs, Removed(S), UNCHANGED <<pc, count, reset>>
    PROVE  CountInv'
  <1>1. Inserting' = Inserting /\ Uncounted' = Uncounted
    BY DEF Inserting, Uncounted
  <1>2. IsFiniteSet(txs) /\ Cardinality(txs) \in Nat
    BY FiniteSets
  <1>3. IsFiniteSet(S) /\ Cardinality(S) \in Nat
    BY <1>2, FS_Subset, FS_CardinalityType
  <1>4. Cardinality(txs \ S) = Cardinality(txs) - Cardinality(S)
    <2>1. txs \cap S = S
      OBVIOUS
    <2> QED
      BY <1>2, <2>1, FS_Difference
  <1>5. txs' = txs \ S /\ owed' = owed + Cardinality(S)
    BY DEF Removed
  <1>6. Cardinality(Uncounted) \in Nat /\ count \in Nat /\ owed \in Nat
    BY FiniteSets
  <1> QED
    BY <1>1, <1>2, <1>3, <1>4, <1>5, <1>6 DEF CountInv

\* The statistics of a removal, and Clear.
LEMMA CountOther ==
    ASSUME Inv, CountInv, UpdateRemoveStats \/ ClearMaps \/ ClearStats
    PROVE  CountInv'
  <1>1. Inserting' = Inserting /\ Uncounted' = Uncounted
    BY DEF UpdateRemoveStats, ClearMaps, ClearStats, workerVars, Inserting, Uncounted
  <1>2. /\ Cardinality(Inserting) \in Nat /\ Cardinality(Uncounted) \in Nat
        /\ Cardinality(Inserting) <= Cardinality(Workers)
        /\ Cardinality(txs) \in Nat /\ count \in Nat /\ owed \in Nat
        /\ Cardinality(Workers) \in Nat /\ MaxTransactions \in Nat \ {0}
    BY FiniteSets
  <1>3. Cardinality({}) = 0
    BY FS_EmptySet
  <1>4. CASE UpdateRemoveStats
    <2>1. /\ owed > 0 /\ owed' = owed - 1 /\ txs' = txs /\ reset' = reset
          /\ count' = IF count > 0 THEN count - 1 ELSE 0
      BY <1>4 DEF UpdateRemoveStats, poolVars, history
    <2> QED
      BY <1>1, <1>2, <2>1 DEF CountInv
  <1>5. CASE ClearMaps
    <2>1. txs' = {} /\ count' = count /\ owed' = owed /\ reset' = reset
      BY <1>5 DEF ClearMaps
    <2> QED
      BY <1>1, <1>2, <1>3, <2>1 DEF CountInv
  <1>6. CASE ClearStats
    <2>1. /\ txs' = txs /\ count' = 0 /\ owed' = owed
          /\ reset' = (reset \/ txs # {} \/ owed > 0 \/ Uncounted # {})
      BY <1>6 DEF ClearStats, poolVars
    <2>2. ~reset' => txs' = {} /\ owed' = 0 /\ Uncounted' = {}
      <3>1. ~reset' => txs = {} /\ ~(owed > 0) /\ Uncounted = {}
        BY <2>1, Zenon
      <3> QED
        BY <1>1, <1>2, <2>1, <3>1
    <2>3. ~reset' => Cardinality(txs') <= count' + Cardinality(Uncounted') - owed'
      BY <1>3, <2>1, <2>2
    <2>4. count' + Cardinality(Inserting') <= MaxTransactions + Cardinality(Workers) - 1
      BY <1>1, <1>2, <2>1 DEF CountInv
    <2> QED
      BY <2>3, <2>4 DEF CountInv
  <1> QED
    BY <1>4, <1>5, <1>6

LEMMA CountStep ==
    ASSUME Inv, Inv', CountInv, [Next]_vars
    PROVE  CountInv'
  <1>1. CASE \E t \in PoolTxs : RemoveTransaction(t) \/ RemoveNext(t)
    <2>1. PICK t \in PoolTxs : RemoveTransaction(t) \/ RemoveNext(t)
      BY <1>1
    <2>2. {t} \cap txs \in SUBSET txs /\ (t \in txs => {t} = {t} \cap txs)
      OBVIOUS
    <2> QED
      BY <2>1, <2>2, CountRemoved DEF RemoveTransaction, RemoveNext, workerVars
  <1>2. CASE \E S \in SUBSET PoolTxs : RemoveExpired(S)
    BY <1>2, CountRemoved DEF RemoveExpired, workerVars
  <1>3. CASE \/ UpdatePriority \/ ClearOrphans \/ \E b \in Offers : Connect(b)
             \/ CollectConfirmed \/ Disconnect \/ UNCHANGED vars
    <2>1. UNCHANGED <<txs, pc, count, owed, reset>>
      BY <1>3 DEF UpdatePriority, ClearOrphans, Connect, Commit, CollectConfirmed, Disconnect,
                  vars, poolVars, workerVars, history
    <2> QED
      BY <2>1 DEF CountInv, Inserting, Uncounted
  <1> QED
    BY <1>1, <1>2, <1>3, CountAdd, CountOther DEF Next

\* checkCapacity reads statistics that lag behind the map; still the pool
\* exceeds config.MaxTransactions by fewer transactions than there are
\* goroutines, however many these are, unless a Clear reset the statistics
\* under an addition or removal.
THEOREM PoolBounded == Spec => []PoolBound
  <1>1. Inv /\ CountInv => PoolBound
    <2> SUFFICES ASSUME Inv, CountInv PROVE PoolBound
      OBVIOUS
    <2>1. Uncounted \in SUBSET Inserting /\ IsFiniteSet(Inserting)
      BY FiniteSets DEF Uncounted, Inserting
    <2>2. Cardinality(Uncounted) <= Cardinality(Inserting)
      BY <2>1, FS_Subset
    <2>3. /\ Cardinality(Uncounted) \in Nat /\ Cardinality(Inserting) \in Nat
          /\ Cardinality(txs) \in Nat /\ count \in Nat /\ owed \in Nat
          /\ Cardinality(Workers) \in Nat /\ MaxTransactions \in Nat
      BY FiniteSets
    <2> QED
      BY <2>2, <2>3 DEF CountInv, PoolBound
  <1> QED
    BY <1>1, InitInv, StepInv, CountInit, CountStep, PTL DEF Spec

-----------------------------------------------------------------------------
(* The pool and the chain.                                                 *)

\* Outputs of the chain that no ordinary transaction of the chain spends.
Spendable == Confirmed \ UNION {SpentByOrdinary(chain[i]) : i \in DOMAIN chain}

Minable(t) == t \notin Confirmed /\ Inputs[t] \subseteq Spendable

\* What RemoveConfirmedTransactions has still to remove.
Going == IF block.collected THEN block.toRemove ELSE Collected(block.txs)

\* What makes PoolFollowsChain inductive: what validation found holds until the
\* insertion, and what the last block conflicts with is about to be removed.
ChainInv ==
    /\ \A i \in DOMAIN chain : chain[i] \subseteq PoolTxs \cup StakeTxs
    /\ \A w \in Workers : (pc[w] \in {"capacity", "insert"} /\ job[w].tx \notin raced)
          => Inputs[job[w].tx] \subseteq Unspent
    /\ \A t \in txs \ raced : Minable(t) \/ t \in Going
    /\ block.collected \/ block.toRemove = {}

LEMMA ChainInit == ASSUME Init PROVE ChainInv
  BY DEF Init, ChainInv, NoBlock

\* A transaction whose inputs are unspent can be put in a block.
LEMMA UnspentMinable ==
    ASSUME ChainInv, NEW t \in PoolTxs, Inputs[t] \subseteq Unspent
    PROVE  Minable(t)
  <1>1. Inputs[t] # {} /\ t \notin Base /\ PoolTxs \cap Base = {} /\ StakeTxs \cap Base = {}
    BY TxAssumption DEF PoolTxs, TxAssumption
  <1>2. t \notin Confirmed
    BY <1>1 DEF Unspent, SpentOnChain
  <1>3. \A i \in DOMAIN chain : Ordinary(chain[i]) \subseteq Confirmed \ Base
    BY <1>1 DEF ChainInv, Confirmed, Ordinary
  <1>4. UNION {SpentByOrdinary(chain[i]) : i \in DOMAIN chain} \subseteq SpentOnChain
    BY <1>3 DEF SpentByOrdinary, SpentOnChain
  <1> QED
    BY <1>2, <1>4 DEF Minable, Spendable, Unspent

\* A step that leaves chain and block alone, adds nothing to the map and takes
\* nothing off it that is not out of toRemove too.
LEMMA ChainQuiet ==
    ASSUME ChainInv, UNCHANGED chain, txs' \subseteq txs, raced \subseteq raced',
           \A t \in txs' : t \in Going => t \in Going',
           block' = block \/ block'.collected,
           \A v \in Workers : (pc'[v] \in {"capacity", "insert"} /\ job'[v].tx \notin raced') =>
              \/ pc[v] \in {"capacity", "insert"} /\ job'[v].tx = job[v].tx
              \/ Inputs[job'[v].tx] \subseteq Unspent
    PROVE  ChainInv'
  <1>1. Unspent' = Unspent /\ Confirmed' = Confirmed /\ Spendable' = Spendable
    BY DEF Unspent, Confirmed, SpentOnChain, Spendable
  <1>2. \A t \in txs' \ raced' : Minable(t)' \/ t \in Going'
    BY <1>1 DEF ChainInv, Minable
  <1>3. \A w \in Workers : (pc'[w] \in {"capacity", "insert"} /\ job'[w].tx \notin raced')
          => Inputs[job'[w].tx] \subseteq Unspent'
    BY <1>1 DEF ChainInv
  <1> QED
    BY <1>2, <1>3 DEF ChainInv

LEMMA ChainInsert ==
    ASSUME Inv, ChainInv, NEW w \in Workers, Insert(w)
    PROVE  ChainInv'
  <1> DEFINE t == job[w].tx
  <1>1. /\ \A v \in Workers \ {w} : pc'[v] = pc[v] /\ job'[v] = job[v]
        /\ chain' = chain /\ block' = block /\ raced' = raced
    BY OthersStay DEF AddStep
  <1>2. t \in PoolTxs /\ pc[w] = "insert"
    BY InsertCases
  <1>3. CASE txs' = txs /\ pc'[w] \in {"next", "idle"}
    <2>1. Going' = Going
      BY <1>1, <1>3 DEF Going, Collected
    <2> QED
      BY <1>1, <1>3, <2>1, ChainQuiet
  <1>4. CASE t \notin txs /\ txs' = txs \cup {t} /\ pc'[w] = "index" /\ job' = job
    <2>1. /\ Unspent' = Unspent /\ Spendable' = Spendable /\ Confirmed' = Confirmed
          /\ Going \subseteq Going'
      BY <1>1, <1>4 DEF Unspent, Confirmed, SpentOnChain, Spendable, Going, Collected
    <2>2. t \notin raced => Minable(t)
      BY <1>2, UnspentMinable DEF ChainInv
    <2> HIDE DEF t
    <2>3. \A u \in txs' \ raced' : Minable(u)' \/ u \in Going'
      BY <1>1, <1>4, <2>1, <2>2 DEF ChainInv, Minable
    <2>4. \A v \in Workers : (pc'[v] \in {"capacity", "insert"} /\ job'[v].tx \notin raced')
            => Inputs[job'[v].tx] \subseteq Unspent'
      BY <1>1, <1>4, <2>1 DEF ChainInv
    <2> QED
      BY <1>1, <2>3, <2>4 DEF ChainInv
  <1> QED
    BY <1>3, <1>4, InsertCases

\* A commit: what was pooled and the block confirms, or conflicts with, is what
\* will be collected, or goes on record when storage.Sync fails, as does what was
\* being added.
LEMMA ChainConnect ==
    ASSUME Inv, ChainInv, NEW b \in Offers, Connect(b)
    PROVE  ChainInv'
  <1>1. /\ chain' = Append(chain, b) /\ chain \in Seq(SUBSET Txs) /\ block = NoBlock
        /\ \/ block' = [NoBlock EXCEPT !.txs = b, !.collected = FALSE]
           \/ block' = NoBlock /\ Collected(b) \subseteq raced'
        /\ raced \cup {job[w].tx : w \in InFlight} \subseteq raced'
        /\ txs' = txs /\ pc' = pc /\ job' = job
    BY DEF Connect, Commit, Inv, TypeOK, poolVars, workerVars
  <1>2. b \subseteq PoolTxs \cup StakeTxs /\ b \subseteq Txs /\ PoolTxs \cap StakeTxs = {}
    BY TxAssumption DEF TxAssumption, PoolTxs
  <1>3. /\ \A i \in DOMAIN chain' : chain'[i] = b \/ \E j \in DOMAIN chain : chain'[i] = chain[j]
        /\ \A j \in DOMAIN chain : j \in DOMAIN chain' /\ chain'[j] = chain[j]
        /\ \E i \in DOMAIN chain' : chain'[i] = b
    <2>1. /\ Len(chain') = Len(chain) + 1 /\ \A j \in 1 .. Len(chain) : chain'[j] = chain[j]
          /\ chain'[Len(chain) + 1] = b /\ chain' \in Seq(SUBSET Txs)
      BY <1>1, <1>2, AppendProperties
    <2> QED
      BY <1>1, <2>1
  <1>4. Confirmed' = Confirmed \cup b
    BY <1>3 DEF Confirmed
  <1>5. UNION {SpentByOrdinary(chain'[i]) : i \in DOMAIN chain'}
           = (UNION {SpentByOrdinary(chain[i]) : i \in DOMAIN chain}) \cup SpentByOrdinary(b)
    BY <1>3
  <1>6. Going = {} /\ Collected(b) \subseteq Going' \cup raced'
    <2>1. Going = {}
      BY <1>1 DEF Going, Collected, NoBlock
    <2>2. CASE block' = [NoBlock EXCEPT !.txs = b, !.collected = FALSE]
      <3>1. ~block'.collected /\ block'.txs = b /\ block'.toRemove = {}
        BY <2>2 DEF NoBlock
      <3>2. Going' = block'.toRemove \cup {t \in txs' : t \in Ordinary(block'.txs)
                        \/ Inputs[t] \cap SpentByOrdinary(block'.txs) # {}}
        BY <3>1 DEF Going, Collected
      <3>3. Going' = Collected(b)
        BY <1>1, <3>1, <3>2 DEF Collected
      <3> QED
        BY <2>1, <3>3
    <2> QED
      BY <1>1, <2>1, <2>2
  <1>7. \A i \in DOMAIN chain' : chain'[i] \subseteq PoolTxs \cup StakeTxs
    BY <1>2, <1>3 DEF ChainInv
  <1>8. ASSUME NEW t \in txs' \ raced'
        PROVE  Minable(t)' \/ t \in Going'
    <2>1. t \in txs /\ t \in PoolTxs /\ Minable(t)
      BY <1>1, <1>6, <1>8 DEF ChainInv, Inv, TypeOK
    <2>2. t \in b => t \in Ordinary(b)
      BY <1>2, <2>1 DEF Ordinary
    <2> QED
      BY <1>4, <1>5, <1>6, <2>1, <2>2 DEF Minable, Spendable, Collected
  <1>9. \A w \in Workers : pc'[w] \in {"capacity", "insert"} => job'[w].tx \in raced'
    BY <1>1 DEF InFlight
  <1>10. block'.toRemove = {}
    <2>1. CASE block' = [NoBlock EXCEPT !.txs = b, !.collected = FALSE]
      BY <2>1 DEF NoBlock
    <2>2. CASE block' = NoBlock
      BY <2>2 DEF NoBlock
    <2> QED
      BY <1>1, <2>1, <2>2
  <1> QED
    BY <1>7, <1>8, <1>9, <1>10 DEF ChainInv

\* A rollback: only transactions that spend what it takes back are affected.
LEMMA ChainDisconnect ==
    ASSUME Inv, ChainInv, Disconnect
    PROVE  ChainInv'
  <1> DEFINE b == Last(chain)
  <1>1. /\ chain' = Front(chain) /\ chain \in Seq(SUBSET Txs) /\ chain # <<>> /\ block = NoBlock
        /\ block' = block /\ txs' = txs /\ pc' = pc /\ job' = job
        /\ raced' = raced \cup {t \in PoolTxs : Inputs[t] \cap b # {}}
    BY DEF Disconnect, Inv, TypeOK, poolVars, workerVars
  <1>2. /\ DOMAIN chain' \subseteq DOMAIN chain /\ \A i \in DOMAIN chain' : chain'[i] = chain[i]
        /\ \A i \in DOMAIN chain : i \in DOMAIN chain' \/ chain[i] = b
    <2>1. /\ Len(chain') = Len(chain) - 1 /\ chain' \in Seq(SUBSET Txs)
          /\ \A i \in 1 .. Len(chain) - 1 : chain'[i] = chain[i]
      BY <1>1, FrontElements
    <2>2. b = chain[Len(chain)]
      BY DEF Last
    <2> HIDE DEF b
    <2> QED
      BY <1>1, <2>1, <2>2
  <1> HIDE DEF b
  <1>3. Confirmed \ b \subseteq Confirmed' /\ Confirmed' \subseteq Confirmed
    BY <1>2 DEF Confirmed
  <1>4. SpentOnChain' \subseteq SpentOnChain
    BY <1>3 DEF SpentOnChain
  <1>5. UNION {SpentByOrdinary(chain'[i]) : i \in DOMAIN chain'}
           \subseteq UNION {SpentByOrdinary(chain[i]) : i \in DOMAIN chain}
    BY <1>2
  <1>6. \A i \in DOMAIN chain' : chain'[i] \subseteq PoolTxs \cup StakeTxs
    BY <1>2 DEF ChainInv
  <1>7. \A t \in PoolTxs \ raced' : Inputs[t] \cap b = {}
    BY <1>1
  <1>8. ASSUME NEW t \in txs' \ raced'
        PROVE  Minable(t)'
    <2>1. t \in PoolTxs /\ Minable(t)
      BY <1>1, <1>8 DEF ChainInv, Inv, TypeOK, Going, NoBlock
    <2> QED
      BY <1>3, <1>5, <1>7, <1>8, <2>1 DEF Minable, Spendable
  <1>9. ASSUME NEW w \in Workers, pc'[w] \in {"capacity", "insert"}, job'[w].tx \notin raced'
        PROVE  Inputs[job'[w].tx] \subseteq Unspent'
    <2>1. job[w].tx \in PoolTxs \ raced' /\ Inputs[job[w].tx] \subseteq Unspent
      BY <1>1, <1>9 DEF ChainInv, Inv, TypeOK, Job
    <2> QED
      BY <1>1, <1>3, <1>4, <1>7, <2>1 DEF Unspent
  <1> QED
    BY <1>1, <1>6, <1>8, <1>9 DEF ChainInv

LEMMA ChainStep ==
    ASSUME Inv, ChainInv, [Next]_vars
    PROVE  ChainInv'
  <1>1. ASSUME NEW w \in Workers, AddStep(w) \/ \E t \in PoolTxs : Add(w, t)
        PROVE  ChainInv'
    <2>1. /\ \A v \in Workers \ {w} : pc'[v] = pc[v] /\ job'[v] = job[v]
          /\ chain' = chain /\ block' = block /\ raced' = raced
      BY <1>1, OthersStay
    <2>2. CASE \/ Check(w) \/ StoreOrphan(w) \/ Validate(w) \/ CheckCapacity(w)
               \/ ProcessOrphans(w) \/ \E t \in PoolTxs : Add(w, t)
      <3>1. /\ txs' = txs
            /\ pc'[w] = "insert" => pc[w] = "capacity" /\ job' = job
            /\ pc'[w] = "capacity" =>
                  pc[w] = "validate" /\ Inputs[job[w].tx] \subseteq Unspent /\ job' = job
        BY <2>2, OutsideStep
      <3>2. Going' = Going
        BY <2>1, <3>1 DEF Going, Collected
      <3> QED
        BY <2>1, <3>1, <3>2, ChainQuiet
    <2>3. CASE UpdateIndexes(w) \/ UpdateAddStats(w)
      <3>1. txs' = txs /\ pc'[w] \in {"count", "next"}
        BY <2>3 DEF UpdateIndexes, UpdateAddStats, GoTo, poolVars, Inv, TypeOK
      <3>2. Going' = Going
        BY <2>1, <3>1 DEF Going, Collected
      <3> QED
        BY <2>1, <3>1, <3>2, ChainQuiet
    <2> QED
      BY <1>1, <2>2, <2>3, ChainInsert DEF AddStep
  <1>2. CASE \/ \E t \in PoolTxs : RemoveTransaction(t)
             \/ \E S \in SUBSET PoolTxs : RemoveExpired(S)
             \/ ClearMaps
    <2>1. txs' \subseteq txs /\ chain' = chain /\ block' = block
      BY <1>2 DEF RemoveTransaction, RemoveExpired, Removed, ClearMaps
    <2>2. \A t \in txs' : t \in Going => t \in Going'
      BY <2>1 DEF Going, Collected
    <2> QED
      BY <1>2, <2>1, <2>2, WorkersStay, ChainQuiet
  <1>3. CASE \E t \in PoolTxs : RemoveNext(t)
    <2>1. PICK t \in PoolTxs : RemoveNext(t)
      BY <1>3
    <2>2. /\ t \in block.toRemove /\ txs' = txs \ ({t} \cap txs) /\ chain' = chain
          /\ block' = IF block.toRemove = {t} THEN NoBlock
                      ELSE [block EXCEPT !.toRemove = @ \ {t}]
          /\ block \in [txs : SUBSET Txs, collected : BOOLEAN, toRemove : SUBSET PoolTxs]
      BY <2>1 DEF RemoveNext, Removed, Inv, TypeOK
    <2>3. ASSUME NEW u \in txs', u \in Going
          PROVE  u \in Going'
      BY <2>2, <2>3 DEF Going, NoBlock, ChainInv
    <2>4. block'.collected
      BY <2>2 DEF NoBlock, ChainInv
    <2> QED
      BY <1>3, <2>2, <2>3, <2>4, WorkersStay, ChainQuiet
  <1>4. CASE CollectConfirmed
    <2>1. /\ ~block.collected /\ txs' = txs /\ chain' = chain
          /\ block' = IF Collected(block.txs) = {} THEN NoBlock
                      ELSE [block EXCEPT !.collected = TRUE, !.toRemove = Collected(block.txs)]
          /\ block \in [txs : SUBSET Txs, collected : BOOLEAN, toRemove : SUBSET PoolTxs]
      BY <1>4 DEF CollectConfirmed, poolVars, Inv, TypeOK
    <2>2. Going' = Going
      BY <2>1 DEF Going, NoBlock
    <2>3. block'.collected
      BY <2>1 DEF NoBlock
    <2> QED
      BY <1>4, <2>1, <2>2, <2>3, WorkersStay, ChainQuiet
  <1>5. CASE \/ UpdateRemoveStats \/ UpdatePriority \/ ClearStats \/ ClearOrphans
             \/ UNCHANGED vars
    <2>1. txs' = txs /\ chain' = chain /\ block' = block /\ raced \subseteq raced'
          /\ pc' = pc /\ job' = job
      BY <1>5 DEF UpdateRemoveStats, UpdatePriority, ClearStats, ClearOrphans, vars, poolVars,
                  workerVars, history
    <2>2. Going' = Going
      BY <2>1 DEF Going, Collected
    <2> QED
      BY <2>1, <2>2, ChainQuiet
  <1> QED
    BY <1>1, <1>2, <1>3, <1>4, <1>5, ChainConnect, ChainDisconnect DEF Next

\* Once RemoveConfirmedTransactions is done with a block, what is pooled is
\* unconfirmed and spends outputs of the chain that no ordinary transaction of
\* the chain spends, up to the transactions that validation and commit, or a
\* rollback, overtook.
THEOREM PoolAlwaysFollowsChain == Spec => []PoolFollowsChain
  <1>1. ChainInv => PoolFollowsChain
    BY DEF ChainInv, PoolFollowsChain, Minable, Spendable, Going, NoBlock
  <1> QED
    BY <1>1, InitInv, StepInv, ChainInit, ChainStep, PTL DEF Spec
=============================================================================
