---------------------------- MODULE Wallet_proofs ----------------------------
(***************************************************************************)
(* Theorems about Wallet, for every set of transactions, chain of blocks   *)
(* and set of goroutines and every bound: the wallet's coins are those of  *)
(* the chain through connects, rollbacks, stops and crashes, its pending   *)
(* transactions are those of the pool in whatever order the callbacks      *)
(* come, coin selection offers nothing that a tracked transaction spends,  *)
(* and a stake block that extends its tip is valid.                        *)
(***************************************************************************)
EXTENDS Wallet, SequenceTheorems, TLAPS

-----------------------------------------------------------------------------
(* What storage answers for a given chain: Confirmed and Unspent are these  *)
(* for the committed one.                                                   *)
ConfirmedIn(ch) == Base \cup UNION {ch[i] : i \in DOMAIN ch}
UnspentIn(ch) == ConfirmedIn(ch) \ SpentIn(ConfirmedIn(ch))

\* blk is new on chain ch and spends what ch leaves unspent.
Extends(ch, blk) == \A t \in blk : t \notin ConfirmedIn(ch) /\ Inputs[t] \subseteq UnspentIn(ch)

Valid(ch) == \A n \in 1 .. Len(ch) : Extends(SubSeq(ch, 1, n - 1), ch[n])

\* The chain the wallet has been told of.
Told ==
    IF proc.step = "notify" THEN Front(chain)
    ELSE IF proc.step = "undo" THEN Append(chain, proc.blk) ELSE chain

\* The chain whose transactions have been taken out of the pool.
Settled == IF proc.step \in {"notify", "collect", "remove"} THEN Front(chain) ELSE chain

-----------------------------------------------------------------------------
(* The inductive invariant, in parts.                                       *)

Coins == {f \in [Txs -> {"absent", "unspent", "spent"}] : \A o \in Txs : f[o] # "absent" => o \in Mine}
History == [Txs -> {"absent", "evicted", "confirmed"}]
CacheRecord == [chain : Seq(SUBSET Txs), utxos : Coins, transactions : History,
                dropped : SUBSET Txs, missed : SUBSET Txs]
StakeRecord ==
    [step : {"idle", "build", "submit"}, tip : Seq(SUBSET Txs), out : StakeTxs \cup {None},
     txs : SUBSET (PoolTxs \cup StakeTxs), astray : BOOLEAN]

ChainTypes == chain \in Seq(SUBSET Txs) /\ utxos \in Coins /\ transactions \in History
BestTypes == best \in 0 .. Len(chain)
PoolTypes == pool \subseteq PoolTxs /\ raced \subseteq Txs /\ byFeeRate \in [Txs -> Nat]
PendingTypes ==
    /\ pendingTxs \subseteq PoolTxs /\ pendingUTXOs \subseteq Mine
    /\ pendingSpent \in [Txs -> PoolTxs \cup {None}]
CallTypes ==
    /\ call \in [Callers -> Call \cup {None}]
    /\ \A g \in Callers : call[g] # None => call[g].tx \in PoolTxs
ProcTypes == proc \in ProcState /\ proc.toRemove \subseteq PoolTxs
StakeTypes == stake \in StakeRecord /\ (stake.step # "idle" => stake.out \in StakeTxs)
SavedTypes ==
    /\ cacheFile # None => cacheFile \in CacheRecord
    /\ untracked \subseteq Txs /\ overtaken \subseteq Txs /\ dropped \subseteq Txs
    /\ missed \subseteq Txs
TypeInv ==
    /\ ChainTypes /\ BestTypes /\ PoolTypes /\ PendingTypes /\ CallTypes
    /\ ProcTypes /\ StakeTypes /\ SavedTypes

\* The wallet's coins ut and transactions tr are those of chain ch, but for the
\* spent coins dr that a rescan did not load and those of the blocks ms that it
\* was not told of; what ch has spent of the rest is still known, for a rollback
\* to restore it.
Follows(ut, tr, ch, dr, ms) ==
    /\ \A o \in Txs \ ms : ut[o] = "unspent" => o \in Mine \cap UnspentIn(ch)
    /\ \A o \in (Mine \cap UnspentIn(ch)) \ (dr \cup ms) : ut[o] = "unspent"
    /\ \A o \in (Mine \cap ConfirmedIn(ch)) \ (dr \cup ms \cup SpentIn(Base)) : ut[o] # "absent"
    /\ \A t \in ConfirmedIn(ch) \ ms :
          t \in Mine \/ (\E o \in Inputs[t] : ut[o] # "absent") => tr[t] = "confirmed"

\* The processor carries the block it has just connected or disconnected; the
\* tip in memory is older than a block that is being connected.
Carried ==
    /\ proc.step \in {"notify", "collect", "remove"} =>
          chain # <<>> /\ proc.blk = Last(chain) /\ best < Len(chain)
    /\ proc.step = "undo" => Extends(chain, proc.blk)

Saved ==
    cacheFile # None =>
        Follows(cacheFile.utxos, cacheFile.transactions, cacheFile.chain, cacheFile.dropped,
                cacheFile.missed)

ChainInv == Valid(chain) /\ Carried /\ Follows(utxos, transactions, Told, dropped, missed) /\ Saved

NoConflict(S) == \A t, u \in S : t # u => Inputs[t] \cap Inputs[u] = {}

\* What is being announced is in the pool, or left it too early; what is
\* pending is in the pool, or the wallet will be told that it is not; and it is
\* not on the chain, as far as the wallet was told.
AnnouncedPooled == \A t \in PoolTxs : Announcing(t) # {} => t \in pool \cup raced
PendingPooled == pendingTxs \subseteq pool \cup Left
PendingNew == \A t \in pendingTxs \cap ConfirmedIn(Told) : Untold(t)

PendingInv ==
    /\ NoConflict(pool) /\ AnnouncedPooled /\ PendingPooled /\ PendingNew
    /\ ConfirmedNotPending /\ PendingIndexExact

\* A pooled transaction of the block that was connected, still to be removed.
Leaving(t) ==
    /\ proc.step \in {"collect", "remove"} /\ t \in proc.blk
    /\ proc.step = "remove" => t \in proc.toRemove

\* Every pooled transaction is pending, or there is a reason why it is not.
OfferInv ==
    \A t \in pool :
        t \in pendingTxs \/ Announcing(t) # {} \/ t \in untracked \/ Untold(t) \/ Leaving(t)

\* t is not on ch and spends nothing that ch spends, coinstakes apart.
Clean(t, ch) ==
    /\ t \notin ConfirmedIn(ch)
    /\ Inputs[t] \cap SpentIn(ConfirmedIn(ch) \ StakeTxs) = {}

CleanInv ==
    /\ \A t \in pool \ stale :
          /\ Clean(t, Settled)
          /\ proc.step = "remove" => t \in proc.toRemove \/ Clean(t, chain)
    /\ \A t \in Validated \ stale : Clean(t, chain)

\* A transaction is listed once from its indexing to its removal, and one
\* goroutine at most is to index it.
ListInv ==
    \A t \in PoolTxs \ stale :
        /\ Indexing(t) # {} => t \in pool /\ \E g \in Callers : Indexing(t) = {g}
        /\ byFeeRate[t] = IF t \in pool /\ Indexing(t) = {} THEN 1 ELSE 0

\* The coinstake fits on the tip it was selected on, and so do the transactions
\* the block was built with.
StakeInv ==
    (stake.step # "idle" /\ ~stake.astray) =>
        /\ ~Untold(stake.out) =>
              stake.out \notin ConfirmedIn(stake.tip) /\ Inputs[stake.out] \subseteq UnspentIn(stake.tip)
        /\ stake.step = "submit" =>
              /\ NoConflict(stake.txs \ ({stake.out} \cup stale))
              /\ \A t \in stake.txs \ ({stake.out} \cup stale) : Clean(t, stake.tip)

-----------------------------------------------------------------------------
(* Chains.                                                                  *)

\* What the first elements of a sequence are.
LEMMA PrefixFacts ==
    ASSUME NEW S, NEW s \in Seq(S), NEW n \in 0 .. Len(s)
    PROVE  /\ SubSeq(s, 1, n) \in Seq(S) /\ Len(SubSeq(s, 1, n)) = n
           /\ \A i \in 1 .. n : SubSeq(s, 1, n)[i] = s[i]
  BY LenProperties, SubSeqProperties

\* What a chain confirms consists of transactions.
LEMMA ConfirmedTxs ==
    ASSUME NEW ch \in Seq(SUBSET Txs)
    PROVE  ConfirmedIn(ch) \subseteq Txs
  <1>1. Base \subseteq Txs
    BY WalletAssumption DEF WalletAssumption
  <1>2. \A i \in DOMAIN ch : ch[i] \subseteq Txs
    OBVIOUS
  <1> QED  BY <1>1, <1>2, WalletAssumption DEF WalletAssumption, ConfirmedIn

\* A block at the end of a chain adds itself to what is confirmed.
LEMMA AppendChain ==
    ASSUME NEW ch \in Seq(SUBSET Txs), NEW blk \in SUBSET Txs
    PROVE  /\ Append(ch, blk) \in Seq(SUBSET Txs) /\ Append(ch, blk) # <<>>
           /\ Len(Append(ch, blk)) = Len(ch) + 1
           /\ Front(Append(ch, blk)) = ch /\ Last(Append(ch, blk)) = blk
           /\ ConfirmedIn(Append(ch, blk)) = ConfirmedIn(ch) \cup blk
  <1> DEFINE a == Append(ch, blk)
  <1>1. /\ a \in Seq(SUBSET Txs) /\ Len(a) = Len(ch) + 1 /\ a[Len(a)] = blk
        /\ \A i \in 1 .. Len(ch) : a[i] = ch[i]
    BY AppendProperties
  <1>2. DOMAIN a = DOMAIN ch \cup {Len(a)}
    BY <1>1, LenProperties
  <1>3. UNION {a[i] : i \in DOMAIN a} = (UNION {ch[i] : i \in DOMAIN ch}) \cup blk
    <2>1. \A i \in DOMAIN ch : a[i] = ch[i]
      BY <1>1
    <2>2. {a[i] : i \in DOMAIN a} = {ch[i] : i \in DOMAIN ch} \cup {blk}
      BY <1>1, <1>2, <2>1, Zenon
    <2> QED  BY <2>2, Zenon
  <1>4. Front(a) = ch
    BY <1>1, SubSeqProperties, SubSeqFull, SeqEqual DEF Front
  <1> QED  BY <1>1, <1>3, <1>4 DEF Last, ConfirmedIn

\* A chain that is not empty is its last block after the others.
LEMMA FrontChain ==
    ASSUME NEW ch \in Seq(SUBSET Txs), ch # <<>>
    PROVE  /\ Front(ch) \in Seq(SUBSET Txs) /\ Last(ch) \in SUBSET Txs
           /\ Len(Front(ch)) = Len(ch) - 1
           /\ Append(Front(ch), Last(ch)) = ch
           /\ ConfirmedIn(ch) = ConfirmedIn(Front(ch)) \cup Last(ch)
  <1>1. Len(ch) \in Nat \ {0}
    BY EmptySeq, LenProperties
  <1>2. /\ Front(ch) \in Seq(SUBSET Txs) /\ Last(ch) \in SUBSET Txs /\ Len(Front(ch)) = Len(ch) - 1
        /\ \A i \in 1 .. Len(ch) - 1 : Front(ch)[i] = ch[i]
    <2>1. ch[Len(ch)] \in SUBSET Txs
      BY <1>1, ElementOfSeq
    <2>2. /\ SubSeq(ch, 1, Len(ch) - 1) \in Seq(SUBSET Txs)
          /\ Len(SubSeq(ch, 1, Len(ch) - 1)) = Len(ch) - 1
          /\ \A i \in 1 .. Len(ch) - 1 : SubSeq(ch, 1, Len(ch) - 1)[i] = ch[i]
      <3>1. Len(ch) - 1 \in 0 .. Len(ch)
        BY <1>1
      <3> QED  BY <3>1, PrefixFacts, Zenon
    <2> QED  BY <2>1, <2>2 DEF Front, Last
  <1>3. Append(Front(ch), Last(ch)) = ch
    BY <1>1, <1>2, AppendProperties, SeqEqual DEF Last
  <1> QED  BY <1>2, <1>3, AppendChain

LEMMA SpentOfUnion ==
    ASSUME NEW A, NEW B
    PROVE  SpentIn(A \cup B) = SpentIn(A) \cup SpentIn(B)
  BY DEF SpentIn

LEMMA SpentOfMember ==
    ASSUME NEW A, NEW t \in A
    PROVE  Inputs[t] \subseteq SpentIn(A)
  BY DEF SpentIn

LEMMA SpentBySome ==
    ASSUME NEW A, NEW o \in SpentIn(A)
    PROVE  \E t \in A : o \in Inputs[t]
  BY DEF SpentIn

-----------------------------------------------------------------------------
(* Valid chains.                                                            *)

LEMMA ValidAppend ==
    ASSUME NEW ch \in Seq(SUBSET Txs), NEW blk \in SUBSET Txs, Valid(ch), Extends(ch, blk)
    PROVE  Valid(Append(ch, blk))
  <1> DEFINE a == Append(ch, blk)
  <1>1. /\ a \in Seq(SUBSET Txs) /\ Len(a) = Len(ch) + 1 /\ a[Len(a)] = blk
        /\ \A i \in 1 .. Len(ch) : a[i] = ch[i]
    BY AppendProperties
  <1>2. SUFFICES ASSUME NEW n \in 1 .. Len(a)
                 PROVE  Extends(SubSeq(a, 1, n - 1), a[n])
    BY DEF Valid
  <1>3. Len(ch) \in Nat /\ n - 1 \in 0 .. Len(ch)
    BY <1>1, LenProperties
  <1>4. SubSeq(a, 1, n - 1) = SubSeq(ch, 1, n - 1)
    <2>1. /\ SubSeq(a, 1, n - 1) \in Seq(SUBSET Txs) /\ Len(SubSeq(a, 1, n - 1)) = n - 1
          /\ \A i \in 1 .. n - 1 : SubSeq(a, 1, n - 1)[i] = a[i]
      BY <1>1, <1>3, SubSeqProperties
    <2>2. /\ SubSeq(ch, 1, n - 1) \in Seq(SUBSET Txs) /\ Len(SubSeq(ch, 1, n - 1)) = n - 1
          /\ \A i \in 1 .. n - 1 : SubSeq(ch, 1, n - 1)[i] = ch[i]
      BY <1>3, SubSeqProperties
    <2> QED  BY <1>1, <1>3, <2>1, <2>2, SeqEqual
  <1>5. CASE n = Len(a)
    <2>1. SubSeq(ch, 1, n - 1) = ch
      BY <1>1, <1>3, <1>5, SubSeqFull
    <2> QED  BY <1>1, <1>4, <1>5, <2>1
  <1>6. CASE n # Len(a)
    <2>1. n \in 1 .. Len(ch) /\ a[n] = ch[n]
      BY <1>1, <1>3, <1>6
    <2> QED  BY <1>4, <2>1 DEF Valid
  <1> QED  BY <1>5, <1>6

LEMMA ValidFront ==
    ASSUME NEW ch \in Seq(SUBSET Txs), ch # <<>>, Valid(ch)
    PROVE  Valid(Front(ch)) /\ Extends(Front(ch), Last(ch))
  <1>1. Len(ch) \in Nat \ {0}
    BY EmptySeq, LenProperties
  <1>2. Extends(Front(ch), Last(ch))
    BY <1>1 DEF Valid, Front, Last
  <1>3. ASSUME NEW n \in 1 .. Len(Front(ch))
        PROVE  Extends(SubSeq(Front(ch), 1, n - 1), Front(ch)[n])
    <2>1. /\ Len(Front(ch)) = Len(ch) - 1 /\ Front(ch) \in Seq(SUBSET Txs)
          /\ \A i \in 1 .. Len(ch) - 1 : Front(ch)[i] = ch[i]
      BY <1>1, SubSeqProperties DEF Front
    <2>2. n \in 1 .. Len(ch) - 1
      BY <2>1
    <2>3. SubSeq(Front(ch), 1, n - 1) = SubSeq(ch, 1, n - 1)
      <3>1. /\ SubSeq(Front(ch), 1, n - 1) \in Seq(SUBSET Txs)
            /\ Len(SubSeq(Front(ch), 1, n - 1)) = n - 1
            /\ \A i \in 1 .. n - 1 : SubSeq(Front(ch), 1, n - 1)[i] = Front(ch)[i]
        BY <1>1, <2>1, <2>2, SubSeqProperties
      <3>2. /\ SubSeq(ch, 1, n - 1) \in Seq(SUBSET Txs) /\ Len(SubSeq(ch, 1, n - 1)) = n - 1
            /\ \A i \in 1 .. n - 1 : SubSeq(ch, 1, n - 1)[i] = ch[i]
        BY <1>1, <2>2, SubSeqProperties
      <3> QED  BY <1>1, <2>1, <2>2, <3>1, <3>2, SeqEqual
    <2>4. n \in 1 .. Len(ch) /\ Front(ch)[n] = ch[n]
      BY <1>1, <2>1, <2>2
    <2>5. Extends(SubSeq(ch, 1, n - 1), ch[n])
      BY <2>4 DEF Valid
    <2> QED  BY <2>3, <2>4, <2>5
  <1> QED  BY <1>2, <1>3 DEF Valid

\* A valid chain spends only what it confirms.
LEMMA ValidSpends ==
    ASSUME NEW ch \in Seq(SUBSET Txs), Valid(ch), NEW t \in ConfirmedIn(ch)
    PROVE  Inputs[t] \subseteq ConfirmedIn(ch)
  <1>1. CASE t \in Base
    BY <1>1, WalletAssumption DEF WalletAssumption, ConfirmedIn
  <1>2. CASE t \notin Base
    <2>1. PICK n \in DOMAIN ch : t \in ch[n]
      BY <1>2 DEF ConfirmedIn
    <2>2. n \in 1 .. Len(ch) /\ Len(ch) \in Nat
      BY LenProperties
    <2>3. Inputs[t] \subseteq ConfirmedIn(SubSeq(ch, 1, n - 1))
      BY <2>1, <2>2 DEF Valid, Extends, UnspentIn
    <2>4. /\ SubSeq(ch, 1, n - 1) \in Seq(SUBSET Txs) /\ Len(SubSeq(ch, 1, n - 1)) = n - 1
          /\ \A i \in 1 .. n - 1 : SubSeq(ch, 1, n - 1)[i] = ch[i]
      BY <2>2, SubSeqProperties
    <2>5. DOMAIN SubSeq(ch, 1, n - 1) = 1 .. n - 1
      BY <2>4, LenProperties
    <2>6. \A i \in 1 .. n - 1 : i \in DOMAIN ch
      BY <2>2, LenProperties
    <2>7. {SubSeq(ch, 1, n - 1)[i] : i \in DOMAIN SubSeq(ch, 1, n - 1)} \subseteq {ch[i] : i \in DOMAIN ch}
      BY <2>4, <2>5, <2>6, Zenon
    <2>8. ConfirmedIn(SubSeq(ch, 1, n - 1)) \subseteq ConfirmedIn(ch)
      BY <2>7, Zenon DEF ConfirmedIn
    <2> QED  BY <2>3, <2>8
  <1> QED  BY <1>1, <1>2

\* What a block does to the confirmed and the unspent outputs.
LEMMA Extension ==
    ASSUME NEW ch \in Seq(SUBSET Txs), NEW blk \in SUBSET Txs, Valid(ch), Extends(ch, blk)
    PROVE  /\ blk \cap ConfirmedIn(ch) = {}
           /\ SpentIn(blk) \subseteq UnspentIn(ch)
           /\ SpentIn(ConfirmedIn(ch)) \subseteq ConfirmedIn(ch)
           /\ UnspentIn(Append(ch, blk)) = (UnspentIn(ch) \cup blk) \ SpentIn(blk)
  <1>1. blk \cap ConfirmedIn(ch) = {}
    BY DEF Extends
  <1>2. SpentIn(blk) \subseteq UnspentIn(ch)
    BY SpentBySome DEF Extends
  <1>3. SpentIn(ConfirmedIn(ch)) \subseteq ConfirmedIn(ch)
    BY SpentBySome, ValidSpends
  <1>4. SpentIn(ConfirmedIn(ch) \cup blk) = SpentIn(ConfirmedIn(ch)) \cup SpentIn(blk)
    BY SpentOfUnion
  <1>5. ConfirmedIn(Append(ch, blk)) = ConfirmedIn(ch) \cup blk
    BY AppendChain
  <1> QED  BY <1>1, <1>2, <1>3, <1>4, <1>5 DEF UnspentIn

-----------------------------------------------------------------------------
(* The wallet's coins.                                                      *)

\* The wallet is told of a block: its coins were those of the chain below.
LEMMA FollowsConnect ==
    ASSUME NEW ch \in Seq(SUBSET Txs), NEW blk \in SUBSET Txs, Valid(ch), Extends(ch, blk),
           utxos \in Coins, Follows(utxos, transactions, ch, dropped, missed),
           NEW tr, \A t \in blk : t \in Mine \/ (\E o \in Inputs[t] : ConnectedUTXOs(blk)[o] # "absent")
                                    => tr[t] = "confirmed",
           \A t \in Txs : transactions[t] = "confirmed" => tr[t] = "confirmed"
    PROVE  Follows(ConnectedUTXOs(blk), tr, Append(ch, blk), dropped, missed)
  <1> DEFINE ut == ConnectedUTXOs(blk)
             C == ConfirmedIn(ch)
             U == UnspentIn(ch)
  <1>1. /\ blk \cap C = {} /\ SpentIn(blk) \subseteq U /\ SpentIn(C) \subseteq C
        /\ UnspentIn(Append(ch, blk)) = (U \cup blk) \ SpentIn(blk)
        /\ ConfirmedIn(Append(ch, blk)) = C \cup blk
    BY Extension, AppendChain
  <1>2. U \subseteq C /\ C \subseteq Txs
    BY ConfirmedTxs DEF UnspentIn
  <1>3. \A o \in Txs : ut[o] = IF o \notin blk \cap Mine /\ utxos[o] = "absent" THEN "absent"
                               ELSE IF o \in SpentIn(blk) THEN "spent"
                               ELSE IF o \in blk \cap Mine THEN "unspent" ELSE utxos[o]
    BY DEF ConnectedUTXOs
  <1>4. /\ \A o \in Txs \ missed : utxos[o] = "unspent" => o \in Mine \cap U
        /\ \A o \in (Mine \cap U) \ (dropped \cup missed) : utxos[o] = "unspent"
        /\ \A o \in (Mine \cap C) \ (dropped \cup missed \cup SpentIn(Base)) : utxos[o] # "absent"
        /\ \A t \in C \ missed : t \in Mine \/ (\E o \in Inputs[t] : utxos[o] # "absent")
                          => transactions[t] = "confirmed"
    BY DEF Follows
  <1> HIDE DEF ut, C, U
  <1>5. \A o \in Txs \ missed : ut[o] = "unspent" => o \in Mine \cap ((U \cup blk) \ SpentIn(blk))
    BY <1>3, <1>4
  <1>6. \A o \in (Mine \cap ((U \cup blk) \ SpentIn(blk))) \ (dropped \cup missed) : ut[o] = "unspent"
    BY <1>1, <1>2, <1>3, <1>4
  <1>7. \A o \in (Mine \cap (C \cup blk)) \ (dropped \cup missed \cup SpentIn(Base)) : ut[o] # "absent"
    BY <1>1, <1>2, <1>3, <1>4
  <1>8. ASSUME NEW t \in (C \cup blk) \ missed, t \in Mine \/ \E o \in Inputs[t] : ut[o] # "absent"
        PROVE  tr[t] = "confirmed"
    <2>1. CASE t \in blk
      BY <1>8, <2>1 DEF ut
    <2>2. CASE t \in C
      <3>1. Inputs[t] \subseteq C /\ t \in Txs
        BY <1>2, <2>2, ValidSpends DEF C
      <3>2. \A o \in Inputs[t] : ut[o] # "absent" => utxos[o] # "absent"
        BY <1>1, <1>2, <1>3, <3>1
      <3> QED  BY <1>4, <1>8, <2>2, <3>1, <3>2
    <2> QED  BY <2>1, <2>2
  <1> QED  BY <1>1, <1>5, <1>6, <1>7, <1>8 DEF Follows, ut, C, U

\* The wallet is told that a block is gone: its coins were those of the chain
\* with the block.
LEMMA FollowsDisconnect ==
    ASSUME NEW ch \in Seq(SUBSET Txs), NEW blk \in SUBSET Txs, Valid(ch), Extends(ch, blk),
           utxos \in Coins, Follows(utxos, transactions, Append(ch, blk), dropped, missed),
           NEW tr, \A t \in Txs \ blk : transactions[t] = "confirmed" => tr[t] = "confirmed"
    PROVE  Follows(DisconnectedUTXOs(blk), tr, ch, dropped, missed)
  <1> DEFINE ut == DisconnectedUTXOs(blk)
             C == ConfirmedIn(ch)
             U == UnspentIn(ch)
  <1>1. /\ blk \cap C = {} /\ SpentIn(blk) \subseteq U /\ SpentIn(C) \subseteq C
        /\ UnspentIn(Append(ch, blk)) = (U \cup blk) \ SpentIn(blk)
        /\ ConfirmedIn(Append(ch, blk)) = C \cup blk
    BY Extension, AppendChain
  <1>2. U = C \ SpentIn(C) /\ C \subseteq Txs
    BY ConfirmedTxs DEF UnspentIn
  <1>3. \A o \in Txs : ut[o] = IF o \in blk THEN "absent"
                               ELSE IF o \in SpentIn(blk) /\ utxos[o] # "absent" THEN "unspent"
                               ELSE utxos[o]
    BY DEF DisconnectedUTXOs
  <1>4. /\ \A o \in Txs \ missed : utxos[o] = "unspent" => o \in Mine \cap ((U \cup blk) \ SpentIn(blk))
        /\ \A o \in (Mine \cap ((U \cup blk) \ SpentIn(blk))) \ (dropped \cup missed) : utxos[o] = "unspent"
        /\ \A o \in (Mine \cap (C \cup blk)) \ (dropped \cup missed \cup SpentIn(Base)) : utxos[o] # "absent"
        /\ \A t \in (C \cup blk) \ missed : t \in Mine \/ (\E o \in Inputs[t] : utxos[o] # "absent")
                                   => transactions[t] = "confirmed"
    BY <1>1 DEF Follows
  <1>5. \A o \in Txs : utxos[o] # "absent" => o \in Mine
    BY DEF Coins
  <1>6. SpentIn(Base) \subseteq SpentIn(C)
    BY DEF SpentIn, ConfirmedIn
  <1> HIDE DEF ut, C, U
  <1>7. \A o \in Txs \ missed : ut[o] = "unspent" => o \in Mine \cap U
    BY <1>1, <1>3, <1>4, <1>5
  <1>8. \A o \in (Mine \cap U) \ (dropped \cup missed) : ut[o] = "unspent"
    BY <1>1, <1>2, <1>3, <1>4, <1>6
  <1>9. \A o \in (Mine \cap C) \ (dropped \cup missed \cup SpentIn(Base)) : ut[o] # "absent"
    BY <1>1, <1>2, <1>3, <1>4
  <1>10. ASSUME NEW t \in C \ missed, t \in Mine \/ \E o \in Inputs[t] : ut[o] # "absent"
         PROVE  tr[t] = "confirmed"
    <2>1. Inputs[t] \subseteq C /\ t \in Txs \ blk
      BY <1>1, <1>2, ValidSpends DEF C
    <2>2. \A o \in Inputs[t] : ut[o] # "absent" => utxos[o] # "absent"
      BY <1>1, <1>2, <1>3, <2>1
    <2> QED  BY <1>4, <1>10, <2>1, <2>2
  <1> QED  BY <1>7, <1>8, <1>9, <1>10 DEF Follows, ut, C, U

\* The wallet is not told of a block: its coins become doubtful.
LEMMA FollowsMiss ==
    ASSUME NEW ch \in Seq(SUBSET Txs), NEW blk \in SUBSET Txs, Valid(ch), Extends(ch, blk),
           Follows(utxos, transactions, ch, dropped, missed)
    PROVE  Follows(utxos, transactions, Append(ch, blk), dropped, missed \cup blk \cup SpentIn(blk))
  <1>1. /\ UnspentIn(Append(ch, blk)) = (UnspentIn(ch) \cup blk) \ SpentIn(blk)
        /\ ConfirmedIn(Append(ch, blk)) = ConfirmedIn(ch) \cup blk
    BY Extension, AppendChain
  <1> QED  BY <1>1 DEF Follows

\* The chain read by the rescan is the committed one.
LEMMA ConfirmedCommitted ==
    Confirmed = ConfirmedIn(chain) /\ Unspent = UnspentIn(chain)
  BY DEF Confirmed, Unspent, ConfirmedIn, UnspentIn

\* A rescan loads the wallet's unspent outputs and its transactions.
LEMMA FollowsRescan ==
    ASSUME NEW dr, chain \in Seq(SUBSET Txs),
           \A o \in Mine \cap ConfirmedIn(chain) :
               o \in SpentIn(ConfirmedIn(chain)) => o \in dr \cup SpentIn(Base)
    PROVE  Follows(Rescanned, RescannedTxs, chain, dr, {})
  <1> DEFINE C == ConfirmedIn(chain)
             U == UnspentIn(chain)
  <1>1. U = C \ SpentIn(C) /\ C \subseteq Txs
    BY ConfirmedTxs DEF UnspentIn
  <1>2. \A o \in Txs : Rescanned[o] = IF o \in Mine \cap U THEN "unspent" ELSE "absent"
    BY ConfirmedCommitted DEF Rescanned
  <1>3. \A t \in Txs : RescannedTxs[t] = IF t \in C /\ (t \in Mine \/ Inputs[t] \cap Mine # {})
                                         THEN "confirmed" ELSE "absent"
    BY ConfirmedCommitted DEF RescannedTxs
  <1>4. \A t \in Txs : Inputs[t] \subseteq Txs
    BY WalletAssumption DEF WalletAssumption
  <1>5. \A o \in (Mine \cap C) \ (dr \cup SpentIn(Base)) : Rescanned[o] # "absent"
    BY <1>1, <1>2
  <1>6. ASSUME NEW t \in C, t \in Mine \/ \E o \in Inputs[t] : Rescanned[o] # "absent"
        PROVE  RescannedTxs[t] = "confirmed"
    <2>1. \A o \in Inputs[t] : Rescanned[o] # "absent" => o \in Mine
      BY <1>1, <1>2, <1>4
    <2> QED  BY <1>1, <1>3, <1>6, <2>1
  <1>7. /\ \A o \in Txs : Rescanned[o] = "unspent" => o \in Mine \cap U
        /\ \A o \in (Mine \cap U) \ dr : Rescanned[o] = "unspent"
    BY <1>1, <1>2
  <1> QED  BY <1>5, <1>6, <1>7 DEF Follows

-----------------------------------------------------------------------------
(* Type correctness.                                                        *)

\* What the assumptions say of the sets of transactions.
LEMMA Sets ==
    /\ PoolTxs \subseteq Txs /\ StakeTxs \subseteq Txs /\ PoolTxs \cap StakeTxs = {}
    /\ Base \cap PoolTxs = {} /\ Sends \subseteq PoolTxs /\ Mine \subseteq Txs
    /\ \A t \in Txs : Inputs[t] \subseteq Txs
    /\ None \notin Txs /\ None \notin Call
    /\ Peers \subseteq Callers /\ Sender \in Callers /\ Proc \in Callers
  BY WalletAssumption DEF WalletAssumption, PoolTxs, Callers

\* The variables that an action leaves alone keep their types.
LEMMA TypesKept ==
    /\ ChainTypes /\ UNCHANGED <<chain, utxos, transactions>> => ChainTypes'
    /\ PoolTypes /\ UNCHANGED poolVars => PoolTypes'
    /\ PendingTypes /\ UNCHANGED pendingVars => PendingTypes'
    /\ CallTypes /\ UNCHANGED call => CallTypes'
    /\ ProcTypes /\ UNCHANGED proc => ProcTypes'
    /\ StakeTypes /\ UNCHANGED stake => StakeTypes'
    /\ SavedTypes /\ UNCHANGED <<cacheFile, trackVars, missed>> => SavedTypes'
    /\ BestTypes /\ UNCHANGED <<chain, best>> => BestTypes'
  <1>1. ChainTypes /\ UNCHANGED <<chain, utxos, transactions>> => ChainTypes'
    BY DEF ChainTypes
  <1>2. PoolTypes /\ UNCHANGED poolVars => PoolTypes'
    BY DEF PoolTypes, poolVars
  <1>3. PendingTypes /\ UNCHANGED pendingVars => PendingTypes'
    BY DEF PendingTypes, pendingVars
  <1>4. CallTypes /\ UNCHANGED call => CallTypes'
    BY DEF CallTypes
  <1>5. ProcTypes /\ UNCHANGED proc => ProcTypes'
    BY DEF ProcTypes
  <1>6. StakeTypes /\ UNCHANGED stake => StakeTypes'
    BY DEF StakeTypes
  <1>7. SavedTypes /\ UNCHANGED <<cacheFile, trackVars, missed>> => SavedTypes'
    BY DEF SavedTypes, trackVars
  <1>8. BestTypes /\ UNCHANGED <<chain, best>> => BestTypes'
    BY DEF BestTypes
  <1> QED  BY <1>1, <1>2, <1>3, <1>4, <1>5, <1>6, <1>7, <1>8

LEMMA TypeInit == Init => TypeInv
  <1> SUFFICES ASSUME Init PROVE TypeInv
    OBVIOUS
  <1> USE DEF Init
  <1>1. ChainTypes
    <2>1. chain \in Seq(SUBSET Txs)
      BY EmptySeq
    <2>2. utxos \in Coins
      BY DEF Rescanned, Coins
    <2>3. transactions \in History
      BY DEF RescannedTxs, History
    <2> QED  BY <2>1, <2>2, <2>3 DEF ChainTypes
  <1>2. PoolTypes /\ PendingTypes
    BY DEF PoolTypes, PendingTypes
  <1>3. CallTypes
    BY DEF CallTypes
  <1>4. ProcTypes
    BY DEF ProcTypes, ProcState, ProcIdle
  <1>5. StakeTypes
    BY EmptySeq DEF StakeTypes, StakeRecord, StakeIdle
  <1>6. SavedTypes
    BY DEF SavedTypes
  <1>7. BestTypes
    BY EmptySeq DEF BestTypes
  <1> QED  BY <1>1, <1>2, <1>3, <1>4, <1>5, <1>6, <1>7 DEF TypeInv

LEMMA TypeAdd ==
    ASSUME TypeInv, NEW g \in Callers,
           (\E t \in PoolTxs : Validate(g, t)) \/ Insert(g) \/ UpdateIndexes(g)
    PROVE  TypeInv'
  <1>1. /\ UNCHANGED <<chain, utxos, transactions>> /\ UNCHANGED <<chain, best>> /\ UNCHANGED pendingVars
        /\ UNCHANGED proc /\ UNCHANGED stake /\ UNCHANGED <<cacheFile, trackVars, missed>>
    BY DEF Validate, Insert, UpdateIndexes, walletVars, historyVars
  <1>2. PoolTypes' /\ CallTypes'
    <2>1. CASE \E t \in PoolTxs : Validate(g, t)
      <3>1. PICK t \in PoolTxs : Validate(g, t)
        BY <2>1
      <3>2. PoolTypes'
        BY <3>1, TypesKept DEF Validate, TypeInv
      <3>3. CallTypes'
        BY <3>1, Sets DEF Validate, TypeInv, CallTypes, Call
      <3> QED  BY <3>2, <3>3
    <2>2. CASE Insert(g)
      <3>1. call[g] \in Call /\ call[g].tx \in PoolTxs
        BY <2>2 DEF Insert, TypeInv, CallTypes
      <3>2. /\ pool' \subseteq pool \cup {call[g].tx} /\ UNCHANGED <<byFeeRate, raced>>
            /\ call' = [call EXCEPT ![g].kind = "accept"] \/ call' = [call EXCEPT ![g] = None]
        BY <2>2 DEF Insert, P!Accept
      <3>3. PoolTypes'
        BY <3>1, <3>2 DEF TypeInv, PoolTypes
      <3>4. CASE call' = [call EXCEPT ![g].kind = "accept"]
        <4>1. /\ [call[g] EXCEPT !.kind = "accept"] \in Call
              /\ [call[g] EXCEPT !.kind = "accept"].tx = call[g].tx
          BY <3>1 DEF Call
        <4>2. call' = [call EXCEPT ![g] = [call[g] EXCEPT !.kind = "accept"]]
          BY <3>4
        <4> QED  BY <3>1, <3>3, <4>1, <4>2 DEF TypeInv, CallTypes
      <3>5. CASE call' = [call EXCEPT ![g] = None]
        BY <3>3, <3>5 DEF TypeInv, CallTypes
      <3> QED  BY <3>2, <3>4, <3>5
    <2>3. CASE UpdateIndexes(g)
      <3>1. call[g] \in Call /\ call[g].tx \in PoolTxs
        BY <2>3 DEF UpdateIndexes, TypeInv, CallTypes
      <3>2. PoolTypes'
        BY <2>3, <3>1, Sets DEF UpdateIndexes, TypeInv, PoolTypes
      <3>3. /\ [call[g] EXCEPT !.kind = "track"] \in Call
            /\ [call[g] EXCEPT !.kind = "track"].tx = call[g].tx
        BY <3>1 DEF Call
      <3>4. \/ call' = [call EXCEPT ![g] = [call[g] EXCEPT !.kind = "track"]]
            \/ call' = [call EXCEPT ![g] = None]
        BY <2>3 DEF UpdateIndexes
      <3> QED  BY <3>1, <3>2, <3>3, <3>4 DEF TypeInv, CallTypes
    <2> QED  BY <2>1, <2>2, <2>3
  <1> QED  BY <1>1, <1>2, TypesKept DEF TypeInv

LEMMA LeavesTypes ==
    ASSUME PoolTypes, CallTypes, NEW g \in Callers, NEW t \in PoolTxs, Leaves(g, t)
    PROVE  PoolTypes' /\ CallTypes'
  <1>1. /\ pool' = pool \ {t} /\ call' = [call EXCEPT ![g] = [kind |-> "evict", tx |-> t]]
        /\ raced' \subseteq raced \cup {t}
        /\ byFeeRate' = [byFeeRate EXCEPT ![t] = IF byFeeRate[t] > 0 THEN byFeeRate[t] - 1 ELSE 0]
    BY DEF Leaves, P!Remove
  <1>2. PoolTypes'
    BY <1>1, Sets DEF PoolTypes
  <1>3. CallTypes'
    BY <1>1, Sets DEF CallTypes, Call
  <1> QED  BY <1>2, <1>3

LEMMA ForgetTypes ==
    ASSUME PendingTypes, NEW S, Forget(S)
    PROVE  PendingTypes'
  BY DEF PendingTypes, Forget

LEMMA ReturnedTypes ==
    ASSUME CallTypes, NEW g \in Callers, call[g] # None
    PROVE  /\ Returned(g) \in [Callers -> Call \cup {None}]
           /\ \A h \in Callers : h # g => Returned(g)[h] = call[h]
           /\ Returned(g)[g] # None =>
                 /\ call[g].kind = "accept"
                 /\ Returned(g)[g].kind = "index" /\ Returned(g)[g].tx = call[g].tx
           /\ call[g].kind = "accept" => Returned(g)[g] # None
  <1>1. call[g] \in Call
    BY DEF CallTypes
  <1>2. /\ [call[g] EXCEPT !.kind = "index"] \in Call
        /\ [call[g] EXCEPT !.kind = "index"].kind = "index"
        /\ [call[g] EXCEPT !.kind = "index"].tx = call[g].tx
    BY <1>1 DEF Call
  <1>3. Returned(g) = [call EXCEPT ![g] = IF call[g].kind = "accept"
                                          THEN [call[g] EXCEPT !.kind = "index"] ELSE None]
    BY DEF Returned
  <1> QED  BY <1>2, <1>3, Sets DEF CallTypes

LEMMA CommitTypes ==
    ASSUME TypeInv, NEW blk \in SUBSET Txs, Commit(blk)
    PROVE  /\ ChainTypes' /\ BestTypes' /\ PoolTypes' /\ PendingTypes' /\ CallTypes'
           /\ ProcTypes' /\ SavedTypes'
  <1>1. /\ UNCHANGED <<utxos, transactions>> /\ UNCHANGED poolVars /\ UNCHANGED pendingVars
        /\ UNCHANGED call /\ UNCHANGED <<cacheFile, trackVars>> /\ UNCHANGED best
        /\ chain' = Append(chain, blk) /\ missed' \subseteq missed \cup blk \cup SpentIn(blk)
    BY DEF Commit, walletVars
  <1>2. ChainTypes'
    BY <1>1, AppendChain DEF TypeInv, ChainTypes
  <1>3. ProcTypes'
    BY DEF Commit, TypeInv, ProcTypes, ProcState, ProcIdle
  <1>4. BestTypes'
    BY <1>1, AppendChain, LenProperties DEF TypeInv, ChainTypes, BestTypes
  <1>5. SavedTypes'
    <2>1. SpentIn(blk) \subseteq Txs
      BY SpentBySome, Sets
    <2> QED  BY <1>1, <2>1 DEF TypeInv, SavedTypes, trackVars
  <1> QED  BY <1>1, <1>2, <1>3, <1>4, <1>5, TypesKept DEF TypeInv

LEMMA FreshTypes ==
    ASSUME TypeInv, Fresh
    PROVE  /\ PoolTypes' /\ PendingTypes' /\ CallTypes' /\ ProcTypes' /\ StakeTypes' /\ BestTypes'
           /\ chain' \in Seq(SUBSET Txs) /\ untracked' = {} /\ overtaken' = {}
  <1>1. PoolTypes' /\ PendingTypes'
    BY DEF Fresh, PoolTypes, PendingTypes
  <1>2. CallTypes'
    BY DEF Fresh, CallTypes
  <1>3. ProcTypes'
    BY DEF Fresh, ProcTypes, ProcState, ProcIdle
  <1>4. StakeTypes'
    BY EmptySeq DEF Fresh, StakeTypes, StakeRecord, StakeIdle
  <1>5. chain' \in Seq(SUBSET Txs)
    BY DEF Fresh, TypeInv, ChainTypes
  <1>6. BestTypes'
    BY LenProperties DEF Fresh, TypeInv, ChainTypes, BestTypes
  <1> QED  BY <1>1, <1>2, <1>3, <1>4, <1>5, <1>6 DEF Fresh

\* The outputs after a connected block are coins of the wallet, and so they are
\* after a disconnected one and after a rescan.
LEMMA CoinsKept ==
    ASSUME utxos \in Coins, NEW blk \in SUBSET Txs
    PROVE  ConnectedUTXOs(blk) \in Coins /\ DisconnectedUTXOs(blk) \in Coins /\ Rescanned \in Coins
  <1>1. ConnectedUTXOs(blk) \in Coins
    BY DEF ConnectedUTXOs, Coins
  <1>2. DisconnectedUTXOs(blk) \in Coins
    BY DEF DisconnectedUTXOs, Coins
  <1>3. Rescanned \in Coins
    BY DEF Rescanned, Coins
  <1> QED  BY <1>1, <1>2, <1>3

LEMMA TypePool ==
    ASSUME TypeInv, NEW g \in Callers, NEW t \in PoolTxs, RemovePooled(g, t) \/ RemoveConfirmed(t)
    PROVE  TypeInv'
  <1>1. /\ UNCHANGED <<chain, utxos, transactions>> /\ UNCHANGED <<chain, best>>
        /\ UNCHANGED pendingVars /\ UNCHANGED stake /\ UNCHANGED <<cacheFile, trackVars, missed>>
    BY DEF RemovePooled, RemoveConfirmed, walletVars
  <1>2. PoolTypes' /\ CallTypes'
    <2>1. \/ \E h \in Callers : Leaves(h, t)
          \/ UNCHANGED poolVars /\ UNCHANGED call
      BY Sets DEF RemovePooled, RemoveConfirmed
    <2> QED  BY <2>1, LeavesTypes, TypesKept DEF TypeInv
  <1>3. ProcTypes'
    <2>1. CASE RemovePooled(g, t)
      BY <2>1, TypesKept DEF RemovePooled, TypeInv
    <2>2. CASE RemoveConfirmed(t)
      BY <2>2 DEF RemoveConfirmed, TypeInv, ProcTypes, ProcState
    <2> QED  BY <2>1, <2>2
  <1> QED  BY <1>1, <1>2, <1>3, TypesKept DEF TypeInv

LEMMA TypeMempool ==
    ASSUME TypeInv, NEW g \in Callers, OnMempoolTransaction(g)
    PROVE  TypeInv'
  <1> DEFINE t == call[g].tx
  <1>1. /\ t \in PoolTxs /\ call[g] # None
    BY DEF OnMempoolTransaction, TypeInv, CallTypes
  <1>2. /\ UNCHANGED <<chain, utxos, transactions>> /\ UNCHANGED poolVars /\ UNCHANGED proc
        /\ UNCHANGED stake /\ UNCHANGED <<cacheFile, dropped, missed>> /\ call' = Returned(g)
        /\ UNCHANGED <<chain, best>>
    BY DEF OnMempoolTransaction
  <1>3. PendingTypes'
    <2>1. CASE Tracks(t)
      <3>1. /\ pendingTxs' = pendingTxs \cup {t}
            /\ pendingSpent' = [o \in Txs |-> IF o \in Inputs[t] THEN t ELSE pendingSpent[o]]
            /\ pendingUTXOs' = pendingUTXOs \cup ({t} \cap Mine)
        BY <2>1 DEF OnMempoolTransaction
      <3> QED  BY <1>1, <3>1 DEF TypeInv, PendingTypes
    <2>2. CASE ~Tracks(t)
      BY <2>2, TypesKept DEF OnMempoolTransaction, TypeInv
    <2> QED  BY <2>1, <2>2
  <1>4. CallTypes'
    BY <1>1, <1>2, ReturnedTypes DEF TypeInv, CallTypes
  <1>5. SavedTypes'
    <2>1. untracked' \subseteq untracked \cup {t} /\ overtaken' \subseteq overtaken \cup {t}
      BY DEF OnMempoolTransaction
    <2> QED  BY <1>1, <1>2, <2>1, Sets DEF TypeInv, SavedTypes
  <1> QED  BY <1>2, <1>3, <1>4, <1>5, TypesKept DEF TypeInv

LEMMA TypeEvict ==
    ASSUME TypeInv, NEW g \in Callers, EvictPendingTx(g)
    PROVE  TypeInv'
  <1> DEFINE S == Cascade(call[g].tx)
  <1>1. /\ UNCHANGED <<chain, utxos>> /\ UNCHANGED poolVars /\ UNCHANGED proc
        /\ UNCHANGED stake /\ UNCHANGED <<cacheFile, overtaken, dropped, missed>> /\ UNCHANGED <<chain, best>>
        /\ call' = [call EXCEPT ![g] = None] /\ Forget(S) /\ untracked' \subseteq untracked \cup pool
        /\ transactions' = [t \in Txs |-> IF t \in S /\ transactions[t] = "absent"
                                          THEN "evicted" ELSE transactions[t]]
    BY DEF EvictPendingTx
  <1> HIDE DEF S
  <1>2. PendingTypes'
    BY <1>1, ForgetTypes DEF TypeInv
  <1>3. CallTypes'
    BY <1>1 DEF TypeInv, CallTypes
  <1>4. ChainTypes'
    <2>1. transactions' \in History
      BY <1>1 DEF TypeInv, ChainTypes, History
    <2> QED  BY <1>1, <2>1 DEF TypeInv, ChainTypes
  <1>5. SavedTypes'
    BY <1>1, Sets DEF TypeInv, PoolTypes, SavedTypes
  <1> QED  BY <1>1, <1>2, <1>3, <1>4, <1>5, TypesKept DEF TypeInv

LEMMA TypeNotify ==
    ASSUME TypeInv, NotifyBlocks \/ NotifyBlockDisconnected
    PROVE  TypeInv'
  <1>1. proc.blk \in SUBSET Txs
    BY DEF TypeInv, ProcTypes, ProcState
  <1>2. /\ UNCHANGED <<chain, best>> /\ UNCHANGED poolVars /\ UNCHANGED call /\ UNCHANGED stake
        /\ UNCHANGED <<cacheFile, trackVars, missed>> /\ Forget(proc.blk \cap pendingTxs)
    BY DEF NotifyBlocks, NotifyBlockDisconnected, historyVars
  <1>3. PendingTypes'
    BY <1>2, ForgetTypes DEF TypeInv
  <1>4. ProcTypes'
    BY DEF TypeInv, NotifyBlocks, NotifyBlockDisconnected, ProcTypes, ProcState, ProcIdle
  <1>5. utxos' \in Coins
    BY <1>1, CoinsKept DEF TypeInv, ChainTypes, NotifyBlocks, NotifyBlockDisconnected
  <1>6. transactions' \in History
    BY DEF TypeInv, ChainTypes, NotifyBlocks, NotifyBlockDisconnected, History
  <1>7. ChainTypes'
    BY <1>2, <1>5, <1>6 DEF TypeInv, ChainTypes
  <1> QED  BY <1>2, <1>3, <1>4, <1>7, TypesKept DEF TypeInv

LEMMA TypeRestart ==
    ASSUME TypeInv, CleanRestart \/ CrashRestart
    PROVE  TypeInv'
  <1>1. Fresh
    BY DEF CleanRestart, CrashRestart
  <1>2. CASE CleanRestart
    <2>1. transactions' \in History
      BY <1>2 DEF CleanRestart, TypeInv, ChainTypes, History
    <2>2. ChainTypes'
      BY <1>1, <1>2, <2>1, FreshTypes DEF CleanRestart, TypeInv, ChainTypes
    <2>3. cacheFile' \in CacheRecord
      BY <1>2, <2>1 DEF CleanRestart, TypeInv, ChainTypes, SavedTypes, CacheRecord
    <2>4. SavedTypes'
      BY <1>1, <1>2, <2>3, FreshTypes DEF CleanRestart, TypeInv, SavedTypes
    <2> QED  BY <1>1, <2>2, <2>4, FreshTypes DEF TypeInv
  <1>3. CASE CrashRestart
    <2>1. utxos' \in Coins /\ transactions' \in History /\ dropped' \subseteq Txs /\ missed' \subseteq Txs
      <3>1. CASE cacheFile # None /\ cacheFile.chain = chain
        BY <1>3, <3>1 DEF CrashRestart, TypeInv, SavedTypes, CacheRecord
      <3>2. CASE ~(cacheFile # None /\ cacheFile.chain = chain)
        <4>1. RescannedTxs \in History
          BY DEF RescannedTxs, History
        <4> QED  BY <1>3, <3>2, <4>1, CoinsKept, Sets DEF CrashRestart, TypeInv, ChainTypes
      <3> QED  BY <3>1, <3>2
    <2>2. ChainTypes'
      BY <1>1, <2>1, FreshTypes DEF ChainTypes
    <2>3. SavedTypes'
      BY <1>1, <1>3, <2>1, FreshTypes DEF CrashRestart, TypeInv, SavedTypes
    <2> QED  BY <1>1, <2>2, <2>3, FreshTypes DEF TypeInv
  <1> QED  BY <1>2, <1>3

LEMMA TypeStake ==
    ASSUME TypeInv, (\E s \in StakeTxs : StakeSelect(s)) \/ StakeBuild
    PROVE  TypeInv'
  <1>1. /\ UNCHANGED <<chain, utxos, transactions>> /\ UNCHANGED poolVars /\ UNCHANGED pendingVars
        /\ UNCHANGED call /\ UNCHANGED proc /\ UNCHANGED <<cacheFile, trackVars, missed>>
        /\ UNCHANGED <<chain, best>>
    BY DEF StakeSelect, StakeBuild, walletVars, historyVars
  <1>2. StakeTypes'
    <2>1. CASE \E s \in StakeTxs : StakeSelect(s)
      BY <2>1 DEF StakeSelect, TypeInv, ChainTypes, StakeTypes, StakeRecord
    <2>2. CASE StakeBuild
      <3>1. stake \in StakeRecord /\ stake.out \in StakeTxs
        BY <2>2 DEF StakeBuild, TypeInv, StakeTypes
      <3>2. CASE best # Len(stake.tip)
        BY <2>2, <3>2, EmptySeq DEF StakeBuild, StakeTypes, StakeRecord, StakeIdle
      <3>3. CASE best = Len(stake.tip)
        <4>1. {stake.out} \cup Listed \in SUBSET (PoolTxs \cup StakeTxs)
          BY <3>1 DEF Listed
        <4>2. stake' = [stake EXCEPT !.step = "submit", !.txs = {stake.out} \cup Listed,
                                     !.astray = @ \/ ~IsPrefix(stake.tip, chain)]
          BY <2>2, <3>3 DEF StakeBuild
        <4>3. (stake.astray \/ ~IsPrefix(stake.tip, chain)) \in BOOLEAN
          BY Zenon
        <4> QED  BY <3>1, <4>1, <4>2, <4>3 DEF StakeTypes, StakeRecord
      <3> QED  BY <3>2, <3>3
    <2> QED  BY <1>1, <2>1, <2>2
  <1> QED  BY <1>1, <1>2, TypesKept DEF TypeInv

LEMMA TypeSubmit ==
    ASSUME TypeInv, StakeSubmit
    PROVE  TypeInv'
  <1>1. StakeTypes'
    BY EmptySeq DEF StakeSubmit, StakeTypes, StakeRecord, StakeIdle
  <1>2. CASE Commit(stake.txs)
    <2>1. stake.txs \in SUBSET Txs
      BY Sets DEF TypeInv, StakeTypes, StakeRecord
    <2> QED  BY <1>1, <1>2, <2>1, CommitTypes DEF TypeInv
  <1>3. CASE ~Commit(stake.txs)
    <2>1. /\ UNCHANGED <<chain, utxos, transactions>> /\ UNCHANGED poolVars /\ UNCHANGED pendingVars
          /\ UNCHANGED call /\ UNCHANGED proc /\ UNCHANGED <<cacheFile, trackVars, missed>>
          /\ UNCHANGED <<chain, best>>
      BY <1>3 DEF StakeSubmit, walletVars, historyVars
    <2> QED  BY <1>1, <2>1, TypesKept DEF TypeInv
  <1> QED  BY <1>2, <1>3

LEMMA TypeProcessor ==
    ASSUME TypeInv, (\E blk \in Offers : Connect(blk)) \/ CollectConfirmed \/ RemovedAll \/ Disconnect
    PROVE  TypeInv'
  <1>1. CASE \E blk \in Offers : Connect(blk)
    <2>1. PICK blk \in Offers : Connect(blk)
      BY <1>1
    <2>2. blk \in SUBSET Txs /\ Commit(blk) /\ UNCHANGED stake
      BY <2>1, WalletAssumption DEF WalletAssumption, Connect
    <2> QED  BY <2>2, CommitTypes, TypesKept DEF TypeInv
  <1>2. CASE CollectConfirmed \/ RemovedAll
    <2>1. /\ UNCHANGED <<chain, utxos, transactions>> /\ UNCHANGED poolVars /\ UNCHANGED pendingVars
          /\ UNCHANGED call /\ UNCHANGED stake /\ UNCHANGED <<cacheFile, trackVars, missed>>
      BY <1>2 DEF CollectConfirmed, RemovedAll, walletVars, historyVars
    <2>2. ProcTypes'
      <3> DEFINE r == Superseded(proc.blk)
      <3>1. \/ proc' = ProcIdle
            \/ proc' = [proc EXCEPT !.step = "remove", !.toRemove = r]
        BY <1>2 DEF CollectConfirmed, RemovedAll, Publish
      <3>2. r \subseteq PoolTxs /\ r \subseteq Txs
        BY Sets DEF Superseded, TypeInv, PoolTypes
      <3> HIDE DEF r
      <3>3. CASE proc' = ProcIdle
        BY <3>3 DEF ProcTypes, ProcState, ProcIdle
      <3>4. CASE proc' = [proc EXCEPT !.step = "remove", !.toRemove = r]
        <4>1. proc \in ProcState
          BY DEF TypeInv, ProcTypes
        <4>2. proc' \in ProcState /\ proc'.toRemove = r
          BY <3>2, <3>4, <4>1 DEF ProcState
        <4> QED  BY <3>2, <4>2 DEF ProcTypes
      <3> QED  BY <3>1, <3>3, <3>4
    <2>3. BestTypes'
      <3>1. best' = Len(chain) \/ best' = best
        BY <1>2 DEF CollectConfirmed, RemovedAll, Publish
      <3> QED  BY <2>1, <3>1, LenProperties DEF TypeInv, ChainTypes, BestTypes
    <2> QED  BY <2>1, <2>2, <2>3, TypesKept DEF TypeInv
  <1>3. CASE Disconnect
    <2>1. /\ UNCHANGED <<utxos, transactions>> /\ UNCHANGED poolVars /\ UNCHANGED pendingVars
          /\ UNCHANGED call /\ UNCHANGED stake /\ UNCHANGED <<cacheFile, trackVars, missed>>
      BY <1>3 DEF Disconnect, walletVars, historyVars
    <2>2. Front(chain) \in Seq(SUBSET Txs) /\ Last(chain) \in SUBSET Txs
      BY <1>3, FrontChain DEF Disconnect, TypeInv, ChainTypes
    <2>3. ChainTypes' /\ ProcTypes'
      <3>1. ChainTypes'
        BY <1>3, <2>1, <2>2 DEF Disconnect, TypeInv, ChainTypes
      <3>2. ProcTypes'
        BY <1>3, <2>2 DEF Disconnect, ProcTypes, ProcState, ProcIdle
      <3> QED  BY <3>1, <3>2
    <2>4. BestTypes'
      <3>1. chain \in Seq(SUBSET Txs) /\ Len(chain) \in Nat /\ chain # <<>>
        BY <1>3, LenProperties DEF Disconnect, TypeInv, ChainTypes
      <3>2. Len(chain') = Len(chain) - 1 /\ best' = Len(chain) - 1 /\ Len(chain') \in Nat
        BY <1>3, <2>2, <3>1, FrontChain, LenProperties DEF Disconnect
      <3> QED  BY <3>1, <3>2 DEF BestTypes
    <2> QED  BY <2>1, <2>3, <2>4, TypesKept DEF TypeInv
  <1> QED  BY <1>1, <1>2, <1>3

LEMMA TypeStutter == TypeInv /\ UNCHANGED vars => TypeInv'
  <1> SUFFICES ASSUME TypeInv, UNCHANGED vars PROVE TypeInv'
    OBVIOUS
  <1>1. /\ UNCHANGED <<chain, utxos, transactions>> /\ UNCHANGED poolVars /\ UNCHANGED pendingVars
        /\ UNCHANGED call /\ UNCHANGED proc /\ UNCHANGED stake
        /\ UNCHANGED <<cacheFile, trackVars, missed>> /\ UNCHANGED <<chain, best>>
    BY DEF vars, walletVars, historyVars
  <1> QED  BY <1>1, TypesKept DEF TypeInv

LEMMA TypeStep == TypeInv /\ [Next]_vars => TypeInv'
  <1> SUFFICES ASSUME TypeInv, [Next]_vars PROVE TypeInv'
    OBVIOUS
  <1>1. CASE \E g \in Peers, t \in PoolTxs : Receive(g, t) \/ RemovePooled(g, t)
    BY <1>1, TypeAdd, TypePool, Sets DEF Receive
  <1>2. CASE \E t \in Sends : Send(t)
    BY <1>2, TypeAdd, Sets DEF Send
  <1>3. CASE \E g \in Callers : Insert(g) \/ OnMempoolTransaction(g) \/ UpdateIndexes(g) \/ EvictPendingTx(g)
    BY <1>3, TypeAdd, TypeMempool, TypeEvict
  <1>4. CASE NotifyBlocks \/ NotifyBlockDisconnected
    BY <1>4, TypeNotify
  <1>5. CASE \E t \in PoolTxs : RemoveConfirmed(t)
    BY <1>5, TypePool, Sets
  <1>6. CASE (\E blk \in Offers : Connect(blk)) \/ CollectConfirmed \/ RemovedAll \/ Disconnect
    BY <1>6, TypeProcessor
  <1>7. CASE (\E s \in StakeTxs : StakeSelect(s)) \/ StakeBuild
    BY <1>7, TypeStake
  <1>8. CASE StakeSubmit
    BY <1>8, TypeSubmit
  <1>9. CASE CleanRestart \/ CrashRestart
    BY <1>9, TypeRestart
  <1>10. CASE UNCHANGED vars
    BY <1>10, TypeStutter
  <1> QED  BY <1>1, <1>2, <1>3, <1>4, <1>5, <1>6, <1>7, <1>8, <1>9, <1>10 DEF Next

LEMMA TypeAlways == Spec => []TypeInv
  BY TypeInit, TypeStep, PTL DEF Spec

\* Coins, pool, pending state, calls, blocks in progress and the stake attempt
\* keep their types for any number of goroutines and restarts.
THEOREM WalletTypeCorrect == Spec => []TypeOK
  <1>1. TypeInv => TypeOK
    <2> SUFFICES ASSUME TypeInv PROVE TypeOK
      OBVIOUS
    <2>1. chain \in Seq(SUBSET Txs) /\ pool \subseteq PoolTxs
      BY DEF TypeInv, ChainTypes, PoolTypes
    <2>2. /\ utxos \in [Txs -> {"absent", "unspent", "spent"}]
          /\ \A o \in Txs : utxos[o] # "absent" => o \in Mine
          /\ transactions \in [Txs -> {"absent", "evicted", "confirmed"}]
      BY DEF TypeInv, ChainTypes, Coins, History
    <2>3. call \in [Callers -> Call \cup {None}] /\ proc \in ProcState
      BY DEF TypeInv, CallTypes, ProcTypes
    <2>4. stake.step \in {"idle", "build", "submit"}
      BY DEF TypeInv, StakeTypes, StakeRecord
    <2>5. best \in 0 .. Len(chain) /\ byFeeRate \in [Txs -> Nat]
      BY DEF TypeInv, BestTypes, PoolTypes
    <2> QED  BY <2>1, <2>2, <2>3, <2>4, <2>5 DEF TypeOK, TypeInv, PendingTypes
  <1> QED  BY <1>1, TypeAlways, PTL

-----------------------------------------------------------------------------
(* The wallet's coins follow the chain.  A step of the processor changes    *)
(* the chain first and the coins later; in between the coins are those of   *)
(* the chain the wallet has been told of.                                   *)

\* More confirmed transactions in the wallet's history do no harm.
LEMMA FollowsMore ==
    ASSUME NEW ut, NEW tr, NEW tr2, NEW ch \in Seq(SUBSET Txs), NEW dr, NEW ms,
           Follows(ut, tr, ch, dr, ms),
           \A t \in Txs : tr[t] = "confirmed" => tr2[t] = "confirmed"
    PROVE  Follows(ut, tr2, ch, dr, ms)
  BY ConfirmedTxs DEF Follows

\* A valid block extends the committed chain.
LEMMA ValidExtends == ASSUME NEW blk, ValidBlock(blk) PROVE Extends(chain, blk)
  BY ConfirmedCommitted, SpentOfMember DEF ValidBlock, Extends

\* Steps that leave the chain, the block in progress and the coins alone.
LEMMA ChainKept ==
    ASSUME TypeInv, ChainInv, UNCHANGED <<chain, best, proc, utxos, dropped, missed, cacheFile>>,
           \A t \in Txs : transactions[t] = "confirmed" => transactions'[t] = "confirmed"
    PROVE  ChainInv'
  <1>1. Told' = Told /\ Carried' /\ Saved' /\ Valid(chain)'
    BY DEF Told, Carried, Saved, ChainInv
  <1>2. Told \in Seq(SUBSET Txs)
    <2>1. chain \in Seq(SUBSET Txs) /\ proc.blk \in SUBSET Txs
      BY DEF TypeInv, ChainTypes, ProcTypes, ProcState
    <2> QED  BY <2>1, AppendChain, FrontChain DEF Told, ChainInv, Carried
  <1>3. Follows(utxos', transactions', Told', dropped', missed')
    BY <1>1, <1>2, FollowsMore DEF ChainInv
  <1> QED  BY <1>1, <1>3 DEF ChainInv

LEMMA ChainInit == Init => ChainInv
  <1> SUFFICES ASSUME Init PROVE ChainInv
    OBVIOUS
  <1>1. chain = <<>> /\ proc = ProcIdle /\ cacheFile = None /\ dropped = {} /\ missed = {}
        /\ utxos = Rescanned /\ transactions = RescannedTxs
    BY DEF Init
  <1>2. Valid(chain) /\ chain \in Seq(SUBSET Txs)
    BY <1>1, EmptySeq DEF Valid
  <1>3. Carried /\ Saved /\ Told = chain
    BY <1>1 DEF Carried, Saved, Told, ProcIdle
  <1>4. ConfirmedIn(chain) = Base
    BY <1>1 DEF ConfirmedIn
  <1>5. Follows(Rescanned, RescannedTxs, chain, {}, {})
    BY <1>2, <1>4, FollowsRescan
  <1> QED  BY <1>1, <1>2, <1>3, <1>5 DEF ChainInv

\* What a commit does: the wallet will be told of the block, or it will not.
LEMMA CommitCases ==
    ASSUME TypeInv, NEW blk \in SUBSET Txs, Commit(blk)
    PROVE  /\ chain' = Append(chain, blk) /\ proc.step = "idle" /\ Extends(chain, blk)
           /\ UNCHANGED <<best, pool, byFeeRate, raced, utxos, transactions, pendingVars, call,
                          cacheFile, untracked, overtaken, dropped>>
           /\ \/ /\ proc'.step = "notify" /\ proc'.blk = blk /\ missed' = missed
                 /\ stale' = stale \cup Validated
              \/ /\ proc' = proc /\ missed' = missed \cup blk \cup SpentIn(blk)
                 /\ stale' = stale \cup Validated \cup Superseded(blk)
  BY ValidExtends DEF Commit, ProcIdle, poolVars, walletVars, trackVars

LEMMA ChainCommit ==
    ASSUME TypeInv, ChainInv, NEW blk \in SUBSET Txs, Commit(blk)
    PROVE  ChainInv'
  <1>1. /\ chain \in Seq(SUBSET Txs) /\ chain' = Append(chain, blk) /\ proc.step = "idle"
        /\ Extends(chain, blk) /\ Valid(chain) /\ Told = chain
        /\ UNCHANGED <<best, utxos, transactions, cacheFile, dropped>>
    BY CommitCases DEF TypeInv, ChainTypes, ChainInv, Told
  <1>2. /\ Front(chain') = chain /\ Last(chain') = blk /\ chain' # <<>> /\ Valid(chain')
        /\ best < Len(chain')
    BY <1>1, AppendChain, ValidAppend, LenProperties DEF TypeInv, BestTypes
  <1>3. Saved'
    BY <1>1 DEF Saved, ChainInv
  <1>4. CASE proc'.step = "notify" /\ proc'.blk = blk /\ missed' = missed
    <2>1. Told' = chain /\ Carried'
      BY <1>1, <1>2, <1>4 DEF Told, Carried
    <2> QED  BY <1>1, <1>2, <1>3, <1>4, <2>1 DEF ChainInv
  <1>5. CASE proc' = proc /\ missed' = missed \cup blk \cup SpentIn(blk)
    <2>1. Told' = chain' /\ Carried'
      BY <1>1, <1>5 DEF Told, Carried
    <2>2. Follows(utxos', transactions', Told', dropped', missed')
      BY <1>1, <1>5, <2>1, FollowsMiss DEF ChainInv
    <2> QED  BY <1>2, <1>3, <2>1, <2>2 DEF ChainInv
  <1> QED  BY <1>4, <1>5, CommitCases

LEMMA ChainNotify ==
    ASSUME TypeInv, ChainInv, NotifyBlocks
    PROVE  ChainInv'
  <1> DEFINE blk == proc.blk
  <1>1. /\ proc.step = "notify" /\ proc' = [proc EXCEPT !.step = "collect"] /\ proc \in ProcState
        /\ utxos' = ConnectedUTXOs(blk) /\ UNCHANGED <<chain, best, cacheFile, dropped, missed>>
        /\ transactions' =
             [t \in Txs |-> IF t \in blk /\ (t \in Mine \/ \E o \in Inputs[t] : utxos'[o] # "absent")
                            THEN "confirmed" ELSE transactions[t]]
    BY DEF NotifyBlocks, TypeInv, ProcTypes, historyVars, trackVars
  <1>2. proc'.step = "collect" /\ proc'.blk = blk /\ blk \in SUBSET Txs
    BY <1>1 DEF ProcState
  <1>3. /\ chain \in Seq(SUBSET Txs) /\ chain # <<>> /\ blk = Last(chain) /\ Told = Front(chain)
        /\ Valid(chain) /\ utxos \in Coins
    BY <1>1 DEF ChainInv, Carried, Told, TypeInv, ChainTypes
  <1>4. /\ Front(chain) \in Seq(SUBSET Txs) /\ Append(Front(chain), blk) = chain
        /\ Valid(Front(chain)) /\ Extends(Front(chain), blk)
    BY <1>3, FrontChain, ValidFront
  <1>5. Follows(utxos, transactions, Front(chain), dropped, missed)
    BY <1>3 DEF ChainInv
  <1>6. /\ \A t \in blk : t \in Mine \/ (\E o \in Inputs[t] : ConnectedUTXOs(blk)[o] # "absent")
                           => transactions'[t] = "confirmed"
        /\ \A t \in Txs : transactions[t] = "confirmed" => transactions'[t] = "confirmed"
    BY <1>1, <1>2
  <1> HIDE DEF blk
  <1>7. Follows(ConnectedUTXOs(blk), transactions', Append(Front(chain), blk), dropped, missed)
    BY <1>2, <1>3, <1>4, <1>5, <1>6, FollowsConnect
  <1>8. Told' = chain
    BY <1>1, <1>2 DEF Told
  <1>9. Carried' /\ Saved'
    BY <1>1, <1>2, <1>3 DEF Carried, Saved, ChainInv
  <1>10. Follows(utxos', transactions', Told', dropped', missed') /\ Valid(chain')
    BY <1>1, <1>3, <1>4, <1>7, <1>8
  <1> QED  BY <1>9, <1>10 DEF ChainInv

LEMMA ChainCollect ==
    ASSUME TypeInv, ChainInv, CollectConfirmed \/ RemovedAll \/ \E t \in PoolTxs : RemoveConfirmed(t)
    PROVE  ChainInv'
  <1>1. /\ UNCHANGED <<chain, utxos, transactions, dropped, missed, cacheFile>> /\ proc \in ProcState
        /\ proc.step \in {"collect", "remove"}
    BY DEF CollectConfirmed, RemovedAll, RemoveConfirmed, TypeInv, ProcTypes, walletVars, historyVars,
           trackVars
  <1>2. \/ proc'.step = "idle"
        \/ proc'.step = "remove" /\ proc'.blk = proc.blk /\ best' = best
    <2>1. CASE CollectConfirmed
      <3>1. PICK r : \/ proc' = ProcIdle
                     \/ proc' = [proc EXCEPT !.step = "remove", !.toRemove = r] /\ best' = best
        BY <2>1 DEF CollectConfirmed, Publish
      <3>2. CASE proc' = ProcIdle
        BY <3>2 DEF ProcIdle
      <3>3. CASE proc' = [proc EXCEPT !.step = "remove", !.toRemove = r] /\ best' = best
        BY <1>1, <3>3 DEF ProcState
      <3> QED  BY <3>1, <3>2, <3>3
    <2>2. CASE RemovedAll
      BY <2>2 DEF RemovedAll, Publish, ProcIdle
    <2>3. CASE \E t \in PoolTxs : RemoveConfirmed(t)
      BY <1>1, <2>3 DEF RemoveConfirmed, ProcState
    <2> QED  BY <2>1, <2>2, <2>3
  <1>3. Told = chain /\ Told' = chain
    BY <1>1, <1>2 DEF Told
  <1>4. Carried'
    BY <1>1, <1>2 DEF Carried, ChainInv
  <1>5. Follows(utxos', transactions', Told', dropped', missed') /\ Valid(chain') /\ Saved'
    BY <1>1, <1>3 DEF ChainInv, Saved
  <1> QED  BY <1>4, <1>5 DEF ChainInv

LEMMA ChainDisconnect ==
    ASSUME TypeInv, ChainInv, Disconnect
    PROVE  ChainInv'
  <1>1. /\ chain \in Seq(SUBSET Txs) /\ chain # <<>> /\ chain' = Front(chain) /\ proc.step = "idle"
        /\ proc'.step = "undo" /\ proc'.blk = Last(chain) /\ Valid(chain)
        /\ UNCHANGED <<utxos, transactions, cacheFile, dropped, missed>>
    BY DEF Disconnect, TypeInv, ChainTypes, ProcIdle, walletVars, historyVars, trackVars, ChainInv
  <1>2. /\ Append(Front(chain), Last(chain)) = chain
        /\ Valid(Front(chain)) /\ Extends(Front(chain), Last(chain))
    BY <1>1, FrontChain, ValidFront
  <1>3. Told = chain /\ Told' = chain
    BY <1>1, <1>2 DEF Told
  <1>4. Carried' /\ Saved' /\ Valid(chain')
    BY <1>1, <1>2 DEF Carried, Saved, ChainInv
  <1>5. Follows(utxos', transactions', Told', dropped', missed')
    BY <1>1, <1>3 DEF ChainInv
  <1> QED  BY <1>4, <1>5 DEF ChainInv

LEMMA ChainDisconnected ==
    ASSUME TypeInv, ChainInv, NotifyBlockDisconnected
    PROVE  ChainInv'
  <1> DEFINE blk == proc.blk
  <1>1. /\ proc.step = "undo" /\ proc'.step = "idle" /\ blk \in SUBSET Txs
        /\ utxos' = DisconnectedUTXOs(blk) /\ UNCHANGED <<chain, cacheFile, dropped, missed>>
        /\ transactions' = [t \in Txs |-> IF t \in blk THEN "absent" ELSE transactions[t]]
    BY DEF NotifyBlockDisconnected, TypeInv, ProcTypes, ProcState, ProcIdle, historyVars, trackVars
  <1>2. /\ chain \in Seq(SUBSET Txs) /\ Extends(chain, blk) /\ Told = Append(chain, blk)
        /\ Valid(chain) /\ utxos \in Coins
    BY <1>1 DEF ChainInv, Carried, Told, TypeInv, ChainTypes
  <1>3. Follows(utxos, transactions, Append(chain, blk), dropped, missed)
    BY <1>2 DEF ChainInv
  <1>4. \A t \in Txs \ blk : transactions[t] = "confirmed" => transactions'[t] = "confirmed"
    BY <1>1
  <1> HIDE DEF blk
  <1>5. Follows(DisconnectedUTXOs(blk), transactions', chain, dropped, missed)
    BY <1>1, <1>2, <1>3, <1>4, FollowsDisconnect
  <1>6. Told' = chain /\ Carried' /\ Saved'
    BY <1>1 DEF Told, Carried, Saved, ChainInv
  <1>7. Follows(utxos', transactions', Told', dropped', missed') /\ Valid(chain')
    BY <1>1, <1>2, <1>5, <1>6
  <1> QED  BY <1>6, <1>7 DEF ChainInv

\* A clean stop saves the coins of the chain; a crash leaves the saved ones, or
\* a rescan.
LEMMA ChainRestart ==
    ASSUME TypeInv, ChainInv, CleanRestart \/ CrashRestart
    PROVE  ChainInv'
  <1>1. UNCHANGED chain /\ proc'.step = "idle" /\ chain \in Seq(SUBSET Txs) /\ Valid(chain')
    BY DEF CleanRestart, CrashRestart, Fresh, ProcIdle, TypeInv, ChainTypes, ChainInv
  <1>2. Told' = chain /\ Carried'
    BY <1>1 DEF Told, Carried
  <1>3. CASE CleanRestart
    <2>1. /\ UNCHANGED <<utxos, dropped, missed>> /\ Told = chain
          /\ transactions' = [t \in Txs |-> IF transactions[t] = "evicted" THEN "absent"
                                            ELSE transactions[t]]
          /\ cacheFile' = [chain |-> chain, utxos |-> utxos, transactions |-> transactions',
                           dropped |-> dropped, missed |-> missed]
      BY <1>3 DEF CleanRestart, Told
    <2>2. Follows(utxos, transactions', chain, dropped, missed)
      BY <1>1, <2>1, FollowsMore DEF ChainInv
    <2>3. Follows(utxos', transactions', Told', dropped', missed') /\ Saved'
      BY <1>2, <2>1, <2>2 DEF Saved
    <2> QED  BY <1>1, <1>2, <2>3 DEF ChainInv
  <1>4. CASE CrashRestart
    <2>1. Saved'
      BY <1>4 DEF CrashRestart, Saved, ChainInv
    <2>2. Follows(utxos', transactions', chain, dropped', missed')
      <3>1. CASE cacheFile # None /\ cacheFile.chain = chain
        BY <1>4, <3>1 DEF CrashRestart, Saved, ChainInv
      <3>2. CASE ~(cacheFile # None /\ cacheFile.chain = chain)
        <4>1. /\ utxos' = Rescanned /\ transactions' = RescannedTxs
              /\ dropped' = Mine \cap SpentIn(ConfirmedIn(chain)) /\ missed' = {}
          BY <1>4, <3>2, ConfirmedCommitted DEF CrashRestart
        <4> QED  BY <1>1, <4>1, FollowsRescan
      <3> QED  BY <3>1, <3>2
    <2> QED  BY <1>1, <1>2, <2>1, <2>2 DEF ChainInv
  <1> QED  BY <1>3, <1>4

LEMMA ChainStep == TypeInv /\ ChainInv /\ [Next]_vars => ChainInv'
  <1> SUFFICES ASSUME TypeInv, ChainInv, [Next]_vars PROVE ChainInv'
    OBVIOUS
  <1>1. CASE \/ \E g \in Callers, t \in PoolTxs : Validate(g, t) \/ RemovePooled(g, t)
             \/ \E g \in Callers : Insert(g) \/ OnMempoolTransaction(g) \/ UpdateIndexes(g)
             \/ (\E s \in StakeTxs : StakeSelect(s)) \/ StakeBuild
             \/ (StakeSubmit /\ ~Commit(stake.txs)) \/ UNCHANGED vars
    <2>1. UNCHANGED <<chain, best, proc, utxos, transactions, dropped, missed, cacheFile>>
      <3> USE DEF walletVars, historyVars, trackVars
      <3>1. CASE \E g \in Callers, t \in PoolTxs : Validate(g, t) \/ RemovePooled(g, t)
        BY <3>1 DEF Validate, RemovePooled
      <3>2. CASE \E g \in Callers : Insert(g) \/ OnMempoolTransaction(g) \/ UpdateIndexes(g)
        BY <3>2 DEF Insert, OnMempoolTransaction, UpdateIndexes
      <3>3. CASE (\E s \in StakeTxs : StakeSelect(s)) \/ StakeBuild
        BY <3>3 DEF StakeSelect, StakeBuild
      <3>4. CASE StakeSubmit /\ ~Commit(stake.txs)
        BY <3>4 DEF StakeSubmit
      <3>5. CASE UNCHANGED vars
        BY <3>5 DEF vars
      <3> QED  BY <1>1, <3>1, <3>2, <3>3, <3>4, <3>5
    <2> QED  BY <2>1, ChainKept
  <1>2. CASE \E g \in Callers : EvictPendingTx(g)
    <2>1. PICK g \in Callers : EvictPendingTx(g)
      BY <1>2
    <2>2. /\ UNCHANGED <<chain, best, proc, utxos, dropped, missed, cacheFile>>
          /\ \A t \in Txs : transactions[t] = "confirmed" => transactions'[t] = "confirmed"
      BY <2>1 DEF EvictPendingTx
    <2> QED  BY <2>2, ChainKept
  <1>3. CASE (\E blk \in Offers : Connect(blk)) \/ (StakeSubmit /\ Commit(stake.txs))
    <2>1. \A blk \in Offers : blk \in SUBSET Txs
      BY WalletAssumption DEF WalletAssumption
    <2>2. stake.txs \in SUBSET Txs
      BY Sets DEF TypeInv, StakeTypes, StakeRecord
    <2> QED  BY <1>3, <2>1, <2>2, ChainCommit DEF Connect
  <1>4. CASE NotifyBlocks \/ NotifyBlockDisconnected \/ Disconnect
    BY <1>4, ChainNotify, ChainDisconnected, ChainDisconnect
  <1>5. CASE CollectConfirmed \/ RemovedAll \/ \E t \in PoolTxs : RemoveConfirmed(t)
    BY <1>5, ChainCollect
  <1>6. CASE CleanRestart \/ CrashRestart
    BY <1>6, ChainRestart
  <1>7. (\E g \in Peers, t \in PoolTxs : Receive(g, t) \/ RemovePooled(g, t)) \/ (\E t \in Sends : Send(t))
          => \E g \in Callers, t \in PoolTxs : Validate(g, t) \/ RemovePooled(g, t)
    BY Sets DEF Receive, Send
  <1> QED  BY <1>1, <1>2, <1>3, <1>4, <1>5, <1>6, <1>7 DEF Next

\* Whenever the wallet has been told of the committed chain its spendable
\* outputs are the chain's: through connects, rollbacks, shutdowns and crashes,
\* only a coin that was spent when a rescan ran may be missing after a rollback,
\* and only those of a block whose storage.Sync failed may be wrong.
THEOREM CoinsAlwaysFollowChain == Spec => []WalletFollowsChain
  <1>1. ChainInv => WalletFollowsChain
    <2> SUFFICES ASSUME ChainInv, Notified
                 PROVE  \A o \in Txs \ missed :
                            /\ utxos[o] = "unspent" => o \in Mine \cap Unspent
                            /\ o \in (Mine \cap Unspent) \ dropped => utxos[o] = "unspent"
      BY DEF WalletFollowsChain
    <2>1. Told = chain
      BY DEF Notified, Told
    <2> QED  BY <2>1, ConfirmedCommitted DEF ChainInv, Follows
  <1> QED  BY <1>1, TypeAlways, ChainInit, ChainStep, PTL DEF Spec

-----------------------------------------------------------------------------
(* The wallet's pending transactions follow the pool.                       *)

\* The chain the wallet has been told of is valid.
LEMMA ToldValid ==
    ASSUME TypeInv, ChainInv
    PROVE  Told \in Seq(SUBSET Txs) /\ Valid(Told)
  <1>1. chain \in Seq(SUBSET Txs) /\ proc.blk \in SUBSET Txs
    BY DEF TypeInv, ChainTypes, ProcTypes, ProcState
  <1>2. CASE proc.step = "notify"
    BY <1>1, <1>2, FrontChain, ValidFront DEF Told, ChainInv, Carried
  <1>3. CASE proc.step = "undo"
    BY <1>1, <1>3, AppendChain, ValidAppend DEF Told, ChainInv, Carried
  <1>4. CASE proc.step \notin {"notify", "undo"}
    BY <1>1, <1>4 DEF Told, ChainInv
  <1> QED  BY <1>2, <1>3, <1>4

\* Only the notifications tell the wallet of another chain, and a block that it
\* is not told of is one it has missed.
LEMMA ToldKept ==
    ASSUME TypeInv, ChainInv,
           \/ UNCHANGED <<chain, proc, missed>> \/ \E blk \in SUBSET Txs : Commit(blk)
           \/ Disconnect \/ CollectConfirmed \/ RemovedAll \/ \E t \in PoolTxs : RemoveConfirmed(t)
    PROVE  ConfirmedIn(Told') \subseteq ConfirmedIn(Told) \cup missed' /\ missed \subseteq missed'
  <1>0. chain \in Seq(SUBSET Txs) /\ proc \in ProcState
    BY DEF TypeInv, ChainTypes, ProcTypes
  <1>1. CASE UNCHANGED <<chain, proc, missed>>
    BY <1>1 DEF Told
  <1>2. CASE \E blk \in SUBSET Txs : Commit(blk)
    <2>1. PICK blk \in SUBSET Txs : Commit(blk)
      BY <1>2
    <2>2. Told = chain /\ chain' = Append(chain, blk)
      BY <2>1, CommitCases DEF Told
    <2>3. CASE proc'.step = "notify" /\ missed' = missed
      <3>1. Told' = chain
        BY <1>0, <2>2, <2>3, AppendChain DEF Told
      <3> QED  BY <2>2, <2>3, <3>1
    <2>4. CASE proc' = proc /\ missed' = missed \cup blk \cup SpentIn(blk)
      <3>1. Told' = chain'
        BY <2>1, <2>4, CommitCases DEF Told
      <3>2. ConfirmedIn(chain') = ConfirmedIn(chain) \cup blk
        BY <1>0, <2>2, AppendChain
      <3> QED  BY <2>2, <2>4, <3>1, <3>2
    <2> QED  BY <2>1, <2>3, <2>4, CommitCases
  <1>3. CASE Disconnect
    BY <1>0, <1>3, FrontChain DEF Disconnect, ProcIdle, Told, historyVars
  <1>4. CASE CollectConfirmed
    <2>1. UNCHANGED <<chain, missed>> /\ proc.step = "collect"
      BY <1>4 DEF CollectConfirmed, historyVars
    <2>2. PICK r : proc' = ProcIdle \/ proc' = [proc EXCEPT !.step = "remove", !.toRemove = r]
      BY <1>4 DEF CollectConfirmed, Publish
    <2>3. proc'.step \in {"idle", "remove"}
      <3>1. CASE proc' = ProcIdle
        BY <3>1 DEF ProcIdle
      <3>2. CASE proc' = [proc EXCEPT !.step = "remove", !.toRemove = r]
        BY <1>0, <3>2 DEF ProcState
      <3> QED  BY <2>2, <3>1, <3>2
    <2> QED  BY <2>1, <2>3 DEF Told
  <1>5. CASE RemovedAll
    BY <1>5 DEF RemovedAll, Publish, ProcIdle, Told, historyVars
  <1>6. CASE \E t \in PoolTxs : RemoveConfirmed(t)
    BY <1>0, <1>6 DEF RemoveConfirmed, ProcState, Told
  <1> QED  BY <1>1, <1>2, <1>3, <1>4, <1>5, <1>6

\* A cascade starts with the transaction itself and takes pending ones.
LEMMA CascadeFacts ==
    ASSUME NEW t
    PROVE  Cascade(t) \subseteq pendingTxs /\ (t \in pendingTxs => t \in Cascade(t))
  BY DEF Cascade

\* Transactions that are pending with an exact index are forgotten exactly.
LEMMA ForgetExact ==
    ASSUME PendingTypes, PendingIndexExact, NEW S \in SUBSET pendingTxs, Forget(S), UNCHANGED overtaken
    PROVE  PendingIndexExact'
  <1>1. /\ pendingTxs' = pendingTxs \ S /\ pendingUTXOs' = pendingUTXOs \ S
        /\ pendingSpent' = [o \in Txs |-> IF o \in SpentIn(S) THEN None ELSE pendingSpent[o]]
    BY DEF Forget
  <1>2. ASSUME NEW o \in Txs \ SpentIn(overtaken), NEW t \in PoolTxs
        PROVE  (pendingSpent'[o] = t) <=> (t \in pendingTxs' /\ o \in Inputs[t])
    <2>1. \A u \in PoolTxs : (pendingSpent[o] = u) <=> (u \in pendingTxs /\ o \in Inputs[u])
      BY DEF PendingIndexExact
    <2>2. CASE o \in SpentIn(S)
      <3>1. PICK v \in S : o \in Inputs[v]
        BY <2>2, SpentBySome
      <3>2. pendingSpent[o] = v /\ pendingSpent'[o] = None /\ t # None
        BY <1>1, <2>1, <2>2, <3>1, Sets DEF PendingTypes
      <3> QED  BY <1>1, <2>1, <3>1, <3>2
    <2>3. CASE o \notin SpentIn(S)
      <3>1. t \in S => o \notin Inputs[t]
        BY <2>3, SpentOfMember
      <3> QED  BY <1>1, <2>1, <2>3, <3>1
    <2> QED  BY <2>2, <2>3
  <1>3. pendingUTXOs' = pendingTxs' \cap Mine
    BY <1>1 DEF PendingIndexExact
  <1>4. SpentIn(overtaken)' = SpentIn(overtaken)
    BY DEF SpentIn
  <1> QED  BY <1>2, <1>3, <1>4 DEF PendingIndexExact

\* Fewer pending transactions, and a told chain that is not longer but for
\* missed blocks.
LEMMA PendingNewKept ==
    ASSUME PendingNew, pendingTxs' \subseteq pendingTxs, missed \subseteq missed',
           ConfirmedIn(Told') \subseteq ConfirmedIn(Told) \cup missed'
    PROVE  PendingNew'
  <1> SUFFICES ASSUME NEW t \in pendingTxs' \cap ConfirmedIn(Told') PROVE ({t} \cup Inputs[t]) \cap missed' # {}
    BY DEF PendingNew, Untold, ConfirmedIn
  <1> QED  BY DEF PendingNew, Untold

\* Steps that leave the pool, the calls and the pending state alone.
LEMMA PendingKept ==
    ASSUME PendingInv, ConfirmedIn(Told') \subseteq ConfirmedIn(Told) \cup missed', missed \subseteq missed',
           UNCHANGED <<pool, raced, pendingVars, call, transactions, overtaken>>
    PROVE  PendingInv'
  <1>1. UNCHANGED <<pool, raced, pendingTxs, pendingSpent, pendingUTXOs, call, transactions, overtaken>>
    BY DEF pendingVars
  <1>2. NoConflict(pool)' /\ AnnouncedPooled' /\ PendingPooled'
    BY <1>1 DEF PendingInv, NoConflict, AnnouncedPooled, Announcing, At, PendingPooled, Left
  <1>3. PendingNew' /\ ConfirmedNotPending'
    BY <1>1, PendingNewKept DEF PendingInv, ConfirmedNotPending
  <1>4. PendingIndexExact'
    BY <1>1 DEF PendingInv, PendingIndexExact, SpentIn
  <1> QED  BY <1>2, <1>3, <1>4 DEF PendingInv

LEMMA PendingInit == Init => PendingInv
  <1> SUFFICES ASSUME Init PROVE PendingInv
    OBVIOUS
  <1>1. /\ pool = {} /\ pendingTxs = {} /\ pendingUTXOs = {} /\ call = [g \in Callers |-> None]
        /\ pendingSpent = [o \in Txs |-> None]
    BY DEF Init
  <1>2. NoConflict(pool) /\ AnnouncedPooled /\ PendingPooled /\ PendingNew /\ ConfirmedNotPending
    BY <1>1 DEF NoConflict, AnnouncedPooled, Announcing, At, PendingPooled, PendingNew, ConfirmedNotPending
  <1>3. PendingIndexExact
    BY <1>1, Sets DEF PendingIndexExact
  <1> QED  BY <1>2, <1>3 DEF PendingInv

\* A goroutine goes on with what it does for a transaction: the calls of the
\* others stay, and no eviction is announced.
LEMMA CallsOn ==
    ASSUME CallTypes, NEW g \in Callers, \A h \in Callers : h # g => call'[h] = call[h],
           call[g] # None => call[g].kind # "evict", call'[g] # None => call'[g].kind # "evict",
           UNCHANGED raced
    PROVE  /\ Left' = Left
           /\ \A t : (Announcing(t) \ {g})' = Announcing(t) \ {g}
  <1>1. \A h \in Callers : /\ (call'[h] # None /\ call'[h].kind = "evict")
                                 <=> (call[h] # None /\ call[h].kind = "evict")
                          /\ call[h] # None /\ call[h].kind = "evict" => call'[h] = call[h]
    OBVIOUS
  <1>2. Left' = Left
    BY <1>1 DEF Left
  <1>3. \A t : (Announcing(t) \ {g})' = Announcing(t) \ {g}
    BY DEF Announcing, At
  <1> QED  BY <1>2, <1>3

\* A transaction is validated, inserted and indexed.
LEMMA PendingAdd ==
    ASSUME TypeInv, ChainInv, PendingInv, NEW g \in Callers,
           (\E t \in PoolTxs : Validate(g, t)) \/ Insert(g) \/ UpdateIndexes(g)
    PROVE  PendingInv'
  <1> USE DEF TypeInv
  <1>1. /\ UNCHANGED <<raced, pendingTxs, pendingSpent, pendingUTXOs, transactions, overtaken>>
        /\ UNCHANGED <<chain, proc, missed>>
    BY DEF Validate, Insert, UpdateIndexes, poolVars, walletVars, pendingVars, historyVars, trackVars
  <1>2. call \in [Callers -> Call \cup {None}] /\ CallTypes
    BY DEF CallTypes
  <1>3. /\ \A h \in Callers : h # g => call'[h] = call[h]
        /\ call[g] # None => call[g].kind # "evict"
        /\ call'[g] # None => call'[g].kind # "evict"
        /\ NoConflict(pool') /\ pool \subseteq pool'
        /\ \A t \in PoolTxs : g \in Announcing(t)' => t \in pool' \cup raced
    <2>1. CASE \E t \in PoolTxs : Validate(g, t)
      <3>1. PICK t \in PoolTxs : Validate(g, t)
        BY <2>1
      <3>2. call' = [call EXCEPT ![g] = [kind |-> "insert", tx |-> t]] /\ call[g] = None /\ UNCHANGED pool
        BY <3>1 DEF Validate, poolVars
      <3>3. call'[g].kind = "insert" /\ \A h \in Callers : h # g => call'[h] = call[h]
        BY <1>2, <3>2
      <3> QED  BY <3>2, <3>3 DEF Announcing, At, PendingInv, NoConflict
    <2>2. CASE Insert(g)
      <3>1. call[g] # None /\ call[g].kind = "insert" /\ call[g] \in Call
        BY <1>2, <2>2 DEF Insert
      <3>2. CASE P!Accept(call[g].tx) /\ call' = [call EXCEPT ![g].kind = "accept"]
        <4>1. /\ pool' = pool \cup {call[g].tx}
              /\ \A u \in pool : Inputs[call[g].tx] \cap Inputs[u] = {}
          BY <3>2 DEF P!Accept, P!Free
        <4>2. call'[g].tx = call[g].tx /\ call'[g].kind = "accept" /\ \A h \in Callers : h # g => call'[h] = call[h]
          BY <1>2, <3>1, <3>2 DEF Call
        <4>3. NoConflict(pool')
          BY <4>1 DEF PendingInv, NoConflict
        <4> QED  BY <3>1, <4>1, <4>2, <4>3 DEF Announcing, At
      <3>3. CASE call' = [call EXCEPT ![g] = None] /\ UNCHANGED pool
        <4>1. call'[g] = None /\ \A h \in Callers : h # g => call'[h] = call[h]
          BY <1>2, <3>3
        <4> QED  BY <3>1, <3>3, <4>1 DEF Announcing, At, PendingInv, NoConflict
      <3> QED  BY <2>2, <3>2, <3>3 DEF Insert
    <2>3. CASE UpdateIndexes(g)
      <3>1. call[g] # None /\ call[g].kind = "index" /\ call[g] \in Call /\ UNCHANGED pool
        BY <1>2, <2>3 DEF UpdateIndexes
      <3>2. CASE g = Sender /\ call' = [call EXCEPT ![g] = [call[g] EXCEPT !.kind = "track"]]
        <4>1. call'[g].tx = call[g].tx /\ call'[g].kind = "track" /\ \A h \in Callers : h # g => call'[h] = call[h]
          BY <1>2, <3>1, <3>2 DEF Call
        <4>2. \A t \in PoolTxs : g \in Announcing(t)' => g \in Announcing(t)
          BY <3>1, <3>2, <4>1 DEF Announcing, At
        <4> QED  BY <3>1, <4>1, <4>2 DEF PendingInv, NoConflict, AnnouncedPooled
      <3>3. CASE call' = [call EXCEPT ![g] = None]
        <4>1. call'[g] = None /\ \A h \in Callers : h # g => call'[h] = call[h]
          BY <1>2, <3>3
        <4> QED  BY <3>1, <4>1 DEF Announcing, At, PendingInv, NoConflict
      <3> QED  BY <2>3, <3>2, <3>3 DEF UpdateIndexes
    <2> QED  BY <2>1, <2>2, <2>3
  <1>4. Left' = Left /\ \A t : (Announcing(t) \ {g})' = Announcing(t) \ {g}
    BY <1>1, <1>2, <1>3, CallsOn
  <1>5. AnnouncedPooled'
    <2> SUFFICES ASSUME NEW t \in PoolTxs, Announcing(t)' # {} PROVE t \in pool' \cup raced'
      BY DEF AnnouncedPooled
    <2>1. CASE g \in Announcing(t)'
      BY <1>1, <1>3, <2>1
    <2>2. CASE g \notin Announcing(t)'
      <3>1. Announcing(t) # {}
        BY <1>4, <2>2
      <3> QED  BY <1>1, <1>3, <3>1 DEF PendingInv, AnnouncedPooled
    <2> QED  BY <2>1, <2>2
  <1>6. NoConflict(pool)' /\ PendingPooled'
    BY <1>1, <1>3, <1>4 DEF PendingInv, NoConflict, PendingPooled
  <1>7. PendingNew' /\ ConfirmedNotPending'
    BY <1>1, ToldKept, PendingNewKept DEF PendingInv, ConfirmedNotPending
  <1>8. PendingIndexExact'
    BY <1>1 DEF PendingInv, PendingIndexExact, SpentIn
  <1> QED  BY <1>5, <1>6, <1>7, <1>8 DEF PendingInv

LEMMA PendingLeaves ==
    ASSUME TypeInv, ChainInv, PendingInv, NEW g \in Callers, NEW t \in PoolTxs, Leaves(g, t), call[g] = None,
           ConfirmedIn(Told') \subseteq ConfirmedIn(Told) \cup missed', missed \subseteq missed',
           UNCHANGED <<pendingVars, transactions, overtaken>>
    PROVE  PendingInv'
  <1>1. /\ pool' = pool \ {t} /\ call' = [call EXCEPT ![g] = [kind |-> "evict", tx |-> t]]
        /\ raced' = IF Announcing(t) # {} THEN raced \cup {t} ELSE raced
        /\ UNCHANGED <<pendingTxs, pendingSpent, pendingUTXOs, transactions, overtaken>>
    BY DEF Leaves, P!Remove, pendingVars
  <1>2. call \in [Callers -> Call \cup {None}]
    BY DEF TypeInv, CallTypes
  <1>3. NoConflict(pool')
    BY <1>1 DEF PendingInv, NoConflict
  <1>4. AnnouncedPooled'
    <2> SUFFICES ASSUME NEW u \in PoolTxs, Announcing(u)' # {} PROVE u \in pool' \cup raced'
      BY DEF AnnouncedPooled
    <2>1. \A h \in Callers : h # g => call'[h] = call[h]
      BY <1>1, <1>2
    <2>2. call'[g].kind = "evict"
      BY <1>1, <1>2
    <2>3. Announcing(u) # {}
      BY <2>1, <2>2 DEF Announcing, At
    <2>4. u \in pool \cup raced
      BY <2>3 DEF PendingInv, AnnouncedPooled
    <2> QED  BY <1>1, <2>3, <2>4
  <1>5. Left \cup {t} \subseteq Left'
    <2>1. raced \subseteq raced'
      BY <1>1
    <2>2. call'[g] # None /\ call'[g].kind = "evict" /\ call'[g].tx = t
      BY <1>1, <1>2, Sets DEF Call
    <2>3. \A h \in Callers : call[h] # None => call'[h] = call[h]
      BY <1>1, <1>2
    <2> QED  BY <2>1, <2>2, <2>3 DEF Left
  <1>6. PendingPooled'
    BY <1>1, <1>5 DEF PendingInv, PendingPooled
  <1>7. PendingNew' /\ ConfirmedNotPending'
    BY <1>1, PendingNewKept DEF PendingInv, ConfirmedNotPending
  <1>8. PendingIndexExact'
    BY <1>1 DEF PendingInv, PendingIndexExact, SpentIn
  <1> QED  BY <1>3, <1>4, <1>6, <1>7, <1>8 DEF PendingInv

\* The calls of the other goroutines go on, and this one announces no other
\* transaction than before.
LEMMA CallsKept ==
    ASSUME CallTypes, NEW g \in Callers, call[g] # None, call[g].kind \in {"accept", "track"},
           call' = Returned(g), UNCHANGED raced
    PROVE  /\ \A h \in Callers : h # g => call'[h] = call[h]
           /\ \A t : Announcing(t)' \subseteq Announcing(t)
           /\ \A t : Indexing(t)' = Indexing(t)
           /\ Left' = Left
  <1>1. /\ \A h \in Callers : h # g => call'[h] = call[h]
        /\ call'[g] # None => /\ call[g].kind = "accept"
                              /\ call'[g].kind = "index" /\ call'[g].tx = call[g].tx
        /\ call[g].kind = "accept" => call'[g] # None
    BY ReturnedTypes
  <1>2. Left' = Left
    BY <1>1, CallsOn
  <1>3. \A t : Announcing(t)' \subseteq Announcing(t)
    BY <1>1 DEF Announcing, At
  <1>4. \A t : Indexing(t)' = Indexing(t)
    BY <1>1 DEF Indexing, At
  <1> QED  BY <1>1, <1>2, <1>3, <1>4

\* A transaction that the wallet comes to track is not on the chain it was told
\* of, unless it was not told of a block that concerns the transaction.
LEMMA TrackedNew ==
    ASSUME TypeInv, ChainInv, PendingInv, NEW t \in PoolTxs, Tracks(t), t \in ConfirmedIn(Told)
    PROVE  Untold(t)
  <1> SUFFICES ASSUME t \notin missed PROVE Inputs[t] \cap missed # {}
    BY DEF Untold
  <1>1. Inputs[t] \subseteq ConfirmedIn(Told)
    BY ToldValid, ValidSpends
  <1>2. \A u \in ConfirmedIn(Told) \ missed : u \in Mine \/ (\E o \in Inputs[u] : utxos[o] # "absent")
                                              => transactions[u] = "confirmed"
    BY DEF ChainInv, Follows
  <1>3. PICK o \in Inputs[t] : o \in pendingUTXOs
    BY <1>2 DEF Tracks, Relevant
  <1>4. o \in pendingTxs /\ o \in Mine
    BY <1>3 DEF PendingInv, PendingIndexExact
  <1>5. transactions[o] # "confirmed"
    BY <1>4 DEF PendingInv, ConfirmedNotPending
  <1>6. o \in missed
    BY <1>1, <1>2, <1>3, <1>4, <1>5
  <1> QED  BY <1>3, <1>6

LEMMA PendingTracked ==
    ASSUME TypeInv, ChainInv, PendingInv, NEW g \in Callers, OnMempoolTransaction(g), Tracks(call[g].tx)
    PROVE  PendingInv'
  <1> DEFINE t == call[g].tx
  <1>1. /\ pendingTxs' = pendingTxs \cup {t} /\ pendingUTXOs' = pendingUTXOs \cup ({t} \cap Mine)
        /\ pendingSpent' = [o \in Txs |-> IF o \in Inputs[t] THEN t ELSE pendingSpent[o]]
        /\ overtaken' = IF \E u \in pendingTxs : {t, u} \cap Left # {} /\ Inputs[u] \cap Inputs[t] # {}
                        THEN overtaken \cup {t} ELSE overtaken
        /\ UNCHANGED <<pool, raced, transactions, chain, proc, missed>> /\ call' = Returned(g)
        /\ call[g] # None /\ call[g].kind \in {"accept", "track"}
    BY DEF OnMempoolTransaction, poolVars
  <1>2. t \in PoolTxs /\ CallTypes /\ PendingTypes
    BY <1>1 DEF TypeInv, CallTypes
  <1>3. t \in pool \cup raced
    <2>1. g \in Announcing(t)
      BY <1>1 DEF Announcing, At
    <2> QED  BY <1>2, <2>1 DEF PendingInv, AnnouncedPooled
  <1>4. /\ t \notin pendingTxs /\ transactions[t] # "confirmed"
        /\ t \in ConfirmedIn(Told) => Untold(t)
    BY <1>2, TrackedNew DEF Tracks
  <1>5. Left' = Left /\ AnnouncedPooled'
    BY <1>1, <1>2, CallsKept DEF PendingInv, AnnouncedPooled
  <1> HIDE DEF t
  <1>6. NoConflict(pool)' /\ PendingPooled'
    <2>1. raced \subseteq Left
      BY DEF Left
    <2> QED  BY <1>1, <1>3, <1>5, <2>1 DEF PendingInv, NoConflict, PendingPooled
  <1>7. PendingNew' /\ ConfirmedNotPending'
    <2>1. Told' = Told /\ \A u : Untold(u)' = Untold(u)
      BY <1>1 DEF Told, Untold
    <2>2. PendingNew'
      BY <1>1, <1>4, <2>1 DEF PendingInv, PendingNew, ConfirmedIn
    <2> QED  BY <1>1, <1>4, <2>2 DEF PendingInv, ConfirmedNotPending
  <1>8. \/ t \in overtaken'
        \/ \A u \in pendingTxs : Inputs[u] \cap Inputs[t] = {}
    <2> SUFFICES ASSUME NEW u \in pendingTxs, Inputs[u] \cap Inputs[t] # {}
                 PROVE  t \in overtaken'
      OBVIOUS
    <2>1. CASE {t, u} \cap Left # {}
      BY <1>1, <2>1
    <2>2. CASE {t, u} \cap Left = {}
      <3>1. t \in pool /\ u \in pool /\ t # u
        BY <1>3, <1>4, <2>2 DEF PendingInv, PendingPooled, Left
      <3> QED  BY <3>1 DEF PendingInv, NoConflict
    <2> QED  BY <2>1, <2>2
  <1>9. ASSUME NEW o \in Txs \ SpentIn(overtaken'), NEW u \in PoolTxs
        PROVE  (pendingSpent'[o] = u) <=> (u \in pendingTxs' /\ o \in Inputs[u])
    <2>1. o \notin SpentIn(overtaken)
      <3>1. overtaken \subseteq overtaken'
        BY <1>1
      <3> QED  BY <3>1 DEF SpentIn
    <2>2. (pendingSpent[o] = u) <=> (u \in pendingTxs /\ o \in Inputs[u])
      BY <2>1 DEF PendingInv, PendingIndexExact
    <2>3. CASE o \in Inputs[t]
      <3>1. t \notin overtaken'
        BY <2>3, SpentOfMember
      <3>2. u \in pendingTxs => o \notin Inputs[u]
        BY <1>8, <2>3, <3>1
      <3> QED  BY <1>1, <2>3, <3>2
    <2>4. CASE o \notin Inputs[t]
      BY <1>1, <2>2, <2>4
    <2> QED  BY <2>3, <2>4
  <1>10. pendingUTXOs' = pendingTxs' \cap Mine
    BY <1>1 DEF PendingInv, PendingIndexExact
  <1>11. PendingIndexExact'
    <2>1. SpentIn(overtaken)' = SpentIn(overtaken')
      BY DEF SpentIn
    <2> QED  BY <1>9, <1>10, <2>1 DEF PendingIndexExact
  <1> QED  BY <1>5, <1>6, <1>7, <1>11 DEF PendingInv

LEMMA PendingMempool ==
    ASSUME TypeInv, ChainInv, PendingInv, NEW g \in Callers, OnMempoolTransaction(g)
    PROVE  PendingInv'
  <1>1. CASE Tracks(call[g].tx)
    BY <1>1, PendingTracked
  <1>2. CASE ~Tracks(call[g].tx)
    <2>1. /\ UNCHANGED <<pool, raced, pendingTxs, pendingSpent, pendingUTXOs, transactions, overtaken>>
          /\ UNCHANGED <<chain, proc, missed>> /\ CallTypes
          /\ call' = Returned(g) /\ call[g] # None /\ call[g].kind \in {"accept", "track"}
      BY <1>2 DEF OnMempoolTransaction, poolVars, pendingVars, TypeInv
    <2>2. Left' = Left /\ AnnouncedPooled'
      BY <2>1, CallsKept DEF PendingInv, AnnouncedPooled
    <2>3. NoConflict(pool)' /\ PendingPooled'
      BY <2>1, <2>2 DEF PendingInv, NoConflict, PendingPooled
    <2>4. PendingNew' /\ ConfirmedNotPending'
      BY <2>1, ToldKept, PendingNewKept DEF PendingInv, ConfirmedNotPending
    <2>5. PendingIndexExact'
      BY <2>1 DEF PendingInv, PendingIndexExact, SpentIn
    <2> QED  BY <2>2, <2>3, <2>4, <2>5 DEF PendingInv
  <1> QED  BY <1>1, <1>2

LEMMA PendingEvict ==
    ASSUME TypeInv, ChainInv, PendingInv, NEW g \in Callers, EvictPendingTx(g)
    PROVE  PendingInv'
  <1> DEFINE t == call[g].tx
             S == Cascade(t)
  <1>1. /\ call' = [call EXCEPT ![g] = None] /\ Forget(S)
        /\ UNCHANGED <<pool, raced, chain, proc, overtaken, missed>>
        /\ transactions' = [u \in Txs |-> IF u \in S /\ transactions[u] = "absent"
                                          THEN "evicted" ELSE transactions[u]]
    BY DEF EvictPendingTx, poolVars
  <1>2. S \in SUBSET pendingTxs /\ (t \in pendingTxs => t \in S)
    BY CascadeFacts
  <1>3. call \in [Callers -> Call \cup {None}] /\ pendingTxs \subseteq Txs /\ PendingTypes
    BY Sets DEF TypeInv, CallTypes, PendingTypes
  <1>4. pendingTxs' = pendingTxs \ S
    BY <1>1 DEF Forget
  <1>5. NoConflict(pool)' /\ AnnouncedPooled'
    <2>1. \A u : Announcing(u)' \subseteq Announcing(u)
      BY <1>1, <1>3 DEF Announcing, At
    <2> QED  BY <1>1, <2>1 DEF PendingInv, NoConflict, AnnouncedPooled
  <1>6. Left \subseteq Left' \cup {t}
    <2>1. \A h \in Callers : h # g => call'[h] = call[h]
      BY <1>1, <1>3
    <2> QED  BY <1>1, <2>1 DEF Left
  <1> HIDE DEF t, S
  <1>7. PendingPooled'
    BY <1>1, <1>2, <1>4, <1>6 DEF PendingInv, PendingPooled
  <1>8. PendingNew' /\ ConfirmedNotPending'
    BY <1>1, <1>3, <1>4, ToldKept, PendingNewKept DEF PendingInv, ConfirmedNotPending
  <1>9. PendingIndexExact'
    BY <1>1, <1>2, <1>3, ForgetExact DEF PendingInv
  <1> QED  BY <1>5, <1>7, <1>8, <1>9 DEF PendingInv

LEMMA PendingNotify ==
    ASSUME TypeInv, ChainInv, PendingInv, NotifyBlocks
    PROVE  PendingInv'
  <1> DEFINE blk == proc.blk
             S == blk \cap pendingTxs
  <1>1. /\ UNCHANGED <<pool, raced, call, chain, overtaken, missed>> /\ Forget(S) /\ proc.step = "notify"
        /\ proc' = [proc EXCEPT !.step = "collect"] /\ proc \in ProcState
        /\ \A u \in Txs : u \notin blk => transactions'[u] = transactions[u]
    BY DEF NotifyBlocks, poolVars, historyVars, trackVars, TypeInv, ProcTypes
  <1>2. chain \in Seq(SUBSET Txs) /\ PendingTypes /\ pendingTxs \subseteq Txs
    BY Sets DEF TypeInv, ChainTypes, PendingTypes
  <1>3. ConfirmedIn(chain) = ConfirmedIn(Told) \cup blk /\ Told' = chain
    BY <1>1, <1>2, FrontChain DEF ChainInv, Carried, Told, ProcState
  <1>4. pendingTxs' = pendingTxs \ blk
    BY <1>1 DEF Forget
  <1> HIDE DEF S, blk
  <1>5. NoConflict(pool)' /\ AnnouncedPooled' /\ PendingPooled'
    BY <1>1, <1>4 DEF PendingInv, NoConflict, AnnouncedPooled, Announcing, At, PendingPooled, Left
  <1>6. PendingNew'
    <2>1. \A u : Untold(u)' = Untold(u)
      BY <1>1 DEF Untold
    <2>2. ConfirmedIn(Told)' = ConfirmedIn(Told) \cup blk
      BY <1>3 DEF ConfirmedIn
    <2> QED  BY <1>4, <2>1, <2>2 DEF PendingInv, PendingNew
  <1>7. ConfirmedNotPending'
    BY <1>1, <1>2, <1>4 DEF PendingInv, ConfirmedNotPending
  <1>8. PendingIndexExact'
    BY <1>1, <1>2, ForgetExact DEF PendingInv, S
  <1> QED  BY <1>5, <1>6, <1>7, <1>8 DEF PendingInv

LEMMA PendingDisconnected ==
    ASSUME TypeInv, ChainInv, PendingInv, NotifyBlockDisconnected
    PROVE  PendingInv' /\ \A t \in proc.blk \cap pendingTxs : Untold(t)
  <1> DEFINE blk == proc.blk
             S == blk \cap pendingTxs
  <1>1. /\ UNCHANGED <<pool, raced, call, chain, overtaken, missed>> /\ Forget(S) /\ proc.step = "undo"
        /\ proc'.step = "idle" /\ blk \in SUBSET Txs
        /\ \A u \in Txs : transactions'[u] = "confirmed" => transactions[u] = "confirmed"
    BY DEF NotifyBlockDisconnected, ProcIdle, poolVars, historyVars, trackVars, TypeInv, ProcTypes, ProcState
  <1>2. chain \in Seq(SUBSET Txs) /\ PendingTypes /\ pendingTxs \subseteq Txs
    BY Sets DEF TypeInv, ChainTypes, PendingTypes
  <1>3. Told = Append(chain, blk) /\ Told' = chain
    BY <1>1 DEF Told
  <1>4. ConfirmedIn(Told) = ConfirmedIn(chain) \cup blk
    BY <1>1, <1>2, <1>3, AppendChain
  <1>5. pendingTxs' \subseteq pendingTxs
    BY <1>1 DEF Forget
  <1> HIDE DEF S, blk
  <1>6. NoConflict(pool)' /\ AnnouncedPooled' /\ PendingPooled'
    BY <1>1, <1>5 DEF PendingInv, NoConflict, AnnouncedPooled, Announcing, At, PendingPooled, Left
  <1>7. PendingNew'
    BY <1>1, <1>3, <1>4, <1>5, PendingNewKept DEF PendingInv
  <1>8. ConfirmedNotPending'
    BY <1>1, <1>2, <1>5 DEF PendingInv, ConfirmedNotPending
  <1>9. PendingIndexExact'
    BY <1>1, <1>2, ForgetExact DEF PendingInv, S
  <1>10. \A t \in blk \cap pendingTxs : Untold(t)
    BY <1>4 DEF PendingInv, PendingNew
  <1> QED  BY <1>6, <1>7, <1>8, <1>9, <1>10 DEF PendingInv, blk

LEMMA PendingRestart ==
    ASSUME Fresh
    PROVE  PendingInv'
  <1>1. /\ pool' = {} /\ pendingTxs' = {} /\ pendingUTXOs' = {} /\ call' = [g \in Callers |-> None]
        /\ pendingSpent' = [o \in Txs |-> None]
    BY DEF Fresh
  <1>2. NoConflict(pool)' /\ AnnouncedPooled' /\ PendingPooled' /\ PendingNew' /\ ConfirmedNotPending'
    BY <1>1 DEF NoConflict, AnnouncedPooled, Announcing, At, PendingPooled, PendingNew, ConfirmedNotPending
  <1>3. PendingIndexExact'
    BY <1>1, Sets DEF PendingIndexExact
  <1> QED  BY <1>2, <1>3 DEF PendingInv

LEMMA PendingStep == TypeInv /\ ChainInv /\ PendingInv /\ [Next]_vars => PendingInv'
  <1> SUFFICES ASSUME TypeInv, ChainInv, PendingInv, [Next]_vars PROVE PendingInv'
    OBVIOUS
  <1>1. CASE \E g \in Callers : (\E t \in PoolTxs : Validate(g, t)) \/ Insert(g) \/ UpdateIndexes(g)
    BY <1>1, PendingAdd
  <1>2. CASE \E g \in Peers, t \in PoolTxs : RemovePooled(g, t)
    <2>1. PICK g \in Peers, t \in PoolTxs : RemovePooled(g, t)
      BY <1>2
    <2>2. /\ Leaves(g, t) /\ call[g] = None /\ g \in Callers
          /\ UNCHANGED <<pendingVars, transactions, overtaken>> /\ UNCHANGED <<chain, proc, missed>>
      BY <2>1, Sets DEF RemovePooled, walletVars, trackVars
    <2> QED  BY <2>2, ToldKept, PendingLeaves
  <1>3. CASE \E t \in PoolTxs : RemoveConfirmed(t)
    <2>1. PICK t \in PoolTxs : RemoveConfirmed(t)
      BY <1>3
    <2>2. /\ call[Proc] = None /\ UNCHANGED <<pendingVars, transactions, overtaken>>
          /\ Leaves(Proc, t) \/ UNCHANGED <<pool, raced, call>>
      BY <2>1 DEF RemoveConfirmed, walletVars, trackVars, poolVars
    <2>3. ConfirmedIn(Told') \subseteq ConfirmedIn(Told) \cup missed' /\ missed \subseteq missed'
      BY <1>3, ToldKept
    <2> QED  BY <2>2, <2>3, Sets, PendingLeaves, PendingKept
  <1>4. CASE \E g \in Callers : OnMempoolTransaction(g) \/ EvictPendingTx(g)
    BY <1>4, PendingMempool, PendingEvict
  <1>5. CASE NotifyBlocks \/ NotifyBlockDisconnected
    BY <1>5, PendingNotify, PendingDisconnected
  <1>6. CASE CleanRestart \/ CrashRestart
    BY <1>6, PendingRestart DEF CleanRestart, CrashRestart
  <1>7. CASE \/ (\E blk \in Offers : Connect(blk)) \/ (StakeSubmit /\ Commit(stake.txs))
             \/ Disconnect \/ CollectConfirmed \/ RemovedAll
    <2>1. \A blk \in Offers : blk \in SUBSET Txs
      BY WalletAssumption DEF WalletAssumption
    <2>2. stake.txs \in SUBSET Txs
      BY Sets DEF TypeInv, StakeTypes, StakeRecord
    <2>3. ConfirmedIn(Told') \subseteq ConfirmedIn(Told) \cup missed' /\ missed \subseteq missed'
      BY <1>7, <2>1, <2>2, ToldKept DEF Connect
    <2>4. UNCHANGED <<pool, raced, pendingVars, call, transactions, overtaken>>
      BY <1>7 DEF Connect, Commit, Disconnect, CollectConfirmed, RemovedAll, poolVars, walletVars,
                  historyVars, trackVars
    <2> QED  BY <2>3, <2>4, PendingKept
  <1>8. CASE \/ (\E s \in StakeTxs : StakeSelect(s)) \/ StakeBuild \/ UNCHANGED vars
             \/ StakeSubmit /\ ~Commit(stake.txs)
    <2>1. /\ UNCHANGED <<chain, proc, missed>>
          /\ UNCHANGED <<pool, raced, pendingVars, call, transactions, overtaken>>
      BY <1>8 DEF StakeSelect, StakeBuild, StakeSubmit, vars, poolVars, walletVars, historyVars, trackVars
    <2> QED  BY <2>1, ToldKept, PendingKept
  <1>9. (\E g \in Peers, t \in PoolTxs : Receive(g, t)) \/ (\E t \in Sends : Send(t))
          => \E g \in Callers, t \in PoolTxs : Validate(g, t)
    BY Sets DEF Receive, Send
  <1> QED  BY <1>1, <1>2, <1>3, <1>4, <1>5, <1>6, <1>7, <1>8, <1>9 DEF Next

LEMMA PendingAlways == Spec => [](TypeInv /\ ChainInv /\ PendingInv)
  BY TypeInit, TypeStep, ChainInit, ChainStep, PendingInit, PendingStep, PTL DEF Spec

\* In whatever order the callbacks of mempool and block processor arrive, no
\* confirmed transaction is pending, the indexes of the pending transactions
\* are exact, and when no call is in progress what is pending is in the pool.
THEOREM PendingAlwaysFollowsPool == Spec => []PendingFollowsPool
  <1>1. PendingInv => PendingFollowsPool
    <2> SUFFICES ASSUME PendingInv PROVE PendingFollowsPool
      OBVIOUS
    <2>1. NoStalePending
      BY DEF NoStalePending, Quiet, PendingInv, PendingPooled, Left
    <2> QED  BY <2>1 DEF PendingFollowsPool, PendingInv
  <1> QED  BY <1>1, PendingAlways, PTL

-----------------------------------------------------------------------------
(* What is offered for spending.                                            *)

\* Steps after which every pooled transaction was pooled before and has kept
\* its reason.
LEMMA OfferKept ==
    ASSUME OfferInv, missed \subseteq missed',
           \A t \in pool' : /\ t \in pool
                            /\ Announcing(t) # {} => Announcing(t)' # {} \/ t \in pendingTxs' \/ t \in untracked'
                            /\ t \in pendingTxs => t \in pendingTxs' \/ t \in untracked' \/ Leaving(t)'
                            /\ t \in untracked => t \in untracked' \/ t \in pendingTxs'
                            /\ Leaving(t) => Leaving(t)'
    PROVE  OfferInv'
  <1>1. \A t : Untold(t) => Untold(t)'
    BY DEF Untold
  <1> QED  BY <1>1 DEF OfferInv

\* While nothing that the reasons depend on changes, they stay.
LEMMA OfferSame ==
    ASSUME OfferInv, UNCHANGED <<pool, pendingTxs, call, untracked>>, missed \subseteq missed',
           \A t \in pool : Leaving(t) => Leaving(t)'
    PROVE  OfferInv'
  <1>1. \A t : Announcing(t)' = Announcing(t)
    BY DEF Announcing, At
  <1> QED  BY <1>1, OfferKept

\* What is inserted is going to be announced, and SendMany announces again
\* after the indexing.
LEMMA OfferAdd ==
    ASSUME TypeInv, OfferInv, NEW g \in Callers,
           (\E t \in PoolTxs : Validate(g, t)) \/ Insert(g) \/ UpdateIndexes(g)
    PROVE  OfferInv'
  <1>1. UNCHANGED <<pendingTxs, untracked, proc, missed>> /\ call \in [Callers -> Call \cup {None}]
    BY DEF Validate, Insert, UpdateIndexes, walletVars, pendingVars, historyVars, trackVars, TypeInv, CallTypes
  <1>2. \A u : (Leaving(u) => Leaving(u)') /\ Untold(u)' = Untold(u)
    BY <1>1 DEF Leaving, Untold
  <1>3. CASE \E t \in PoolTxs : Validate(g, t)
    <2>1. PICK t \in PoolTxs : Validate(g, t)
      BY <1>3
    <2>2. call' = [call EXCEPT ![g] = [kind |-> "insert", tx |-> t]] /\ call[g] = None /\ UNCHANGED pool
      BY <2>1 DEF Validate, poolVars
    <2>3. \A u : Announcing(u) \subseteq Announcing(u)'
      BY <1>1, <2>2 DEF Announcing, At
    <2> QED  BY <1>1, <1>2, <2>2, <2>3, OfferKept
  <1>4. CASE Insert(g)
    <2>1. call[g] # None /\ call[g].kind = "insert" /\ call[g] \in Call
      BY <1>1, <1>4 DEF Insert
    <2>2. \A h \in Callers : h # g => call'[h] = call[h]
      BY <1>1, <1>4 DEF Insert
    <2>3. \A u : Announcing(u) \subseteq Announcing(u)'
      BY <2>1, <2>2 DEF Announcing, At
    <2>4. CASE P!Accept(call[g].tx) /\ call' = [call EXCEPT ![g].kind = "accept"]
      <3>1. call'[g].kind = "accept" /\ call'[g].tx = call[g].tx /\ call'[g] # None
        <4>1. [call[g] EXCEPT !.kind = "accept"] \in Call /\ call'[g] = [call[g] EXCEPT !.kind = "accept"]
          BY <1>1, <2>1, <2>4 DEF Call
        <4> QED  BY <2>1, <4>1, Sets DEF Call
      <3>2. PICK t \in Txs : t = call[g].tx
        BY <2>1 DEF Call
      <3>3. g \in Announcing(t)'
        BY <3>1, <3>2 DEF Announcing, At
      <3>4. pool' = pool \cup {t}
        BY <2>4, <3>2 DEF P!Accept
      <3> QED  BY <1>1, <1>2, <2>3, <3>3, <3>4 DEF OfferInv
    <2>5. CASE UNCHANGED pool
      BY <1>1, <1>2, <2>3, <2>5, OfferKept
    <2> QED  BY <1>4, <2>4, <2>5 DEF Insert
  <1>5. CASE UpdateIndexes(g)
    <2>1. call[g] # None /\ call[g].kind = "index" /\ call[g] \in Call /\ UNCHANGED pool
      BY <1>1, <1>5 DEF UpdateIndexes
    <2>2. \A h \in Callers : h # g => call'[h] = call[h]
      BY <1>1, <1>5 DEF UpdateIndexes
    <2>3. g = Sender => call'[g] # None /\ call'[g].kind = "track" /\ call'[g].tx = call[g].tx
      <3>1. [call[g] EXCEPT !.kind = "track"] \in Call
        BY <2>1 DEF Call
      <3>2. g = Sender => call'[g] = [call[g] EXCEPT !.kind = "track"]
        BY <1>1, <1>5 DEF UpdateIndexes
      <3> QED  BY <2>1, <3>1, <3>2, Sets DEF Call
    <2>4. \A u : Announcing(u) \subseteq Announcing(u)'
      BY <2>1, <2>2, <2>3 DEF Announcing, At
    <2> QED  BY <1>1, <1>2, <2>1, <2>4, OfferKept
  <1> QED  BY <1>3, <1>4, <1>5

LEMMA OfferLeaves ==
    ASSUME TypeInv, OfferInv, NEW g \in Callers, NEW t \in PoolTxs, Leaves(g, t), call[g] = None,
           UNCHANGED <<pendingTxs, untracked, missed>>, \A u \in pool \ {t} : Leaving(u) => Leaving(u)'
    PROVE  OfferInv'
  <1>1. pool' = pool \ {t} /\ call' = [call EXCEPT ![g] = [kind |-> "evict", tx |-> t]]
    BY DEF Leaves, P!Remove
  <1>2. \A h \in Callers : h # g => call'[h] = call[h]
    BY <1>1 DEF TypeInv, CallTypes
  <1>3. \A u : Announcing(u) \subseteq Announcing(u)'
    BY <1>2 DEF Announcing, At
  <1> QED  BY <1>1, <1>3, OfferKept

LEMMA OfferMempool ==
    ASSUME TypeInv, OfferInv, NEW g \in Callers, OnMempoolTransaction(g)
    PROVE  OfferInv'
  <1> DEFINE t == call[g].tx
  <1>1. /\ UNCHANGED <<pool, raced, proc, missed>> /\ call' = Returned(g)
        /\ call[g] # None /\ call[g].kind \in {"accept", "track"}
        /\ pendingTxs' \in {pendingTxs, pendingTxs \cup {t}}
        /\ untracked' = IF t \in pendingTxs' THEN untracked \ {t} ELSE untracked \cup {t}
    BY DEF OnMempoolTransaction, poolVars, pendingVars
  <1>2. \A h \in Callers : h # g => call'[h] = call[h]
    BY <1>1, CallsKept DEF TypeInv
  <1> HIDE DEF t
  <1>3. \A u : u # t => Announcing(u) \subseteq Announcing(u)'
    BY <1>2 DEF Announcing, At, t
  <1>4. \A u \in pool : Leaving(u) => Leaving(u)'
    BY <1>1 DEF Leaving
  <1> QED  BY <1>1, <1>3, <1>4, OfferKept

LEMMA OfferEvict ==
    ASSUME TypeInv, OfferInv, NEW g \in Callers, EvictPendingTx(g)
    PROVE  OfferInv'
  <1> DEFINE S == Cascade(call[g].tx)
  <1>1. /\ UNCHANGED <<pool, proc, missed>> /\ call' = [call EXCEPT ![g] = None]
        /\ call[g] # None /\ call[g].kind = "evict" /\ Forget(S) /\ untracked' = untracked \cup (S \cap pool)
    BY DEF EvictPendingTx, poolVars
  <1> HIDE DEF S
  <1>2. \A h \in Callers : h # g => call'[h] = call[h]
    BY <1>1 DEF TypeInv, CallTypes
  <1>3. \A u : Announcing(u) \subseteq Announcing(u)'
    BY <1>1, <1>2 DEF Announcing, At
  <1>4. \A u \in pool : Leaving(u) => Leaving(u)'
    BY <1>1 DEF Leaving
  <1>5. pendingTxs' = pendingTxs \ S
    BY <1>1 DEF Forget
  <1> QED  BY <1>1, <1>3, <1>4, <1>5, OfferKept

\* The notification of a block forgets what the processor will take out of the
\* pool next; that of a disconnected block forgets only what the wallet was not told
\* enough of.
LEMMA OfferNotify ==
    ASSUME TypeInv, ChainInv, PendingInv, OfferInv, NotifyBlocks \/ NotifyBlockDisconnected
    PROVE  OfferInv'
  <1>1. /\ UNCHANGED <<pool, call, untracked, missed>> /\ proc \in ProcState
        /\ pendingTxs' = pendingTxs \ proc.blk /\ \A t : ~Leaving(t)
    BY DEF NotifyBlocks, NotifyBlockDisconnected, Forget, poolVars, historyVars, trackVars, Leaving, TypeInv,
           ProcTypes
  <1>0. \A t : Announcing(t)' = Announcing(t) /\ Untold(t)' = Untold(t)
    BY <1>1 DEF Announcing, At, Untold
  <1>2. CASE NotifyBlocks
    <2>1. \A t \in proc.blk : Leaving(t)'
      BY <1>1, <1>2 DEF NotifyBlocks, Leaving, ProcState
    <2> QED  BY <1>0, <1>1, <2>1 DEF OfferInv
  <1>3. CASE NotifyBlockDisconnected
    <2>1. \A t \in proc.blk \cap pendingTxs : Untold(t)
      BY <1>3, PendingDisconnected
    <2> QED  BY <1>0, <1>1, <2>1 DEF OfferInv
  <1> QED  BY <1>2, <1>3

LEMMA OfferCollect ==
    ASSUME TypeInv, OfferInv, CollectConfirmed \/ RemovedAll
    PROVE  OfferInv'
  <1>1. /\ UNCHANGED <<pool, pendingTxs, call, untracked, missed>> /\ proc \in ProcState
        /\ pool \subseteq PoolTxs
    BY DEF CollectConfirmed, RemovedAll, poolVars, walletVars, pendingVars, historyVars, trackVars, TypeInv,
           ProcTypes, PoolTypes
  <1>2. ASSUME NEW t \in pool, Leaving(t)
        PROVE  Leaving(t)'
    <2>1. CASE CollectConfirmed
      <3> DEFINE r == Superseded(proc.blk)
      <3>1. t \in r
        BY <1>1, <1>2, Sets DEF Leaving, Superseded
      <3> HIDE DEF r
      <3>3. proc' = [proc EXCEPT !.step = "remove", !.toRemove = r]
        BY <2>1, <3>1 DEF CollectConfirmed, r
      <3>4. proc'.step = "remove" /\ proc'.blk = proc.blk /\ proc'.toRemove = r
        BY <1>1, <3>3 DEF ProcState
      <3> QED  BY <1>2, <3>1, <3>4 DEF Leaving
    <2>2. CASE RemovedAll
      BY <1>2, <2>2 DEF RemovedAll, Leaving
    <2> QED  BY <2>1, <2>2
  <1> QED  BY <1>1, <1>2, OfferSame

LEMMA OfferRemove ==
    ASSUME TypeInv, OfferInv, NEW t \in PoolTxs, RemoveConfirmed(t)
    PROVE  OfferInv'
  <1>1. /\ proc' = [proc EXCEPT !.toRemove = @ \ {t}] /\ proc \in ProcState /\ call[Proc] = None
        /\ UNCHANGED <<pendingTxs, untracked, missed>>
    BY DEF RemoveConfirmed, TypeInv, ProcTypes, walletVars, pendingVars, trackVars
  <1>2. proc'.step = proc.step /\ proc'.blk = proc.blk /\ proc'.toRemove = proc.toRemove \ {t}
    BY <1>1 DEF ProcState
  <1>3. \A u \in pool \ {t} : Leaving(u) => Leaving(u)'
    BY <1>2 DEF Leaving
  <1>4. CASE Leaves(Proc, t)
    BY <1>1, <1>3, <1>4, Sets, OfferLeaves
  <1>5. CASE t \notin pool /\ UNCHANGED <<poolVars, call>>
    BY <1>1, <1>3, <1>5, OfferSame DEF poolVars
  <1> QED  BY <1>4, <1>5 DEF RemoveConfirmed

LEMMA OfferStep == TypeInv /\ ChainInv /\ PendingInv /\ OfferInv /\ [Next]_vars => OfferInv'
  <1> SUFFICES ASSUME TypeInv, ChainInv, PendingInv, OfferInv, [Next]_vars PROVE OfferInv'
    OBVIOUS
  <1>1. CASE \E g \in Callers : (\E t \in PoolTxs : Validate(g, t)) \/ Insert(g) \/ UpdateIndexes(g)
    BY <1>1, OfferAdd
  <1>2. CASE \E g \in Peers, t \in PoolTxs : RemovePooled(g, t)
    <2>1. PICK g \in Peers, t \in PoolTxs : RemovePooled(g, t)
      BY <1>2
    <2>2. /\ Leaves(g, t) /\ call[g] = None /\ g \in Callers
          /\ UNCHANGED <<pendingTxs, untracked, proc, missed>>
      BY <2>1, Sets DEF RemovePooled, walletVars, pendingVars, trackVars
    <2> QED  BY <2>2, OfferLeaves DEF Leaving
  <1>3. CASE \E t \in PoolTxs : RemoveConfirmed(t)
    BY <1>3, OfferRemove
  <1>4. CASE \E g \in Callers : OnMempoolTransaction(g) \/ EvictPendingTx(g)
    BY <1>4, OfferMempool, OfferEvict
  <1>5. CASE NotifyBlocks \/ NotifyBlockDisconnected
    BY <1>5, OfferNotify
  <1>6. CASE CollectConfirmed \/ RemovedAll
    BY <1>6, OfferCollect
  <1>7. CASE CleanRestart \/ CrashRestart
    BY <1>7 DEF CleanRestart, CrashRestart, Fresh, OfferInv
  <1>8. CASE (\E blk \in Offers : Connect(blk)) \/ (StakeSubmit /\ Commit(stake.txs)) \/ Disconnect
    <2>1. proc.step = "idle" /\ UNCHANGED <<pool, pendingTxs, call, untracked>> /\ missed \subseteq missed'
      BY <1>8 DEF Connect, Commit, Disconnect, poolVars, walletVars, pendingVars, historyVars, trackVars
    <2> QED  BY <2>1, OfferSame DEF Leaving
  <1>9. CASE \/ (\E s \in StakeTxs : StakeSelect(s)) \/ StakeBuild \/ UNCHANGED vars
             \/ StakeSubmit /\ ~Commit(stake.txs)
    <2>1. UNCHANGED <<pool, pendingTxs, call, untracked, proc, missed>>
      BY <1>9 DEF StakeSelect, StakeBuild, StakeSubmit, vars, poolVars, walletVars, pendingVars, historyVars,
                  trackVars
    <2> QED  BY <2>1, OfferSame DEF Leaving
  <1>10. (\E g \in Peers, t \in PoolTxs : Receive(g, t)) \/ (\E t \in Sends : Send(t))
           => \E g \in Callers, t \in PoolTxs : Validate(g, t)
    BY Sets DEF Receive, Send
  <1> QED  BY <1>1, <1>2, <1>3, <1>4, <1>5, <1>6, <1>7, <1>8, <1>9, <1>10 DEF Next

LEMMA OfferInit == Init => OfferInv
  BY DEF Init, OfferInv

\* Coin selection and the staking worker are never offered an output that a
\* pooled transaction spends, once that one has been announced and tracked,
\* unless a late call took the outpoint away or the wallet was not told of a
\* block that concerns it.
THEOREM OfferedNeverPooled == Spec => []OfferedNotPooled
  <1>1. TypeInv /\ ChainInv /\ PendingInv /\ OfferInv => OfferedNotPooled
    <2> SUFFICES ASSUME TypeInv, ChainInv, PendingInv, OfferInv,
                        NEW o \in Txs \ SpentIn(overtaken), NEW t \in pool, Selectable(o), o \in Inputs[t],
                        Announcing(t) = {}, t \notin untracked, ~Untold(t)
                 PROVE  FALSE
      BY DEF OfferedNotPooled
    <2>1. t \in PoolTxs /\ t # None
      BY Sets DEF TypeInv, PoolTypes
    <2>2. t \notin pendingTxs
      BY <2>1 DEF PendingInv, PendingIndexExact, Selectable
    <2>3. Leaving(t)
      BY <2>2 DEF OfferInv
    <2>4. chain \in Seq(SUBSET Txs) /\ chain # <<>> /\ proc.blk = Last(chain) /\ Told = chain
      BY <2>3 DEF Leaving, ChainInv, Carried, Told, TypeInv, ChainTypes
    <2>5. t \in ConfirmedIn(chain)
      BY <2>3, <2>4, FrontChain DEF Leaving
    <2>6. o \in SpentIn(ConfirmedIn(chain))
      BY <2>5, SpentOfMember
    <2>7. o \in UnspentIn(chain)
      <3>1. o \notin missed
        BY DEF Untold
      <3> QED  BY <2>4, <3>1 DEF Selectable, ChainInv, Follows
    <2> QED  BY <2>6, <2>7 DEF UnspentIn
  <1> QED  BY <1>1, PendingAlways, OfferInit, OfferStep, PTL DEF Spec

-----------------------------------------------------------------------------
(* Stake blocks.                                                            *)

\* What is clean on a chain is clean on the chain without its last block.
LEMMA CleanBelow ==
    ASSUME NEW ch \in Seq(SUBSET Txs), ch # <<>>, NEW t, Clean(t, ch)
    PROVE  Clean(t, Front(ch))
  <1>1. ConfirmedIn(ch) = ConfirmedIn(Front(ch)) \cup Last(ch)
    BY FrontChain
  <1>2. SpentIn(ConfirmedIn(Front(ch)) \ StakeTxs) \subseteq SpentIn(ConfirmedIn(ch) \ StakeTxs)
    BY <1>1 DEF SpentIn
  <1> QED  BY <1>1, <1>2 DEF Clean

\* What is clean below a block, is not in it and spends nothing that the block
\* spends, coinstakes apart, is clean with the block.
LEMMA CleanAbove ==
    ASSUME NEW ch \in Seq(SUBSET Txs), ch # <<>>, NEW t, Clean(t, Front(ch)), t \notin Last(ch),
           Inputs[t] \cap SpentIn(Last(ch) \ StakeTxs) = {}
    PROVE  Clean(t, ch)
  <1>1. ConfirmedIn(ch) = ConfirmedIn(Front(ch)) \cup Last(ch)
    BY FrontChain
  <1>2. ConfirmedIn(ch) \ StakeTxs = (ConfirmedIn(Front(ch)) \ StakeTxs) \cup (Last(ch) \ StakeTxs)
    BY <1>1
  <1>3. SpentIn(ConfirmedIn(ch) \ StakeTxs)
          = SpentIn(ConfirmedIn(Front(ch)) \ StakeTxs) \cup SpentIn(Last(ch) \ StakeTxs)
    BY <1>2, SpentOfUnion
  <1> QED  BY <1>1, <1>3 DEF Clean

\* What is clean on a chain is clean on the chains it extends.
LEMMA CleanPrefix ==
    ASSUME NEW ch \in Seq(SUBSET Txs), NEW tip \in Seq(SUBSET Txs), Len(tip) <= Len(ch),
           \A i \in 1 .. Len(tip) : tip[i] = ch[i], NEW t, Clean(t, ch)
    PROVE  Clean(t, tip)
  <1>1. Len(tip) \in Nat /\ Len(ch) \in Nat /\ DOMAIN tip = 1 .. Len(tip) /\ DOMAIN ch = 1 .. Len(ch)
    BY LenProperties
  <1>2. \A i \in DOMAIN tip : i \in DOMAIN ch /\ tip[i] = ch[i]
    BY <1>1
  <1>3. ConfirmedIn(tip) \subseteq ConfirmedIn(ch)
    BY <1>2 DEF ConfirmedIn
  <1>4. SpentIn(ConfirmedIn(tip) \ StakeTxs) \subseteq SpentIn(ConfirmedIn(ch) \ StakeTxs)
    BY <1>3 DEF SpentIn
  <1> QED  BY <1>3, <1>4 DEF Clean

LEMMA CleanInit == Init => CleanInv
  BY DEF Init, CleanInv, Validated, At

\* Steps that leave the chain and the block in progress alone, and add to the
\* pool and to what is validated only what is clean.
LEMMA CleanKept ==
    ASSUME TypeInv, ChainInv, CleanInv, UNCHANGED <<chain, proc>>, stale \subseteq stale',
           \A t \in (pool' \ (pool \cup stale)) \cup (Validated' \ (Validated \cup stale)) : Clean(t, chain)
    PROVE  CleanInv'
  <1>1. chain \in Seq(SUBSET Txs) /\ Settled' = Settled
    BY DEF TypeInv, ChainTypes, Settled
  <1>2. \A t \in pool' \ (pool \cup stale) : Clean(t, Settled)
    BY <1>1, CleanBelow DEF Settled, ChainInv, Carried
  <1>3. \A t \in pool' \ stale' : /\ Clean(t, Settled)
                                  /\ proc.step = "remove" => t \in proc.toRemove \/ Clean(t, chain)
    BY <1>2 DEF CleanInv
  <1>4. \A t \in Validated' \ stale' : Clean(t, chain)
    BY DEF CleanInv
  <1> QED  BY <1>1, <1>3, <1>4 DEF CleanInv, Clean, ConfirmedIn, SpentIn

\* A goroutine that has not begun to insert t may be the last to have
\* validated it.
LEMMA ValidatedKept ==
    ASSUME CallTypes, NEW g \in Callers, \A h \in Callers : h # g => call'[h] = call[h],
           call'[g] # None => call'[g].kind # "insert"
    PROVE  Validated' \subseteq Validated
  BY DEF Validated, At

LEMMA CleanAdd ==
    ASSUME TypeInv, ChainInv, CleanInv, NEW g \in Callers,
           (\E t \in PoolTxs : Validate(g, t)) \/ Insert(g) \/ UpdateIndexes(g)
    PROVE  CleanInv'
  <1>1. /\ UNCHANGED <<chain, proc, stale>> /\ call \in [Callers -> Call \cup {None}] /\ CallTypes
        /\ chain \in Seq(SUBSET Txs)
    BY DEF Validate, Insert, UpdateIndexes, historyVars, TypeInv, CallTypes, ChainTypes
  <1>2. CASE \E t \in PoolTxs : Validate(g, t)
    <2>1. PICK t \in PoolTxs : Validate(g, t)
      BY <1>2
    <2>2. /\ call' = [call EXCEPT ![g] = [kind |-> "insert", tx |-> t]] /\ UNCHANGED pool
          /\ t \notin ConfirmedIn(chain) /\ Inputs[t] \subseteq UnspentIn(chain)
      BY <2>1, ConfirmedCommitted DEF Validate, poolVars
    <2>3. Clean(t, chain)
      <3>1. SpentIn(ConfirmedIn(chain) \ StakeTxs) \subseteq SpentIn(ConfirmedIn(chain))
        BY DEF SpentIn
      <3> QED  BY <2>2, <3>1 DEF Clean, UnspentIn
    <2>4. Validated' \subseteq Validated \cup {t}
      BY <1>1, <2>2 DEF Validated, At
    <2> QED  BY <1>1, <2>2, <2>3, <2>4, CleanKept
  <1>3. CASE Insert(g)
    <2>1. call[g] # None /\ call[g].kind = "insert" /\ call[g] \in Call /\ call[g].tx \in PoolTxs
      BY <1>1, <1>3 DEF Insert, CallTypes
    <2>2. /\ \A h \in Callers : h # g => call'[h] = call[h]
          /\ call'[g] # None => call'[g].kind # "insert"
          /\ pool' \subseteq pool \cup {call[g].tx}
      <3>1. [call[g] EXCEPT !.kind = "accept"].kind = "accept"
        BY <2>1 DEF Call
      <3> QED  BY <1>1, <1>3, <2>1, <3>1 DEF Insert, P!Accept
    <2>3. call[g].tx \in Validated
      BY <2>1 DEF Validated, At
    <2>4. Validated' \subseteq Validated
      BY <1>1, <2>2, ValidatedKept
    <2>5. call[g].tx \in stale \/ Clean(call[g].tx, chain)
      BY <2>3 DEF CleanInv
    <2> QED  BY <1>1, <2>2, <2>4, <2>5, CleanKept
  <1>4. CASE UpdateIndexes(g)
    <2>1. call[g] # None /\ call[g].kind = "index" /\ call[g] \in Call
      BY <1>1, <1>4 DEF UpdateIndexes
    <2>2. /\ \A h \in Callers : h # g => call'[h] = call[h]
          /\ call'[g] # None => call'[g].kind # "insert" /\ UNCHANGED pool
      <3>1. [call[g] EXCEPT !.kind = "track"].kind = "track"
        BY <2>1 DEF Call
      <3> QED  BY <1>1, <1>4, <2>1, <3>1 DEF UpdateIndexes
    <2>3. Validated' \subseteq Validated /\ UNCHANGED pool
      BY <1>1, <1>4, <2>2, ValidatedKept DEF UpdateIndexes
    <2> QED  BY <1>1, <2>3, CleanKept
  <1> QED  BY <1>2, <1>3, <1>4

LEMMA CleanCommit ==
    ASSUME TypeInv, CleanInv, NEW blk \in SUBSET Txs, Commit(blk)
    PROVE  CleanInv'
  <1>1. /\ chain' = Append(chain, blk) /\ chain \in Seq(SUBSET Txs) /\ proc.step = "idle"
        /\ UNCHANGED <<pool, call>> /\ Validated \subseteq stale' /\ stale \subseteq stale'
    BY CommitCases DEF TypeInv, ChainTypes
  <1>2. Settled = chain /\ Front(chain') = chain /\ Last(chain') = blk /\ chain' # <<>>
    BY <1>1, AppendChain DEF Settled
  <1>3. \A t \in pool \ stale' : Clean(t, chain)
    BY <1>1, <1>2 DEF CleanInv
  <1>4. Validated' \subseteq stale'
    BY <1>1 DEF Validated, At
  <1>5. CASE proc'.step = "notify"
    <2>1. Settled' = chain
      BY <1>2, <1>5 DEF Settled
    <2> QED  BY <1>1, <1>3, <1>4, <1>5, <2>1 DEF CleanInv, Clean, ConfirmedIn, SpentIn
  <1>6. CASE proc' = proc /\ Superseded(blk) \subseteq stale'
    <2>1. Settled' = chain' /\ proc'.step # "remove"
      BY <1>1, <1>6 DEF Settled
    <2>2. pool \cap StakeTxs = {} /\ chain' \in Seq(SUBSET Txs)
      BY <1>1, Sets, AppendChain DEF TypeInv, PoolTypes
    <2>3. \A t \in pool \ stale' : t \notin blk /\ Inputs[t] \cap SpentIn(blk \ StakeTxs) = {}
      BY <1>6, <2>2 DEF Superseded
    <2>4. \A t \in pool \ stale' : Clean(t, chain')
      BY <1>2, <1>3, <2>2, <2>3, CleanAbove
    <2> QED  BY <1>1, <1>4, <2>1, <2>4 DEF CleanInv, Clean, ConfirmedIn, SpentIn
  <1> QED  BY <1>5, <1>6, CommitCases

LEMMA CleanNotify ==
    ASSUME TypeInv, CleanInv, NotifyBlocks \/ NotifyBlockDisconnected
    PROVE  CleanInv'
  <1>1. /\ UNCHANGED <<chain, pool, call, stale>> /\ proc \in ProcState /\ proc'.step # "remove"
    BY DEF NotifyBlocks, NotifyBlockDisconnected, ProcIdle, poolVars, historyVars, TypeInv, ProcTypes, ProcState
  <1>2. Settled' = Settled
    BY <1>1 DEF NotifyBlocks, NotifyBlockDisconnected, ProcIdle, ProcState, Settled
  <1>3. Validated' = Validated
    BY <1>1 DEF Validated, At
  <1> QED  BY <1>1, <1>2, <1>3 DEF CleanInv, Clean, ConfirmedIn, SpentIn

LEMMA CleanCollect ==
    ASSUME TypeInv, ChainInv, CleanInv, CollectConfirmed
    PROVE  CleanInv'
  <1> DEFINE r == Superseded(proc.blk)
  <1>1. /\ UNCHANGED <<chain, pool, call, stale>> /\ proc \in ProcState /\ proc.step = "collect"
        /\ \/ r = {} /\ proc' = ProcIdle
           \/ r # {} /\ proc' = [proc EXCEPT !.step = "remove", !.toRemove = r]
        /\ chain \in Seq(SUBSET Txs) /\ pool \cap StakeTxs = {}
    BY Sets DEF CollectConfirmed, Publish, poolVars, historyVars, TypeInv, ProcTypes, ChainTypes, PoolTypes
  <1>2. chain # <<>> /\ proc.blk = Last(chain) /\ Settled = Front(chain)
    BY <1>1 DEF ChainInv, Carried, Settled
  <1>3. \A t \in pool \ stale : Clean(t, Front(chain))
    BY <1>2 DEF CleanInv
  <1>4. \A t \in pool : t \notin r => t \notin Last(chain) /\ Inputs[t] \cap SpentIn(Last(chain) \ StakeTxs) = {}
    BY <1>1, <1>2 DEF Superseded
  <1> HIDE DEF r
  <1>5. \A t \in pool \ stale : t \in r \/ Clean(t, chain)
    BY <1>1, <1>2, <1>3, <1>4, CleanAbove
  <1>6. Validated' = Validated
    BY <1>1 DEF Validated, At
  <1>7. CASE r = {}
    <2>1. Settled' = chain /\ proc'.step # "remove"
      BY <1>1, <1>7 DEF Settled, ProcIdle
    <2> QED  BY <1>1, <1>5, <1>6, <1>7, <2>1 DEF CleanInv, Clean, ConfirmedIn, SpentIn
  <1>8. CASE r # {}
    <2>1. proc'.step = "remove" /\ proc'.toRemove = r
      BY <1>1, <1>8 DEF ProcState
    <2>2. Settled' = Front(chain)
      BY <1>1, <2>1 DEF Settled
    <2> QED  BY <1>1, <1>3, <1>5, <1>6, <2>1, <2>2 DEF CleanInv, Clean, ConfirmedIn, SpentIn
  <1> QED  BY <1>7, <1>8

LEMMA CleanRemove ==
    ASSUME TypeInv, CleanInv, RemovedAll \/ \E t \in PoolTxs : RemoveConfirmed(t)
    PROVE  CleanInv'
  <1>1. proc \in ProcState /\ UNCHANGED chain /\ proc.step = "remove"
    BY DEF TypeInv, ProcTypes, RemovedAll, RemoveConfirmed
  <1>2. CASE RemovedAll
    <2>1. /\ proc.toRemove = {} /\ UNCHANGED <<pool, call, stale>> /\ Settled' = chain
          /\ proc'.step # "remove"
      BY <1>1, <1>2 DEF RemovedAll, Publish, poolVars, historyVars, Settled, ProcIdle
    <2>2. Validated' = Validated
      BY <2>1 DEF Validated, At
    <2> QED  BY <1>1, <2>1, <2>2 DEF CleanInv, Clean, ConfirmedIn, SpentIn
  <1>3. CASE \E t \in PoolTxs : RemoveConfirmed(t)
    <2>1. PICK t \in PoolTxs : RemoveConfirmed(t)
      BY <1>3
    <2>2. proc'.step = "remove" /\ proc'.toRemove = proc.toRemove \ {t} /\ Settled' = Settled
      BY <1>1, <2>1 DEF RemoveConfirmed, ProcState, Settled
    <2>3. pool' = pool \ {t} /\ stale \subseteq stale'
      BY <2>1 DEF RemoveConfirmed, Leaves, P!Remove, poolVars
    <2>4. Validated' \subseteq Validated
      <3>1. call' = [call EXCEPT ![Proc] = [kind |-> "evict", tx |-> t]] \/ UNCHANGED call
        BY <2>1 DEF RemoveConfirmed, Leaves
      <3> QED  BY <3>1, Sets DEF Validated, At, TypeInv, CallTypes
    <2> QED  BY <1>1, <2>2, <2>3, <2>4 DEF CleanInv, Clean, ConfirmedIn, SpentIn
  <1> QED  BY <1>2, <1>3

LEMMA CleanDisconnect ==
    ASSUME TypeInv, CleanInv, Disconnect
    PROVE  CleanInv'
  <1>1. /\ chain \in Seq(SUBSET Txs) /\ chain # <<>> /\ chain' = Front(chain)
        /\ UNCHANGED <<pool, call, stale>> /\ proc.step = "idle" /\ proc'.step = "undo"
    BY DEF Disconnect, ProcIdle, poolVars, historyVars, TypeInv, ChainTypes
  <1>2. Settled = chain /\ Settled' = chain'
    BY <1>1 DEF Settled
  <1>3. \A t \in (pool \cup Validated) \ stale : Clean(t, chain')
    BY <1>1, <1>2, CleanBelow DEF CleanInv
  <1>4. Validated' = Validated
    BY <1>1 DEF Validated, At
  <1> QED  BY <1>1, <1>2, <1>3, <1>4 DEF CleanInv, Clean, ConfirmedIn, SpentIn

LEMMA CleanStep == TypeInv /\ ChainInv /\ CleanInv /\ [Next]_vars => CleanInv'
  <1> SUFFICES ASSUME TypeInv, ChainInv, CleanInv, [Next]_vars PROVE CleanInv'
    OBVIOUS
  <1>1. CASE \E g \in Callers : (\E t \in PoolTxs : Validate(g, t)) \/ Insert(g) \/ UpdateIndexes(g)
    BY <1>1, CleanAdd
  <1>2. CASE \E g \in Peers, t \in PoolTxs : RemovePooled(g, t)
    <2>1. PICK g \in Peers, t \in PoolTxs : RemovePooled(g, t)
      BY <1>2
    <2>2. /\ UNCHANGED <<chain, proc>> /\ pool' \subseteq pool /\ stale \subseteq stale' /\ g \in Callers
          /\ call' = [call EXCEPT ![g] = [kind |-> "evict", tx |-> t]]
      BY <2>1, Sets DEF RemovePooled, Leaves, P!Remove
    <2>3. Validated' \subseteq Validated
      BY <2>2 DEF Validated, At, TypeInv, CallTypes
    <2> QED  BY <2>2, <2>3, CleanKept
  <1>3. CASE \E g \in Callers : OnMempoolTransaction(g) \/ EvictPendingTx(g)
    <2>1. PICK g \in Callers : OnMempoolTransaction(g) \/ EvictPendingTx(g)
      BY <1>3
    <2>2. /\ UNCHANGED <<chain, proc, pool, stale>> /\ CallTypes /\ call[g] # None
          /\ call' = Returned(g) \/ call' = [call EXCEPT ![g] = None]
      BY <2>1 DEF OnMempoolTransaction, EvictPendingTx, poolVars, TypeInv
    <2>3. /\ \A h \in Callers : h # g => call'[h] = call[h]
          /\ call'[g] # None => call'[g].kind # "insert"
      BY <2>2, ReturnedTypes DEF CallTypes
    <2>4. Validated' \subseteq Validated
      BY <2>2, <2>3, ValidatedKept
    <2> QED  BY <2>2, <2>4, CleanKept
  <1>4. CASE \/ (\E s \in StakeTxs : StakeSelect(s)) \/ StakeBuild \/ UNCHANGED vars
             \/ StakeSubmit /\ ~Commit(stake.txs)
    <2>1. UNCHANGED <<chain, proc, pool, call, stale>>
      BY <1>4 DEF StakeSelect, StakeBuild, StakeSubmit, vars, poolVars, historyVars
    <2>2. Validated' = Validated
      BY <2>1 DEF Validated, At
    <2> QED  BY <2>1, <2>2, CleanKept
  <1>5. CASE (\E blk \in Offers : Connect(blk)) \/ (StakeSubmit /\ Commit(stake.txs))
    <2>1. \A blk \in Offers : blk \in SUBSET Txs
      BY WalletAssumption DEF WalletAssumption
    <2>2. stake.txs \in SUBSET Txs
      BY Sets DEF TypeInv, StakeTypes, StakeRecord
    <2> QED  BY <1>5, <2>1, <2>2, CleanCommit DEF Connect
  <1>6. CASE NotifyBlocks \/ NotifyBlockDisconnected
    BY <1>6, CleanNotify
  <1>7. CASE CollectConfirmed
    BY <1>7, CleanCollect
  <1>8. CASE RemovedAll \/ \E t \in PoolTxs : RemoveConfirmed(t)
    BY <1>8, CleanRemove
  <1>9. CASE Disconnect
    BY <1>9, CleanDisconnect
  <1>10. CASE CleanRestart \/ CrashRestart
    BY <1>10 DEF CleanRestart, CrashRestart, Fresh, CleanInv, Validated, At
  <1>11. (\E g \in Peers, t \in PoolTxs : Receive(g, t)) \/ (\E t \in Sends : Send(t))
           => \E g \in Callers, t \in PoolTxs : Validate(g, t)
    BY Sets DEF Receive, Send
  <1> QED  BY <1>1, <1>2, <1>3, <1>4, <1>5, <1>6, <1>7, <1>8, <1>9, <1>10, <1>11 DEF Next

-----------------------------------------------------------------------------
(* The fee-rate index lists what is pooled and indexed.                     *)

LEMMA ListInit == Init => ListInv
  BY Sets DEF Init, ListInv, Indexing, At

\* Steps that neither list nor unlist, nor change who is to index what.
LEMMA ListKept ==
    ASSUME ListInv, UNCHANGED <<pool, byFeeRate>>, stale \subseteq stale',
           \A t \in PoolTxs : Indexing(t)' = Indexing(t)
    PROVE  ListInv'
  BY DEF ListInv

\* A transaction is inserted by one goroutine, which lists it once.
LEMMA ListAdd ==
    ASSUME TypeInv, ListInv, NEW g \in Callers,
           (\E t \in PoolTxs : Validate(g, t)) \/ Insert(g) \/ UpdateIndexes(g)
    PROVE  ListInv'
  <1>1. /\ UNCHANGED stale /\ call \in [Callers -> Call \cup {None}] /\ byFeeRate \in [Txs -> Nat]
        /\ CallTypes
    BY DEF Validate, Insert, UpdateIndexes, historyVars, TypeInv, CallTypes, PoolTypes
  <1>2. CASE \E t \in PoolTxs : Validate(g, t)
    <2>1. PICK t \in PoolTxs : Validate(g, t)
      BY <1>2
    <2>2. call' = [call EXCEPT ![g] = [kind |-> "insert", tx |-> t]] /\ call[g] = None
          /\ UNCHANGED <<pool, byFeeRate>>
      BY <2>1 DEF Validate, poolVars
    <2>3. \A u : Indexing(u)' = Indexing(u)
      BY <1>1, <2>2 DEF Indexing, At
    <2> QED  BY <1>1, <2>2, <2>3, ListKept
  <1>3. CASE Insert(g)
    <2>1. /\ call[g] # None /\ call[g].kind = "insert" /\ call[g] \in Call /\ call[g].tx \in PoolTxs
          /\ UNCHANGED byFeeRate
      BY <1>1, <1>3 DEF Insert, CallTypes
    <2>2. \A h \in Callers : h # g => call'[h] = call[h]
      BY <1>1, <1>3 DEF Insert
    <2>3. CASE P!Accept(call[g].tx) /\ call' = [call EXCEPT ![g].kind = "accept"]
      <3>0. PICK t \in PoolTxs : t = call[g].tx
        BY <2>1
      <3>1. call'[g].kind = "accept" /\ call'[g].tx = t /\ call'[g] # None
        <4>1. [call[g] EXCEPT !.kind = "accept"] \in Call /\ call'[g] = [call[g] EXCEPT !.kind = "accept"]
          BY <1>1, <2>1, <2>3 DEF Call
        <4> QED  BY <2>1, <3>0, <4>1, Sets DEF Call
      <3>2. t \notin pool /\ pool' = pool \cup {t}
        BY <2>3, <3>0 DEF P!Accept
      <3>3. \A u : u # t => Indexing(u)' = Indexing(u)
        BY <2>1, <2>2, <3>0, <3>1 DEF Indexing, At
      <3>4. Indexing(t)' = Indexing(t) \cup {g}
        BY <2>1, <2>2, <3>0, <3>1 DEF Indexing, At
      <3>5. ASSUME NEW u \in PoolTxs \ stale
            PROVE  /\ Indexing(u)' # {} => u \in pool' /\ \E h \in Callers : Indexing(u)' = {h}
                   /\ byFeeRate[u] = IF u \in pool' /\ Indexing(u)' = {} THEN 1 ELSE 0
        <4>1. CASE u = t
          <5>1. Indexing(t) = {} /\ byFeeRate[t] = 0
            BY <3>2, <3>5, <4>1 DEF ListInv
          <5> QED  BY <3>2, <3>4, <4>1, <5>1
        <4>2. CASE u # t
          BY <3>2, <3>3, <3>5, <4>2 DEF ListInv
        <4> QED  BY <4>1, <4>2
      <3> QED  BY <1>1, <2>1, <3>5 DEF ListInv
    <2>4. CASE call' = [call EXCEPT ![g] = None] /\ UNCHANGED pool
      <3>1. \A u : Indexing(u)' = Indexing(u)
        BY <1>1, <2>1, <2>2, <2>4 DEF Indexing, At
      <3> QED  BY <1>1, <2>1, <2>4, <3>1, ListKept
    <2> QED  BY <1>3, <2>3, <2>4 DEF Insert
  <1>4. CASE UpdateIndexes(g)
    <2>0. PICK t \in PoolTxs : t = call[g].tx
      BY <1>1, <1>4 DEF UpdateIndexes, CallTypes
    <2>1. /\ call[g] # None /\ call[g].kind = "index" /\ call[g] \in Call
          /\ UNCHANGED pool /\ byFeeRate' = [byFeeRate EXCEPT ![t] = byFeeRate[t] + 1]
      BY <1>1, <1>4, <2>0 DEF UpdateIndexes, CallTypes
    <2>2. /\ \A h \in Callers : h # g => call'[h] = call[h]
          /\ call'[g] # None => call'[g].kind = "track"
      <3>1. [call[g] EXCEPT !.kind = "track"].kind = "track"
        BY <2>1 DEF Call
      <3> QED  BY <1>1, <1>4, <2>1, <3>1 DEF UpdateIndexes
    <2>3. \A u : u # t => Indexing(u)' = Indexing(u)
      BY <2>0, <2>1, <2>2 DEF Indexing, At
    <2>4. Indexing(t)' = Indexing(t) \ {g} /\ g \in Indexing(t)
      BY <2>0, <2>1, <2>2 DEF Indexing, At
    <2>5. ASSUME NEW u \in PoolTxs \ stale
          PROVE  /\ Indexing(u)' # {} => u \in pool' /\ \E h \in Callers : Indexing(u)' = {h}
                 /\ byFeeRate'[u] = IF u \in pool' /\ Indexing(u)' = {} THEN 1 ELSE 0
      <3>1. CASE u = t
        <4>1. t \in pool /\ Indexing(t) = {g} /\ byFeeRate[t] = 0
          BY <2>4, <2>5, <3>1 DEF ListInv
        <4>2. byFeeRate'[t] = 1
          BY <1>1, <2>1, <4>1, Sets
        <4> QED  BY <2>1, <2>4, <3>1, <4>1, <4>2
      <3>2. CASE u # t
        <4>1. byFeeRate'[u] = byFeeRate[u]
          BY <1>1, <2>1, <2>5, <3>2, Sets
        <4> QED  BY <2>1, <2>3, <2>5, <3>2, <4>1 DEF ListInv
      <3> QED  BY <3>1, <3>2
    <2> QED  BY <1>1, <2>5 DEF ListInv
  <1> QED  BY <1>2, <1>3, <1>4

\* A transaction that leaves the pool is no longer listed, unless it left before
\* it was indexed.
LEMMA ListLeaves ==
    ASSUME TypeInv, ListInv, NEW g \in Callers, NEW t \in PoolTxs, Leaves(g, t), call[g] = None
    PROVE  ListInv'
  <1>1. /\ pool' = pool \ {t} /\ t \in pool /\ call' = [call EXCEPT ![g] = [kind |-> "evict", tx |-> t]]
        /\ byFeeRate' = [byFeeRate EXCEPT ![t] = IF byFeeRate[t] > 0 THEN byFeeRate[t] - 1 ELSE 0]
        /\ stale' = IF Indexing(t) # {} THEN stale \cup {t} ELSE stale
        /\ call \in [Callers -> Call \cup {None}] /\ byFeeRate \in [Txs -> Nat] /\ t \in Txs
    BY Sets DEF Leaves, P!Remove, TypeInv, CallTypes, PoolTypes
  <1>2. \A u : Indexing(u)' = Indexing(u)
    BY <1>1 DEF Indexing, At
  <1>3. ASSUME NEW u \in PoolTxs \ stale'
        PROVE  /\ Indexing(u)' # {} => u \in pool' /\ \E h \in Callers : Indexing(u)' = {h}
               /\ byFeeRate'[u] = IF u \in pool' /\ Indexing(u)' = {} THEN 1 ELSE 0
    <2>1. u \notin stale /\ u \in Txs
      BY <1>1, Sets
    <2>2. CASE u = t
      <3>1. Indexing(t) = {}
        BY <1>1, <1>3, <2>2
      <3>2. byFeeRate[t] = 1
        BY <1>1, <2>1, <2>2, <3>1 DEF ListInv
      <3>3. byFeeRate'[t] = 0
        BY <1>1, <3>2
      <3> QED  BY <1>1, <1>2, <2>2, <3>1, <3>3
    <2>3. CASE u # t
      <3>1. byFeeRate'[u] = byFeeRate[u]
        BY <1>1, <2>1, <2>3
      <3> QED  BY <1>1, <1>2, <2>1, <2>3, <3>1 DEF ListInv
    <2> QED  BY <2>2, <2>3
  <1> QED  BY <1>3 DEF ListInv

LEMMA ListStep == TypeInv /\ ListInv /\ [Next]_vars => ListInv'
  <1> SUFFICES ASSUME TypeInv, ListInv, [Next]_vars PROVE ListInv'
    OBVIOUS
  <1>1. CASE \E g \in Callers : (\E t \in PoolTxs : Validate(g, t)) \/ Insert(g) \/ UpdateIndexes(g)
    BY <1>1, ListAdd
  <1>2. CASE \/ \E g \in Peers, t \in PoolTxs : RemovePooled(g, t)
             \/ \E t \in PoolTxs : RemoveConfirmed(t) /\ Leaves(Proc, t)
    BY <1>2, ListLeaves, Sets DEF RemovePooled, RemoveConfirmed
  <1>3. CASE \E g \in Callers : OnMempoolTransaction(g) \/ EvictPendingTx(g)
    <2>1. PICK g \in Callers : OnMempoolTransaction(g) \/ EvictPendingTx(g)
      BY <1>3
    <2>2. UNCHANGED <<pool, byFeeRate, raced, stale>> /\ CallTypes /\ call[g] # None
      BY <2>1 DEF OnMempoolTransaction, EvictPendingTx, poolVars, TypeInv
    <2>3. CASE OnMempoolTransaction(g)
      <3>1. \A t : Indexing(t)' = Indexing(t)
        BY <2>2, <2>3, CallsKept DEF OnMempoolTransaction
      <3> QED  BY <2>2, <3>1, ListKept
    <2>4. CASE EvictPendingTx(g)
      <3>1. call[g].kind = "evict" /\ call' = [call EXCEPT ![g] = None] /\ call \in [Callers -> Call \cup {None}]
        BY <2>2, <2>4 DEF EvictPendingTx, CallTypes
      <3>2. \A t : Indexing(t)' = Indexing(t)
        BY <2>2, <3>1 DEF Indexing, At
      <3> QED  BY <2>2, <3>2, ListKept
    <2> QED  BY <2>1, <2>3, <2>4
  <1>4. CASE CleanRestart \/ CrashRestart
    BY <1>4, Sets DEF CleanRestart, CrashRestart, Fresh, ListInv, Indexing, At
  <1>5. CASE \/ (\E blk \in Offers : Connect(blk)) \/ NotifyBlocks \/ CollectConfirmed \/ RemovedAll
             \/ (\E t \in PoolTxs : RemoveConfirmed(t) /\ ~Leaves(Proc, t))
             \/ Disconnect \/ NotifyBlockDisconnected
             \/ (\E s \in StakeTxs : StakeSelect(s)) \/ StakeBuild \/ StakeSubmit \/ UNCHANGED vars
    <2>1. UNCHANGED <<pool, byFeeRate, call>> /\ stale \subseteq stale'
      BY <1>5 DEF Connect, Commit, NotifyBlocks, CollectConfirmed, RemovedAll, RemoveConfirmed, Disconnect,
                  NotifyBlockDisconnected, StakeSelect, StakeBuild, StakeSubmit, poolVars, historyVars, vars
    <2>2. \A t : Indexing(t)' = Indexing(t)
      BY <2>1 DEF Indexing, At
    <2> QED  BY <2>1, <2>2, ListKept
  <1>6. (\E g \in Peers, t \in PoolTxs : Receive(g, t)) \/ (\E t \in Sends : Send(t))
           => \E g \in Callers, t \in PoolTxs : Validate(g, t)
    BY Sets DEF Receive, Send
  <1> QED  BY <1>1, <1>2, <1>3, <1>4, <1>5, <1>6 DEF Next

-----------------------------------------------------------------------------
(* The block of a stake attempt.                                            *)

\* The tip of an attempt that goes on is part of the chain the pool has been
\* settled for: its height is the one in memory, and the committed chain has it.
LEMMA TipSettled ==
    ASSUME TypeInv, ChainInv, NEW tip \in Seq(SUBSET Txs), best = Len(tip), IsPrefix(tip, chain)
    PROVE  /\ Settled \in Seq(SUBSET Txs) /\ Len(tip) <= Len(Settled)
           /\ \A i \in 1 .. Len(tip) : tip[i] = Settled[i]
  <1>1. chain \in Seq(SUBSET Txs) /\ Len(chain) \in Nat /\ Len(tip) \in Nat /\ best \in 0 .. Len(chain)
    BY LenProperties DEF TypeInv, ChainTypes, BestTypes
  <1>2. \A i \in 1 .. Len(tip) : tip[i] = chain[i]
    <2>1. SubSeq(tip, 1, Len(tip)) = SubSeq(chain, 1, Len(tip))
      BY DEF IsPrefix
    <2>2. \A i \in 1 .. Len(tip) : SubSeq(tip, 1, Len(tip))[i] = tip[i]
      BY <1>1, PrefixFacts
    <2>3. \A i \in 1 .. Len(tip) : SubSeq(chain, 1, Len(tip))[i] = chain[i]
      BY <1>1, PrefixFacts
    <2> QED  BY <2>1, <2>2, <2>3
  <1>3. CASE proc.step \in {"notify", "collect", "remove"}
    <2>1. Settled = Front(chain) /\ chain # <<>> /\ best < Len(chain)
      BY <1>3 DEF Settled, ChainInv, Carried
    <2>2. Front(chain) \in Seq(SUBSET Txs) /\ Len(Front(chain)) = Len(chain) - 1
      BY <1>1, <2>1, FrontChain
    <2>3. \A i \in 1 .. Len(chain) - 1 : Front(chain)[i] = chain[i]
      BY <1>1, PrefixFacts DEF Front
    <2> QED  BY <1>1, <1>2, <2>1, <2>2, <2>3
  <1>4. CASE proc.step \notin {"notify", "collect", "remove"}
    <2>1. Settled = chain
      BY <1>4 DEF Settled
    <2> QED  BY <1>1, <1>2, <2>1
  <1> QED  BY <1>3, <1>4

LEMMA StakeInit == Init => StakeInv
  BY DEF Init, StakeIdle, StakeInv

LEMMA StakeStep ==
    TypeInv /\ ChainInv /\ PendingInv /\ CleanInv /\ ListInv /\ StakeInv /\ [Next]_vars => StakeInv'
  <1> SUFFICES ASSUME TypeInv, ChainInv, PendingInv, CleanInv, ListInv, StakeInv, [Next]_vars PROVE StakeInv'
    OBVIOUS
  <1>1. CASE UNCHANGED stake /\ missed \subseteq missed' /\ stale \subseteq stale'
    <2>1. Untold(stake.out) => Untold(stake.out)'
      BY <1>1 DEF Untold
    <2> QED  BY <1>1, <2>1 DEF StakeInv, Clean, ConfirmedIn, UnspentIn, SpentIn, NoConflict
  <1>2. CASE stake' = StakeIdle
    BY <1>2 DEF StakeInv, StakeIdle
  <1>3. CASE \E s \in StakeTxs : StakeSelect(s)
    <2>1. PICK s \in StakeTxs : StakeSelect(s)
      BY <1>3
    <2>2. /\ stake'.step = "build" /\ stake'.tip = chain /\ stake'.out = s /\ stake'.astray = ~Notified
          /\ s \notin ConfirmedIn(chain) /\ \A o \in Inputs[s] : o \in Txs /\ utxos[o] = "unspent"
          /\ UNCHANGED missed
      BY <2>1, ConfirmedCommitted, Sets DEF StakeSelect, Selectable, historyVars
    <2>3. Notified /\ ~Untold(s) => Inputs[s] \subseteq UnspentIn(chain)
      <3>1. Notified => Told = chain
        BY DEF Notified, Told
      <3> QED  BY <2>2, <3>1 DEF ChainInv, Follows, Untold
    <2>4. Untold(stake.out)' <=> Untold(s)
      BY <2>2 DEF Untold
    <2> QED  BY <2>2, <2>3, <2>4 DEF StakeInv
  <1>4. CASE StakeBuild /\ stake' # StakeIdle
    <2>1. /\ stake \in StakeRecord /\ stake.step = "build" /\ best = Len(stake.tip)
          /\ stake' = [stake EXCEPT !.step = "submit", !.txs = {stake.out} \cup Listed,
                                    !.astray = @ \/ ~IsPrefix(stake.tip, chain)]
          /\ UNCHANGED <<stale, missed>>
      BY <1>4 DEF StakeBuild, TypeInv, StakeTypes, historyVars
    <2>2. /\ stake'.step = "submit" /\ stake'.tip = stake.tip /\ stake'.out = stake.out
          /\ stake'.txs = {stake.out} \cup Listed
      BY <2>1 DEF StakeRecord
    <2>3. ~stake'.astray => ~stake.astray /\ IsPrefix(stake.tip, chain)
      BY <2>1 DEF StakeRecord
    <2>4. Untold(stake.out)' <=> Untold(stake.out)
      BY <2>1, <2>2 DEF Untold
    <2>5. SUFFICES ASSUME ~stake'.astray
                   PROVE  /\ ~Untold(stake.out) => /\ stake.out \notin ConfirmedIn(stake.tip)
                                                   /\ Inputs[stake.out] \subseteq UnspentIn(stake.tip)
                          /\ NoConflict(({stake.out} \cup Listed) \ ({stake.out} \cup stale))
                          /\ \A t \in ({stake.out} \cup Listed) \ ({stake.out} \cup stale) : Clean(t, stake.tip)
      BY <2>1, <2>2, <2>4 DEF StakeInv, Clean, ConfirmedIn, UnspentIn, SpentIn, NoConflict
    <2>6. \A t \in Listed \ stale : t \in pool
      <3>1. \A t \in Listed : t \in PoolTxs /\ byFeeRate[t] > 0
        BY DEF Listed
      <3> QED  BY <3>1 DEF ListInv
    <2>7. \A t \in pool \ stale : Clean(t, stake.tip)
      <3>1. stake.tip \in Seq(SUBSET Txs)
        BY <2>1 DEF StakeRecord
      <3> QED  BY <2>1, <2>3, <2>5, <3>1, TipSettled, CleanPrefix DEF CleanInv
    <2>8. NoConflict(({stake.out} \cup Listed) \ ({stake.out} \cup stale))
      BY <2>6 DEF PendingInv, NoConflict
    <2> QED  BY <2>1, <2>3, <2>5, <2>6, <2>7, <2>8 DEF StakeInv
  <1>5. \/ UNCHANGED stake /\ missed \subseteq missed' /\ stale \subseteq stale'
        \/ stake' = StakeIdle \/ (\E s \in StakeTxs : StakeSelect(s)) \/ StakeBuild
    <2> USE DEF historyVars, trackVars, poolVars
    <2>1. CASE \/ \E g \in Peers, t \in PoolTxs : Receive(g, t) \/ RemovePooled(g, t)
               \/ \E t \in Sends : Send(t)
               \/ \E g \in Callers : Insert(g) \/ OnMempoolTransaction(g) \/ UpdateIndexes(g) \/ EvictPendingTx(g)
      BY <2>1 DEF Receive, RemovePooled, Leaves, Send, Validate, Insert, OnMempoolTransaction, UpdateIndexes,
                  EvictPendingTx
    <2>2. CASE \/ \E blk \in Offers : Connect(blk)
               \/ NotifyBlocks \/ CollectConfirmed \/ RemovedAll
               \/ \E t \in PoolTxs : RemoveConfirmed(t)
               \/ Disconnect \/ NotifyBlockDisconnected
      BY <2>2 DEF Connect, Commit, NotifyBlocks, CollectConfirmed, RemovedAll, RemoveConfirmed, Leaves, Disconnect,
                  NotifyBlockDisconnected
    <2>3. CASE StakeSubmit \/ CleanRestart \/ CrashRestart
      BY <2>3 DEF StakeSubmit, CleanRestart, CrashRestart, Fresh
    <2>4. CASE UNCHANGED vars
      BY <2>4 DEF vars
    <2> QED  BY <2>1, <2>2, <2>3, <2>4 DEF Next
  <1> QED  BY <1>1, <1>2, <1>3, <1>4, <1>5

\* A stake block that is submitted on the tip it was selected and built on is
\* valid: whatever was inserted, indexed, removed, committed or missed while the
\* worker read height and fee-rate index one after the other.  It is valid up to
\* pooled transactions that conflict with the stake or with an earlier
\* coinstake, whose inputs a rollback took away, or that a commit or removal
\* overtook between validation and indexing.
THEOREM StakeBlockAlwaysValid == Spec => []StakeBlockValid
  <1>1. TypeInv /\ StakeInv => StakeBlockValid
    <2> SUFFICES ASSUME TypeInv, StakeInv, stake.step = "submit", stake.tip = chain, ~stake.astray,
                        ~Untold(stake.out)
                 PROVE  StakeBlockValid
      BY DEF StakeBlockValid
    <2> DEFINE F == {t \in stake.txs :
                       \/ t = stake.out
                       \/ /\ Inputs[t] \cap (Inputs[stake.out] \cup Staked) = {}
                          /\ Inputs[t] \subseteq Confirmed /\ t \notin stale}
               C == ConfirmedIn(chain)
               rest == stake.txs \ ({stake.out} \cup stale)
    <2>1. /\ stake.out \notin C /\ Inputs[stake.out] \subseteq UnspentIn(chain)
          /\ NoConflict(rest) /\ \A t \in rest : Clean(t, chain)
      BY DEF StakeInv
    <2>2. SpentIn(C) = SpentIn(C \cap StakeTxs) \cup SpentIn(C \ StakeTxs)
      <3>1. C = (C \cap StakeTxs) \cup (C \ StakeTxs)
        OBVIOUS
      <3> QED  BY <3>1, SpentOfUnion
    <2>3. Staked = SpentIn(C \cap StakeTxs) /\ Confirmed = C /\ Unspent = C \ SpentIn(C)
      BY ConfirmedCommitted DEF Staked, UnspentIn
    <2> HIDE DEF C
    <2>4. ASSUME NEW t \in F
          PROVE  t \notin Confirmed /\ Inputs[t] \subseteq Unspent
      <3>1. CASE t = stake.out
        BY <2>1, <2>3, <3>1, ConfirmedCommitted
      <3>2. CASE t # stake.out
        BY <2>1, <2>2, <2>3, <2>4, <3>2 DEF Clean, C
      <3> QED  BY <3>1, <3>2
    <2>5. ASSUME NEW t \in F, NEW u \in F, t # u
          PROVE  Inputs[t] \cap Inputs[u] = {}
      <3>1. CASE t = stake.out
        BY <2>5, <3>1
      <3>2. CASE u = stake.out
        BY <2>5, <3>2
      <3>3. CASE t # stake.out /\ u # stake.out
        BY <2>1, <2>5, <3>3 DEF NoConflict
      <3> QED  BY <3>1, <3>2, <3>3
    <2> HIDE DEF F
    <2>6. F \cap Confirmed = {} /\ SpentIn(F) \subseteq Unspent
      BY <2>4, SpentBySome
    <2>7. ValidBlock(F)
      BY <2>5, <2>6, Zenon DEF ValidBlock
    <2> QED  BY <2>7 DEF StakeBlockValid, F
  <1> QED  BY <1>1, PendingAlways, CleanInit, CleanStep, ListInit, ListStep, StakeInit, StakeStep, PTL DEF Spec
=============================================================================
