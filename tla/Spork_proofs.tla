---------------------------- MODULE Spork_proofs ----------------------------
(***************************************************************************)
(* Proofs about Spork for every set of nodes, network, clock skew and      *)
(* number of messages, restarts and failed writes.                         *)
(***************************************************************************)
EXTENDS Spork, TLAPS

-----------------------------------------------------------------------------
(* What the helpers do to the state.                                       *)

\* One slot of one node's map is overwritten.
LEMMA SlotUpdate ==
    ASSUME NEW f \in Slots, NEW n \in Nodes, NEW i \in Ids, NEW m \in Message
    PROVE  [f EXCEPT ![n][i] = m] \in Slots
  <1> DEFINE Slot == Message \cup {None}
  <1>1. f[n] \in [Ids -> Slot]
    BY DEF Slots
  <1>2. m \in Slot
    OBVIOUS
  <1> HIDE DEF Slot
  <1>3. [f[n] EXCEPT ![i] = m] \in [Ids -> Slot]
    BY <1>1, <1>2
  <1>4. f \in [Nodes -> [Ids -> Slot]]
    BY DEF Slots, Slot
  <1>5. [f EXCEPT ![n] = [f[n] EXCEPT ![i] = m]] \in [Nodes -> [Ids -> Slot]]
    BY <1>3, <1>4
  <1> QED
    BY <1>5 DEF Slots, Slot

\* storeAndRelayLocked keeps both of the Manager's maps well typed.
LEMMA StoreAndRelayType ==
    ASSUME TypeOK, NEW n \in Nodes, NEW m \in Message, StoreAndRelay(n, m)
    PROVE  active' \in Slots /\ db' \in Slots
  <1>1. m.id \in Ids
    BY DEF Message
  <1>2. active \in Slots /\ db \in Slots
    BY DEF TypeOK
  <1>3. /\ [active EXCEPT ![n][m.id] = m] \in Slots
        /\ [db EXCEPT ![n][m.id] = m] \in Slots
    BY <1>1, <1>2, SlotUpdate
  <1> QED
    BY <1>2, <1>3 DEF StoreAndRelay

\* ProcessMessage keeps both of the Manager's maps well typed.
LEMMA ProcessMessageType ==
    ASSUME TypeOK, NEW n \in Nodes, NEW m \in Message, ProcessMessage(n, m)
    PROVE  active' \in Slots /\ db' \in Slots
  BY StoreAndRelayType DEF TypeOK, ProcessMessage

\* broadcastSpork only queues well-typed packets.
LEMMA BroadcastType ==
    ASSUME TypeOK, NEW n \in Nodes, NEW m \in Message, NEW x
    PROVE  Broadcast(n, m, x) \in [Nodes -> SUBSET Packet]
  <1>1. [from |-> n, msg |-> m] \in Packet
    BY DEF Packet
  <1>2. \A p \in Nodes : inbox[p] \in SUBSET Packet
    BY DEF TypeOK
  <1> QED
    BY <1>1, <1>2 DEF Broadcast

-----------------------------------------------------------------------------
(* Type correctness.                                                       *)

\* A network of fresh nodes is well typed.
LEMMA InitType == Init => TypeOK
  BY SporkAssumption DEF Init, TypeOK, Slots, SporkAssumption

\* Every step keeps the state well typed.
LEMMA StepType == TypeOK /\ [Next]_vars => TypeOK'
  <1> SUFFICES ASSUME TypeOK, [Next]_vars PROVE TypeOK'
    OBVIOUS
  <1> USE SporkAssumption DEF SporkAssumption
  <1>1. ASSUME NEW n \in Nodes, NEW pkt \in inbox[n], HandleSpork(n, pkt)
        PROVE  TypeOK'
    <2>1. pkt \in Packet /\ pkt.msg \in Message /\ pkt.msg.id \in Ids
      BY <1>1 DEF TypeOK, Packet, Message
    <2>2. active' \in Slots /\ db' \in Slots
      BY <1>1, <2>1, ProcessMessageType DEF HandleSpork, TypeOK
    <2>3. cache' \in Slots
      <3>1. cache \in Slots
        BY DEF TypeOK
      <3>2. [cache EXCEPT ![n][pkt.msg.id] = pkt.msg] \in Slots
        BY <2>1, <3>1, SlotUpdate
      <3> QED
        BY <1>1, <3>1, <3>2 DEF HandleSpork
    <2>4. inbox' \in [Nodes -> SUBSET Packet]
      <3>1. Broadcast(n, pkt.msg, pkt.from) \in [Nodes -> SUBSET Packet]
        BY <2>1, BroadcastType
      <3> QED
        BY <1>1, <2>1, <3>1 DEF HandleSpork, TypeOK
    <2> QED
      BY <1>1, <2>2, <2>3, <2>4 DEF HandleSpork, TypeOK
  <1>2. ASSUME NEW n \in Nodes, NEW p \in Nodes, HandleGetSporks(n, p)
        PROVE  TypeOK'
    <2>1. \A id \in Ids : cache[n][id] # None => cache[n][id] \in Message
      BY DEF TypeOK, Slots
    <2>2. {[from |-> n, msg |-> cache[n][id]] : id \in {i \in Ids : cache[n][i] # None}}
            \in SUBSET Packet
      BY <2>1 DEF Packet
    <2>3. inbox' \in [Nodes -> SUBSET Packet]
      BY <1>2, <2>2 DEF HandleGetSporks, TypeOK
    <2> QED
      BY <1>2, <2>3 DEF HandleGetSporks, TypeOK
  <1>3. ASSUME NEW n \in Nodes, NEW id \in Ids, NEW v \in Values, UpdateSpork(n, id, v)
        PROVE  TypeOK'
    <2>1. [id |-> id, value |-> v, time |-> now, key |-> "new"] \in Message
      BY DEF Message, TypeOK
    <2> QED
      BY <1>3, <2>1, StoreAndRelayType DEF UpdateSpork, Signs, TypeOK
  <1>4. ASSUME NEW n \in Nodes, Restart(n)
        PROVE  TypeOK'
    <2>1. asks' \subseteq Nodes \X Nodes
      BY <1>4 DEF Restart, TypeOK
    <2>2. active' \in Slots /\ cache' \in Slots /\ inbox' \in [Nodes -> SUBSET Packet]
      BY <1>4 DEF Restart, TypeOK, Slots
    <2>3. lost' \subseteq Nodes \X Nodes /\ forgot' \subseteq Nodes
      BY <1>4 DEF Restart, TypeOK
    <2> QED
      BY <1>4, <2>1, <2>2, <2>3 DEF Restart, TypeOK
  <1>8. ASSUME NEW n \in Nodes, RequestSporks(n)
        PROVE  TypeOK'
    <2>1. asks' \subseteq Nodes \X Nodes /\ lost' \subseteq Nodes \X Nodes
      BY <1>8 DEF RequestSporks, TypeOK
    <2>2. requests' \in 0 .. MaxRequests
      BY <1>8 DEF RequestSporks, TypeOK
    <2> QED
      BY <1>8, <2>1, <2>2 DEF RequestSporks, TypeOK
  <1>9. ASSUME NEW n \in Nodes, NEW pkt \in inbox[n], LoseSpork(n, pkt)
        PROVE  TypeOK'
    <2>1. pkt.from \in Nodes
      BY <1>9 DEF LoseSpork, TypeOK, Packet
    <2>2. lost' \subseteq Nodes \X Nodes /\ forgot' \subseteq Nodes
      BY <1>9, <2>1 DEF LoseSpork, Lose, TypeOK
    <2>3. inbox' \in [Nodes -> SUBSET Packet]
      BY <1>9 DEF LoseSpork, TypeOK
    <2> QED
      BY <1>9, <2>2, <2>3 DEF LoseSpork, TypeOK
  <1>10. ASSUME NEW n \in Nodes, NEW p \in Nodes, LoseAsk(n, p)
        PROVE  TypeOK'
    BY <1>10 DEF LoseAsk, Lose, TypeOK
  <1>5. CASE SignAny
    <2>1. PICK n \in Nodes, id \in Ids, v \in Values, k \in Keys, t \in 0 .. now + MaxAhead :
                Sign([id |-> id, value |-> v, time |-> t, key |-> k], n)
      BY <1>5, SporkAssumption DEF SignAny, SporkAssumption
    <2> DEFINE m == [id |-> id, value |-> v, time |-> t, key |-> k]
    <2>2. m \in Message
      BY DEF Message
    <2>3. [from |-> Signer, msg |-> m] \in Packet
      BY <2>2 DEF Packet
    <2> QED
      BY <2>1, <2>2, <2>3 DEF Sign, Signs, SporkAssumption, TypeOK
  <1>6. CASE Tick
    BY <1>6 DEF Tick, TypeOK
  <1>7. CASE UNCHANGED vars
    BY <1>7 DEF vars, TypeOK
  <1> QED
    BY <1>1, <1>2, <1>3, <1>4, <1>5, <1>6, <1>7, <1>8, <1>9, <1>10 DEF Next

\* The two spork maps, the stored records and the queues keep their types in
\* every behaviour, whatever is signed, lost, relayed or reloaded.
THEOREM SporkTypeCorrect == Spec => []TypeOK
  BY InitType, StepType, PTL DEF Spec

-----------------------------------------------------------------------------
(* The order between the p2p map, the Manager's map and the database.      *)

\* Every message a node holds or is about to receive was signed by now.
NoneFromFuture ==
    /\ \A n \in Nodes, id \in Ids :
        /\ cache[n][id] # None => cache[n][id].time <= now
        /\ active[n][id] # None => active[n][id].time <= now
        /\ db[n][id] # None => db[n][id].time <= now
    /\ \A n \in Nodes : \A pkt \in inbox[n] : pkt.msg.time <= now

\* UpdateSpork stores its spork unconditionally, so the order below survives it
\* only if no stored spork can be newer than the clock.
OrderInv ==
    /\ TypeOK
    /\ CacheNotAheadOfManager
    /\ DbNotAheadOfManager
    /\ MaxAhead = 0 => NoneFromFuture

\* storeAndRelayLocked writes one slot, in memory always, on disk perhaps.
LEMMA StoreAndRelayEffect ==
    ASSUME TypeOK, NEW n \in Nodes, NEW m \in Message, StoreAndRelay(n, m),
           NEW p \in Nodes, NEW i \in Ids
    PROVE  IF p = n /\ i = m.id
           THEN active'[p][i] = m /\ db'[p][i] \in {m, db[p][i]}
           ELSE active'[p][i] = active[p][i] /\ db'[p][i] = db[p][i]
  <1>1. /\ active \in [Nodes -> [Ids -> Message \cup {None}]]
        /\ db \in [Nodes -> [Ids -> Message \cup {None}]]
    BY DEF TypeOK, Slots
  <1> QED
    BY <1>1 DEF StoreAndRelay

\* ProcessMessage leaves every slot as it is, or replaces it, in memory and
\* perhaps on disk, by a strictly newer spork; and afterwards the Manager is not
\* behind a message under the current key.
LEMMA ProcessMessageEffect ==
    ASSUME TypeOK, NEW n \in Nodes, NEW m \in Message, ProcessMessage(n, m),
           NEW p \in Nodes, NEW i \in Ids
    PROVE  /\ \/ active'[p][i] = active[p][i] /\ db'[p][i] = db[p][i]
              \/ /\ p = n /\ i = m.id
                 /\ active'[p][i] = m /\ db'[p][i] \in {m, db[p][i]}
                 /\ Newer(active[p][i], m)
           /\ (p = n /\ i = m.id /\ i \in KnownIds /\ m.key = "new")
                => (active'[p][i] # None /\ active'[p][i].time >= m.time)
  <1>1. active[p][i] \in Message \cup {None}
    BY DEF TypeOK, Slots
  <1>2. m # None /\ m.time \in Int
    BY NoneAssumption DEF Message
  <1>3. active[p][i] # None => active[p][i].time \in Int
    BY <1>1 DEF Message
  <1>4. CASE AcceptedByManager(n, m)
    BY <1>2, <1>4, StoreAndRelayEffect DEF ProcessMessage, AcceptedByManager
  <1>5. CASE ~AcceptedByManager(n, m)
    BY <1>2, <1>3, <1>5 DEF ProcessMessage, AcceptedByManager, CheckSignature, Newer
  <1> QED
    BY <1>4, <1>5

\* A network of fresh nodes satisfies the ordering invariant.
LEMMA InitOrder == Init => OrderInv
  <1> SUFFICES ASSUME Init PROVE OrderInv
    OBVIOUS
  <1>1. \A n \in Nodes, id \in Ids :
            cache[n][id] = None /\ active[n][id] = None /\ db[n][id] = None
    BY DEF Init
  <1>2. CacheNotAheadOfManager
    BY <1>1, SporkAssumption DEF CacheNotAheadOfManager, SporkAssumption
  <1>3. DbNotAheadOfManager /\ NoneFromFuture
    BY <1>1 DEF DbNotAheadOfManager, NoneFromFuture, Init
  <1> QED
    BY <1>2, <1>3, InitType DEF OrderInv

\* What one step may do to the sporks in force.
NeverOlder ==
    \A n \in Nodes, id \in Ids :
        (active[n][id] # None /\ restarts' = restarts) =>
            (active'[n][id] # None /\ active'[n][id].time >= active[n][id].time)

\* Every step keeps the ordering invariant, and no running node steps back.
LEMMA StepOrder ==
    ASSUME Admins = {} \/ MaxAhead = 0, OrderInv, [Next]_vars
    PROVE  OrderInv' /\ NeverOlder
  <1>0. TypeOK /\ TypeOK'
    BY StepType DEF OrderInv
  <1>t. /\ \A n \in Nodes, id \in Ids :
            /\ cache[n][id] # None => cache[n][id] \in Message /\ cache[n][id].time \in Int
            /\ active[n][id] # None => active[n][id] \in Message /\ active[n][id].time \in Int
            /\ db[n][id] # None => db[n][id] \in Message /\ db[n][id].time \in Int
        /\ KnownIds \subseteq Ids
    BY <1>0, SporkAssumption DEF TypeOK, Slots, Message, SporkAssumption
  <1>1. ASSUME NEW n \in Nodes, NEW pkt \in inbox[n], HandleSpork(n, pkt)
        PROVE  OrderInv' /\ NeverOlder
    <2> DEFINE m == pkt.msg
    <2>1. m \in Message /\ m.id \in Ids /\ m.time \in Int /\ m # None
      BY <1>0, NoneAssumption DEF TypeOK, Packet, Message
    <2>2. \A p \in Nodes, i \in Ids :
            /\ \/ active'[p][i] = active[p][i] /\ db'[p][i] = db[p][i]
               \/ /\ p = n /\ i = m.id
                  /\ active'[p][i] = m /\ db'[p][i] \in {m, db[p][i]}
                  /\ Newer(active[p][i], m)
            /\ cache'[p][i] # cache[p][i] =>
                  /\ p = n /\ i = m.id /\ cache'[p][i] = m
                  /\ (i \in KnownIds /\ m.key = "new")
                        => (active'[p][i] # None /\ active'[p][i].time >= m.time)
      <3>1. CASE ValidateSporkSignature(m)
        <4>1. ProcessMessage(n, m)
          BY <1>1, <3>1 DEF HandleSpork
        <4>2. cache' \in {cache, [cache EXCEPT ![n][m.id] = m]}
          BY <1>1, <3>1 DEF HandleSpork
        <4>3. cache \in [Nodes -> [Ids -> Message \cup {None}]]
          BY <1>0 DEF TypeOK, Slots
        <4>4. \A p \in Nodes, i \in Ids :
                cache'[p][i] # cache[p][i] => p = n /\ i = m.id /\ cache'[p][i] = m
          BY <2>1, <4>2, <4>3
        <4> QED
          BY <1>0, <2>1, <4>1, <4>4, ProcessMessageEffect
      <3>2. CASE ~ValidateSporkSignature(m)
        BY <1>1, <3>2 DEF HandleSpork
      <3> QED
        BY <3>1, <3>2
    <2>3. NeverOlder /\ CacheNotAheadOfManager' /\ DbNotAheadOfManager'
      BY <1>t, <2>1, <2>2
      DEF OrderInv, NeverOlder, CacheNotAheadOfManager, DbNotAheadOfManager, Newer
    <2>4. ASSUME MaxAhead = 0 PROVE NoneFromFuture'
      <3>1. m.time <= now /\ now' = now
        BY <1>1, <2>4 DEF OrderInv, NoneFromFuture, HandleSpork
      <3>2. \A p \in Nodes : \A x \in inbox'[p] : x \in inbox[p] \/ x.msg = m
        <4>1. inbox \in [Nodes -> SUBSET Packet]
          BY <1>0 DEF TypeOK
        <4>2. Broadcast(n, m, pkt.from) \in [Nodes -> SUBSET Packet]
          BY <1>0, <2>1, BroadcastType
        <4>3. \A p \in Nodes : \A x \in Broadcast(n, m, pkt.from)[p] :
                x \in inbox[p] \/ x.msg = m
          BY DEF Broadcast
        <4> QED
          BY <1>1, <4>1, <4>2, <4>3 DEF HandleSpork
      <3> QED
        BY <2>2, <2>4, <3>1, <3>2 DEF OrderInv, NoneFromFuture
    <2> QED
      BY <1>0, <2>3, <2>4 DEF OrderInv
  <1>2. ASSUME NEW n \in Nodes, NEW p \in Nodes, HandleGetSporks(n, p)
        PROVE  OrderInv' /\ NeverOlder
    <2>1. NeverOlder /\ CacheNotAheadOfManager' /\ DbNotAheadOfManager'
      BY <1>2, <1>t DEF OrderInv, NeverOlder, CacheNotAheadOfManager,
                        DbNotAheadOfManager, HandleGetSporks
    <2>2. ASSUME MaxAhead = 0 PROVE NoneFromFuture'
      <3>1. inbox \in [Nodes -> SUBSET Packet]
        BY <1>0 DEF TypeOK
      <3>2. \A q \in Nodes : \A x \in inbox'[q] :
              x \in inbox[q] \/ \E id \in Ids : cache[n][id] # None /\ x.msg = cache[n][id]
        BY <1>2, <3>1 DEF HandleGetSporks
      <3> QED
        BY <1>2, <2>2, <3>2 DEF OrderInv, NoneFromFuture, HandleGetSporks
    <2> QED
      BY <1>0, <2>1, <2>2 DEF OrderInv
  <1>3. ASSUME NEW n \in Nodes, NEW id \in Ids, NEW v \in Values, UpdateSpork(n, id, v)
        PROVE  OrderInv' /\ NeverOlder
    <2> DEFINE m == [id |-> id, value |-> v, time |-> now, key |-> "new"]
    <2>1. m \in Message /\ m.time = now /\ m.id = id /\ m # None /\ now \in Int
      BY <1>0, NoneAssumption DEF Message, TypeOK
    <2>2. MaxAhead = 0 /\ NoneFromFuture
      BY <1>3 DEF UpdateSpork, OrderInv
    <2> HIDE DEF m
    <2>3. StoreAndRelay(n, m) /\ cache' = cache /\ inbox' = inbox /\ now' = now
      BY <1>3 DEF UpdateSpork, m
    <2>4. \A p \in Nodes, i \in Ids :
            IF p = n /\ i = id
            THEN active'[p][i] = m /\ db'[p][i] \in {m, db[p][i]}
            ELSE active'[p][i] = active[p][i] /\ db'[p][i] = db[p][i]
      BY <1>0, <2>1, <2>3, StoreAndRelayEffect
    <2>5. NeverOlder /\ CacheNotAheadOfManager' /\ DbNotAheadOfManager'
      BY <1>t, <2>1, <2>2, <2>3, <2>4
      DEF OrderInv, NeverOlder, CacheNotAheadOfManager, DbNotAheadOfManager, NoneFromFuture
    <2>6. NoneFromFuture'
      BY <1>t, <2>1, <2>2, <2>3, <2>4 DEF NoneFromFuture
    <2> QED
      BY <1>0, <2>5, <2>6 DEF OrderInv
  <1>4. ASSUME NEW n \in Nodes, Restart(n)
        PROVE  OrderInv' /\ NeverOlder
    <2>1. restarts' # restarts
      BY <1>0, <1>4 DEF Restart, TypeOK
    <2>2. \A p \in Nodes, i \in Ids :
            /\ db'[p][i] = db[p][i]
            /\ active'[p][i] = IF p = n THEN db[p][i] ELSE active[p][i]
            /\ cache'[p][i] = IF p = n THEN None ELSE cache[p][i]
      BY <1>0, <1>4 DEF Restart, TypeOK, Slots
    <2>3. NeverOlder /\ CacheNotAheadOfManager' /\ DbNotAheadOfManager'
      BY <1>t, <2>1, <2>2
      DEF OrderInv, NeverOlder, CacheNotAheadOfManager, DbNotAheadOfManager
    <2>4. ASSUME MaxAhead = 0 PROVE NoneFromFuture'
      <3>1. \A p \in Nodes : inbox'[p] \subseteq inbox[p]
        BY <1>0, <1>4 DEF Restart, TypeOK
      <3> QED
        BY <1>4, <2>2, <2>4, <3>1 DEF OrderInv, NoneFromFuture, Restart
    <2> QED
      BY <1>0, <2>3, <2>4 DEF OrderInv
  <1>5. CASE SignAny
    <2>1. PICK n \in Nodes, id \in Ids, v \in Values, k \in Keys, t \in 0 .. now + MaxAhead :
                Sign([id |-> id, value |-> v, time |-> t, key |-> k], n)
      BY <1>5, SporkAssumption DEF SignAny, SporkAssumption
    <2>2. NeverOlder /\ CacheNotAheadOfManager' /\ DbNotAheadOfManager'
      BY <1>t, <2>1 DEF OrderInv, NeverOlder, CacheNotAheadOfManager,
                        DbNotAheadOfManager, Sign
    <2>3. ASSUME MaxAhead = 0 PROVE NoneFromFuture'
      <3>1. t <= now
        BY <1>0, <2>3 DEF TypeOK
      <3>2. \A q \in Nodes : \A x \in inbox'[q] : x \in inbox[q] \/ x.msg.time = t
        BY <1>0, <2>1 DEF Sign, TypeOK
      <3> QED
        BY <2>1, <2>3, <3>1, <3>2 DEF OrderInv, NoneFromFuture, Sign
    <2> QED
      BY <1>0, <2>2, <2>3 DEF OrderInv
  <1>6. CASE Tick
    <2>1. NeverOlder /\ CacheNotAheadOfManager' /\ DbNotAheadOfManager'
      BY <1>t, <1>6 DEF OrderInv, NeverOlder, CacheNotAheadOfManager,
                        DbNotAheadOfManager, Tick
    <2>2. ASSUME MaxAhead = 0 PROVE NoneFromFuture'
      <3>1. \A n \in Nodes : \A pkt \in inbox[n] : pkt.msg.time \in Int
        BY <1>0 DEF TypeOK, Packet, Message
      <3>2. now \in Int /\ now' = now + 1
        BY <1>0, <1>6 DEF Tick, TypeOK
      <3> QED
        BY <1>t, <1>6, <2>2, <3>1, <3>2 DEF OrderInv, NoneFromFuture, Tick
    <2> QED
      BY <1>0, <2>1, <2>2 DEF OrderInv
  <1>7. CASE UNCHANGED vars
    BY <1>0, <1>t, <1>7 DEF vars, OrderInv, NeverOlder, CacheNotAheadOfManager,
                            DbNotAheadOfManager, NoneFromFuture
  \* The requests and the losses touch neither map.
  <1>8. ASSUME cache' = cache, active' = active, db' = db, now' = now,
               \A n \in Nodes : inbox'[n] \subseteq inbox[n]
        PROVE  OrderInv' /\ NeverOlder
    <2>1. NeverOlder /\ CacheNotAheadOfManager' /\ DbNotAheadOfManager'
      BY <1>t, <1>8 DEF OrderInv, NeverOlder, CacheNotAheadOfManager, DbNotAheadOfManager
    <2>2. MaxAhead = 0 => NoneFromFuture'
      BY <1>8 DEF OrderInv, NoneFromFuture
    <2> QED
      BY <1>0, <2>1, <2>2 DEF OrderInv
  <1>9. ASSUME NEW n \in Nodes, RequestSporks(n)
        PROVE  OrderInv' /\ NeverOlder
    BY <1>8, <1>9 DEF RequestSporks
  <1>10. ASSUME NEW n \in Nodes, NEW pkt \in inbox[n], LoseSpork(n, pkt)
         PROVE  OrderInv' /\ NeverOlder
    <2>1. \A p \in Nodes : inbox'[p] \subseteq inbox[p]
      BY <1>0, <1>10 DEF LoseSpork, TypeOK
    <2> QED
      BY <1>8, <1>10, <2>1 DEF LoseSpork
  <1>11. ASSUME NEW n \in Nodes, NEW p \in Nodes, LoseAsk(n, p)
         PROVE  OrderInv' /\ NeverOlder
    BY <1>8, <1>11 DEF LoseAsk
  <1> QED
    BY <1>1, <1>2, <1>3, <1>4, <1>5, <1>6, <1>7, <1>9, <1>10, <1>11 DEF Next

\* The Manager is never behind its p2p map for a known spork under the current
\* key, nor behind its database, provided nobody calls UpdateSpork or no message
\* is signed with a clock ahead of the node's.
THEOREM ManagerHoldsNewest ==
    ASSUME Admins = {} \/ MaxAhead = 0
    PROVE  Spec => []ManagerNotBehind
  <1>1. OrderInv /\ [Next]_vars => OrderInv'
    BY StepOrder
  <1>2. OrderInv => ManagerNotBehind
    BY DEF OrderInv, ManagerNotBehind
  <1> QED
    BY InitOrder, <1>1, <1>2, PTL DEF Spec

\* Under the same condition the spork in force is, while the process runs, only
\* ever replaced by one signed no earlier.
THEOREM ActiveNeverOlder ==
    ASSUME Admins = {} \/ MaxAhead = 0
    PROVE  Spec => MostRecentStaysActive
  <1>1. OrderInv /\ [Next]_vars => OrderInv' /\ [NeverOlder]_vars
    BY StepOrder
  <1>2. Spec => [][NeverOlder]_vars
    BY InitOrder, <1>1, PTL DEF Spec
  <1> QED
    BY <1>2 DEF MostRecentStaysActive, NeverOlder


-----------------------------------------------------------------------------
(* Relay: what the nodes of a quiet network have agreed on.                *)

\* The slot holds a spork signed at t or later.
AtLeast(slot, t) == slot # None /\ slot.time >= t

\* A packet that n sent and p will accept, under one of the keys, carries such a
\* spork to p.
Coming(n, p, id, t, keys) ==
    \E pkt \in inbox[p] :
        /\ pkt.from = n /\ pkt.msg.id = id /\ pkt.msg.key \in keys
        /\ t <= pkt.msg.time /\ pkt.msg.time <= now + Skew

\* No spork is queued and no getsporks is unanswered.
Quiet == asks = {} /\ \A n \in Nodes : inbox[n] = {}

\* The p2p map only holds messages that passed validateSporkSignature, each
\* under its own identifier.
CacheValid ==
    \A n \in Nodes, id \in Ids :
        cache[n][id] # None => /\ cache[n][id].id = id
                               /\ cache[n][id].time <= now + Skew
                               /\ cache[n][id].key \in {"new", "old"}

\* What a node has sent under the current key its own Manager holds, or a newer
\* one: the node a spork came from is rightly left out of the relay.
SenderHolds ==
    \A n \in Nodes : \A pkt \in inbox[n] :
        (pkt.from \in Nodes /\ pkt.msg.key = "new" /\ pkt.msg.id \in KnownIds)
            => AtLeast(active[pkt.from][pkt.msg.id], pkt.msg.time)

\* A node owes its neighbours each spork of its p2p map: their Managers hold it,
\* or it is queued for them, or they have yet to be answered, or something was
\* dropped on the way to them.
RelayOwed ==
    \A n \in Nodes : \A p \in Peers[n] : \A id \in KnownIds :
        (cache[n][id] # None /\ cache[n][id].key = "new") =>
            \/ AtLeast(active[p][id], cache[n][id].time)
            \/ Coming(n, p, id, cache[n][id].time, {"new"})
            \/ <<p, n>> \in asks
            \/ <<n, p>> \in lost

\* The relay survives a restart only because every spork in force was written.
RelayInv ==
    /\ OrderInv
    /\ db = active
    /\ CacheValid
    /\ SenderHolds
    /\ RelayOwed

\* Times are integers, and a message fills a slot.
LEMMA SlotFacts ==
    ASSUME TypeOK
    PROVE  /\ now \in Int /\ Skew \in Int
           /\ KnownIds \subseteq Ids
           /\ \A n \in Nodes : Peers[n] \subseteq Nodes
           /\ \A n \in Nodes, id \in Ids :
                /\ cache[n][id] # None => cache[n][id] \in Message /\ cache[n][id].time \in Int
                /\ active[n][id] # None => active[n][id] \in Message /\ active[n][id].time \in Int
           /\ \A n \in Nodes : \A pkt \in inbox[n] :
                /\ pkt.msg \in Message /\ pkt.msg # None
                /\ pkt.msg.id \in Ids /\ pkt.msg.time \in Int
                /\ pkt.msg.key \in {"new", "old", "bad"}
  BY SporkAssumption, NoneAssumption DEF TypeOK, Slots, Packet, Message, SporkAssumption

\* handleSpork takes one packet, and relays it exactly when it changes the map.
LEMMA HandleSporkQueues ==
    ASSUME TypeOK, NEW n \in Nodes, NEW pkt \in inbox[n], HandleSpork(n, pkt)
    PROVE  /\ now' = now /\ asks' = asks /\ lost' = lost
           /\ \A p \in Nodes : \A x \in inbox[p] :
                x \in inbox'[p] \/ (p = n /\ x = pkt)
           /\ \A p \in Nodes : \A x \in inbox'[p] :
                \/ x \in inbox[p]
                \/ /\ x = [from |-> n, msg |-> pkt.msg]
                   /\ p \in Peers[n] /\ cache'[n][pkt.msg.id] = pkt.msg
           /\ \A p \in Nodes, i \in Ids :
                \/ cache'[p][i] = cache[p][i]
                \/ /\ p = n /\ i = pkt.msg.id /\ cache'[p][i] = pkt.msg
                   /\ Newer(cache[p][i], pkt.msg) /\ ValidateSporkSignature(pkt.msg)
                   /\ \A q \in Peers[n] \ {pkt.from, n} :
                        [from |-> n, msg |-> pkt.msg] \in inbox'[q]
           /\ ValidateSporkSignature(pkt.msg) =>
                AtLeast(cache'[n][pkt.msg.id], pkt.msg.time)
  <1> DEFINE m == pkt.msg
             out == [from |-> n, msg |-> m]
  <1>1. /\ m.id \in Ids /\ m.time \in Int /\ m # None
        /\ cache[n][m.id] # None => cache[n][m.id].time \in Int
        /\ Peers[n] \subseteq Nodes
    BY SlotFacts
  <1>2. inbox \in [Nodes -> SUBSET Packet] /\ cache \in [Nodes -> [Ids -> Message \cup {None}]]
    BY DEF TypeOK, Slots
  <1>3. now' = now /\ asks' = asks /\ lost' = lost
    BY DEF HandleSpork
  <1>4. CASE ValidateSporkSignature(m) /\ Newer(cache[n][m.id], m)
    <2>1. /\ cache' = [cache EXCEPT ![n][m.id] = m]
          /\ inbox' = [Broadcast(n, m, pkt.from) EXCEPT ![n] = @ \ {pkt}]
      BY <1>4 DEF HandleSpork
    <2>2. \A p \in Nodes : Broadcast(n, m, pkt.from)[p] =
            IF p \in Peers[n] \ {pkt.from} THEN inbox[p] \cup {out} ELSE inbox[p]
      BY DEF Broadcast
    <2>3. Broadcast(n, m, pkt.from) = [p \in Nodes |-> Broadcast(n, m, pkt.from)[p]]
      BY DEF Broadcast
    <2>4. \A p \in Nodes : inbox'[p] =
            IF p = n THEN Broadcast(n, m, pkt.from)[p] \ {pkt} ELSE Broadcast(n, m, pkt.from)[p]
      BY <2>1, <2>3
    <2>5. \A p \in Nodes, i \in Ids :
            cache'[p][i] = IF p = n /\ i = m.id THEN m ELSE cache[p][i]
      BY <1>1, <1>2, <2>1
    <2> HIDE DEF m, out
    <2>6. /\ \A p \in Nodes : \A x \in inbox[p] : x \in inbox'[p] \/ (p = n /\ x = pkt)
          /\ \A p \in Nodes : \A x \in inbox'[p] : x \in inbox[p] \/ (x = out /\ p \in Peers[n])
          /\ \A q \in Peers[n] \ {pkt.from, n} : out \in inbox'[q]
      <3>1. \A p \in Nodes : \A x \in inbox[p] : x \in inbox'[p] \/ (p = n /\ x = pkt)
        BY <2>2, <2>4
      <3>2. \A p \in Nodes : \A x \in inbox'[p] : x \in inbox[p] \/ (x = out /\ p \in Peers[n])
        BY <2>2, <2>4
      <3>3. \A q \in Peers[n] \ {pkt.from, n} : out \in inbox'[q]
        BY <1>1, <2>2, <2>4
      <3> QED
        BY <3>1, <3>2, <3>3
    <2>7. AtLeast(cache'[n][m.id], m.time) /\ cache'[n][m.id] = m
      BY <1>1, <2>5 DEF AtLeast
    <2> QED
      BY <1>3, <1>4, <2>5, <2>6, <2>7 DEF m, out
  <1>5. CASE ValidateSporkSignature(m) /\ ~Newer(cache[n][m.id], m)
    <2>1. cache' = cache /\ inbox' = [inbox EXCEPT ![n] = @ \ {pkt}]
      BY <1>5 DEF HandleSpork
    <2>2. AtLeast(cache'[n][m.id], m.time)
      BY <1>1, <1>5, <2>1 DEF Newer, AtLeast
    <2> QED
      BY <1>2, <1>3, <2>1, <2>2
  <1>6. CASE ~ValidateSporkSignature(m)
    <2>1. cache' = cache /\ inbox' = [inbox EXCEPT ![n] = @ \ {pkt}]
      BY <1>6 DEF HandleSpork
    <2> QED
      BY <1>2, <1>3, <1>6, <2>1
  <1> QED
    BY <1>4, <1>5, <1>6


\* The network is symmetric: a connection has two ends.
Symmetric == \A n \in Nodes : \A p \in Peers[n] : n \in Peers[p]

\* When no write fails, memory and database stay equal, and so no step, not even
\* a restart, replaces a spork in force by an older one.
LEMMA ManagerKeeps ==
    ASSUME Admins = {} \/ MaxAhead = 0, ~WriteMayFail,
           OrderInv, db = active, [Next]_vars
    PROVE  /\ db' = active'
           /\ \A n \in Nodes, id \in Ids, t \in Int :
                AtLeast(active[n][id], t) => AtLeast(active'[n][id], t)
  <1>0. NeverOlder /\ TypeOK /\ TypeOK' /\ OrderInv'
    BY StepOrder DEF OrderInv
  <1>1. /\ \A n \in Nodes, id \in Ids : active[n][id] # None => active[n][id].time \in Int
        /\ active \in [Nodes -> [Ids -> Message \cup {None}]]
        /\ restarts \in Int
    BY <1>0, SlotFacts DEF TypeOK, Slots
  <1>2. \A n \in Nodes, id \in Ids :
            active'[n][id] # None => active'[n][id].time \in Int
    BY <1>0 DEF TypeOK, Slots, Message
  <1>3. CASE \E n \in Nodes : Restart(n)
    <2>1. active' = active /\ db' = db
      BY <1>1, <1>3 DEF Restart
    <2> QED
      BY <2>1
  <1>4. CASE ~\E n \in Nodes : Restart(n)
    <2>1. restarts' = restarts /\ db' = active'
      BY <1>4 DEF Next, HandleSpork, ProcessMessage, StoreAndRelay, HandleGetSporks,
                  UpdateSpork, RequestSporks, LoseSpork, LoseAsk, SignAny, Sign, Tick, vars
    <2> QED
      BY <1>0, <1>1, <1>2, <2>1 DEF NeverOlder, AtLeast
  <1> QED
    BY <1>3, <1>4

\* A network of fresh nodes owes nobody anything.
LEMMA InitRelay == Init => RelayInv
  <1> SUFFICES ASSUME Init PROVE RelayInv
    OBVIOUS
  <1>1. /\ \A n \in Nodes, id \in Ids : cache[n][id] = None
        /\ \A n \in Nodes : inbox[n] = {}
        /\ db = active /\ KnownIds \subseteq Ids
    BY SporkAssumption DEF Init, SporkAssumption
  <1> QED
    BY <1>1, InitOrder DEF RelayInv, CacheValid, SenderHolds, RelayOwed

\* Every step keeps the relay's invariant.
LEMMA StepRelay ==
    ASSUME Admins = {} \/ MaxAhead = 0, ~WriteMayFail, Symmetric,
           RelayInv, [Next]_vars
    PROVE  RelayInv'
  <1>0. OrderInv' /\ TypeOK /\ TypeOK' /\ db' = active'
    BY StepOrder, ManagerKeeps DEF RelayInv, OrderInv
  <1>a. \A n \in Nodes, id \in Ids, t \in Int :
            AtLeast(active[n][id], t) => AtLeast(active'[n][id], t)
    BY ManagerKeeps DEF RelayInv
  <1>f. /\ now \in Int /\ Skew \in Int
        /\ KnownIds \subseteq Ids
        /\ \A n \in Nodes : Peers[n] \subseteq Nodes
        /\ \A n \in Nodes, id \in Ids :
             cache[n][id] # None => cache[n][id] \in Message /\ cache[n][id].time \in Int
        /\ \A n \in Nodes : \A pkt \in inbox[n] :
             /\ pkt.msg \in Message /\ pkt.msg # None
             /\ pkt.msg.id \in Ids /\ pkt.msg.time \in Int
             /\ pkt.msg.key \in {"new", "old", "bad"}
    BY <1>0, SlotFacts
  <1>i. CacheValid /\ SenderHolds /\ RelayOwed /\ CacheNotAheadOfManager
    BY DEF RelayInv, OrderInv
  \* What does not touch the p2p maps only has to leave the queues alone.
  <1>q. ASSUME cache' = cache, asks \subseteq asks', lost' = lost, now' \in {now, now + 1},
               \A p \in Nodes : inbox[p] \subseteq inbox'[p],
               \A p \in Nodes : \A x \in inbox'[p] : x \in inbox[p] \/ x.from \notin Nodes
        PROVE  CacheValid' /\ SenderHolds' /\ RelayOwed'
    <2>1. CacheValid'
      BY <1>f, <1>i, <1>q DEF CacheValid
    <2>2. SenderHolds'
      BY <1>a, <1>f, <1>i, <1>q DEF SenderHolds
    <2>3. ASSUME NEW n \in Nodes, NEW p \in Peers[n], NEW id \in KnownIds,
                 cache'[n][id] # None, cache'[n][id].key = "new"
          PROVE  \/ AtLeast(active'[p][id], cache'[n][id].time)
                 \/ Coming(n, p, id, cache[n][id].time, {"new"})'
                 \/ <<p, n>> \in asks'
                 \/ <<n, p>> \in lost'
      <3>1. p \in Nodes /\ id \in Ids /\ cache[n][id].time \in Int
        BY <1>f, <1>q, <2>3
      <3>2. Coming(n, p, id, cache[n][id].time, {"new"})
                => Coming(n, p, id, cache[n][id].time, {"new"})'
        BY <1>f, <1>q, <3>1 DEF Coming
      <3> QED
        BY <1>a, <1>i, <1>q, <2>3, <3>1, <3>2 DEF RelayOwed
    <2> QED
      BY <2>1, <2>2, <2>3 DEF RelayOwed
  <1>1. ASSUME NEW n \in Nodes, NEW pkt \in inbox[n], HandleSpork(n, pkt)
        PROVE  RelayInv'
    <2> DEFINE m == pkt.msg
               out == [from |-> n, msg |-> m]
    <2>h. /\ now' = now /\ asks' = asks /\ lost' = lost
          /\ \A p \in Nodes : \A x \in inbox[p] : x \in inbox'[p] \/ (p = n /\ x = pkt)
          /\ \A p \in Nodes : \A x \in inbox'[p] :
                \/ x \in inbox[p]
                \/ x = out /\ p \in Peers[n] /\ cache'[n][m.id] = m
          /\ \A p \in Nodes, i \in Ids :
                \/ cache'[p][i] = cache[p][i]
                \/ /\ p = n /\ i = m.id /\ cache'[p][i] = m
                   /\ Newer(cache[p][i], m) /\ ValidateSporkSignature(m)
                   /\ \A q \in Peers[n] \ {pkt.from, n} : out \in inbox'[q]
      BY <1>0, <1>1, HandleSporkQueues
    <2>m. m \in Message /\ m # None /\ m.id \in Ids /\ m.time \in Int
      BY <1>f
    \* The Manager of n has seen what n took from its queue.
    <2>s. (ValidateSporkSignature(m) /\ m.key = "new" /\ m.id \in KnownIds)
            => AtLeast(active'[n][m.id], m.time)
      <3> SUFFICES ASSUME ValidateSporkSignature(m), m.key = "new", m.id \in KnownIds
                   PROVE  AtLeast(active'[n][m.id], m.time)
        OBVIOUS
      <3>1. ProcessMessage(n, m)
        BY <1>1 DEF HandleSpork
      <3> QED
        BY <1>0, <2>m, <3>1, ProcessMessageEffect DEF AtLeast
    <2>o. out.from = n /\ out.msg = m
      OBVIOUS
    <2> HIDE DEF m, out
    <2>1. CacheValid'
      BY <1>i, <2>h, <2>m DEF CacheValid, ValidateSporkSignature
    <2>2. SenderHolds'
      <3> SUFFICES ASSUME NEW p \in Nodes, NEW x \in inbox'[p],
                          x.from \in Nodes, x.msg.key = "new", x.msg.id \in KnownIds
                   PROVE  AtLeast(active'[x.from][x.msg.id], x.msg.time)
        BY DEF SenderHolds
      <3>1. CASE x \in inbox[p]
        BY <1>a, <1>f, <1>i, <3>1 DEF SenderHolds
      <3>2. CASE x = out /\ cache'[n][m.id] = m
        <4>1. m.key = "new" /\ m.id \in KnownIds
          BY <2>o, <3>2
        <4>2. AtLeast(active'[n][m.id], m.time)
          <5>1. CacheNotAheadOfManager'
            BY <1>0 DEF OrderInv
          <5> QED
            BY <2>m, <3>2, <4>1, <5>1 DEF CacheNotAheadOfManager, AtLeast
        <4> QED
          BY <2>o, <3>2, <4>2
      <3> QED
        BY <2>h, <3>1, <3>2
    <2>3. RelayOwed'
      <3> SUFFICES ASSUME NEW a \in Nodes, NEW p \in Peers[a], NEW id \in KnownIds,
                          cache'[a][id] # None, cache'[a][id].key = "new"
                   PROVE  \/ AtLeast(active'[p][id], cache'[a][id].time)
                          \/ Coming(a, p, id, cache[a][id].time, {"new"})'
                          \/ <<p, a>> \in asks'
                          \/ <<a, p>> \in lost'
        BY DEF RelayOwed
      <3>0. p \in Nodes /\ id \in Ids
        BY <1>f
      <3>1. CASE cache'[a][id] = cache[a][id]
        <4>1. cache[a][id].time \in Int
          BY <1>f, <3>0, <3>1
        <4>2. CASE \/ AtLeast(active[p][id], cache[a][id].time)
                   \/ <<p, a>> \in asks \/ <<a, p>> \in lost
          BY <1>a, <2>h, <3>0, <3>1, <4>1, <4>2
        <4>3. CASE Coming(a, p, id, cache[a][id].time, {"new"})
          <5>1. PICK x \in inbox[p] :
                  /\ x.from = a /\ x.msg.id = id /\ x.msg.key = "new"
                  /\ cache[a][id].time <= x.msg.time /\ x.msg.time <= now + Skew
            BY <4>3 DEF Coming
          <5>2. CASE x \in inbox'[p]
            BY <2>h, <3>1, <5>1, <5>2 DEF Coming
          <5>3. CASE p = n /\ x = pkt
            <6>1. x.msg = m
              BY <5>3 DEF m
            <6>2. AtLeast(active'[n][m.id], m.time)
              BY <2>s, <5>1, <6>1 DEF ValidateSporkSignature
            <6>3. AtLeast(active'[p][id], m.time)
              BY <5>1, <5>3, <6>1, <6>2
            <6>4. active'[p][id] # None => active'[p][id].time \in Int
              BY <1>0, <3>0 DEF TypeOK, Slots, Message
            <6> QED
              BY <2>m, <3>1, <4>1, <5>1, <6>1, <6>3, <6>4 DEF AtLeast
          <5> QED
            BY <2>h, <3>0, <5>2, <5>3
        <4> QED
          BY <1>i, <3>1, <4>2, <4>3 DEF RelayOwed
      <3>2. CASE cache'[a][id] # cache[a][id]
        <4>1. /\ a = n /\ id = m.id /\ cache'[a][id] = m
              /\ ValidateSporkSignature(m)
              /\ \A q \in Peers[n] \ {pkt.from, n} : out \in inbox'[q]
          BY <2>h, <3>0, <3>2
        <4>2. m.key = "new"
          BY <4>1
        <4>3. CASE p = n
          BY <2>s, <4>1, <4>2, <4>3
        <4>4. CASE p = pkt.from
          <5>1. AtLeast(active[p][id], m.time)
            BY <1>i, <3>0, <4>1, <4>2, <4>4 DEF SenderHolds, m
          <5> QED
            BY <1>a, <2>m, <3>0, <4>1, <5>1
        <4>5. CASE p # n /\ p # pkt.from
          <5>1. out \in inbox'[p]
            BY <4>1, <4>5
          <5>2. m.time <= now + Skew
            BY <4>1 DEF ValidateSporkSignature
          <5>3. cache'[a][id].time <= m.time
            BY <2>m, <4>1
          <5> QED
            BY <2>h, <2>o, <4>1, <4>2, <5>1, <5>2, <5>3 DEF Coming
        <4> QED
          BY <4>3, <4>4, <4>5
      <3> QED
        BY <3>1, <3>2
    <2> QED
      BY <1>0, <2>1, <2>2, <2>3 DEF RelayInv
  <1>2. ASSUME NEW n \in Nodes, NEW p \in Nodes, HandleGetSporks(n, p)
        PROVE  RelayInv'
    <2> DEFINE Reply == {[from |-> n, msg |-> cache[n][id]] :
                            id \in {i \in Ids : cache[n][i] # None}}
    <2>1. /\ now' = now /\ cache' = cache /\ active' = active
          /\ asks' = asks \ {<<p, n>>} /\ lost' = lost
          /\ \A q \in Nodes : inbox'[q] = IF q = p THEN inbox[q] \cup Reply ELSE inbox[q]
      BY <1>0, <1>2 DEF HandleGetSporks, TypeOK
    <2>2. \A x \in Reply : \E i \in Ids :
            x.from = n /\ cache[n][i] # None /\ x.msg = cache[n][i]
      OBVIOUS
    <2>3. \A i \in Ids : cache[n][i] # None =>
            \E x \in Reply : x.from = n /\ x.msg = cache[n][i]
      <3> TAKE i \in Ids
      <3> HAVE cache[n][i] # None
      <3> WITNESS [from |-> n, msg |-> cache[n][i]] \in Reply
      <3> QED
        OBVIOUS
    <2> HIDE DEF Reply
    \* A spork is filed under its own identifier.
    <2>4. \A a \in Nodes, i \in Ids : cache[a][i] # None => cache[a][i].id = i
      BY <1>i DEF CacheValid
    <2>5. CacheValid'
      BY <1>i, <2>1 DEF CacheValid
    <2>6. SenderHolds'
      <3> SUFFICES ASSUME NEW q \in Nodes, NEW x \in inbox'[q],
                          x.from \in Nodes, x.msg.key = "new", x.msg.id \in KnownIds
                   PROVE  AtLeast(active[x.from][x.msg.id], x.msg.time)
        BY <2>1 DEF SenderHolds
      <3>1. CASE x \in inbox[q]
        BY <1>i, <3>1 DEF SenderHolds
      <3>2. CASE x \in Reply
        <4>1. PICK i \in Ids : x.from = n /\ cache[n][i] # None /\ x.msg = cache[n][i]
          BY <2>2, <3>2
        <4>2. x.msg.id = i
          BY <2>4, <4>1
        <4> QED
          BY <1>i, <4>1, <4>2 DEF CacheNotAheadOfManager, AtLeast
      <3> QED
        BY <2>1, <3>1, <3>2
    <2>7. RelayOwed'
      <3> SUFFICES ASSUME NEW a \in Nodes, NEW q \in Peers[a], NEW id \in KnownIds,
                          cache[a][id] # None, cache[a][id].key = "new"
                   PROVE  \/ AtLeast(active[q][id], cache[a][id].time)
                          \/ Coming(a, q, id, cache[a][id].time, {"new"})'
                          \/ <<q, a>> \in asks'
                          \/ <<a, q>> \in lost'
        BY <2>1 DEF RelayOwed
      <3>0. q \in Nodes /\ id \in Ids
        BY <1>f
      <3>1. CASE AtLeast(active[q][id], cache[a][id].time)
        BY <3>1
      <3>2. CASE Coming(a, q, id, cache[a][id].time, {"new"})
        BY <2>1, <3>0, <3>2 DEF Coming
      <3>3. CASE (<<q, a>> \in asks /\ <<q, a>> # <<p, n>>) \/ <<a, q>> \in lost
        BY <2>1, <3>3
      <3>4. CASE <<q, a>> = <<p, n>>
        <4>1. q = p /\ a = n
          BY <3>4
        <4>2. PICK x \in Reply : x.from = n /\ x.msg = cache[a][id]
          BY <2>3, <3>0, <4>1
        <4>3. x \in inbox'[q]
          BY <2>1, <3>0, <4>1
        <4>4. cache[a][id].time <= now + Skew /\ cache[a][id].time \in Int
          BY <1>f, <1>i, <3>0 DEF CacheValid
        <4>5. cache[a][id].id = id
          BY <2>4, <3>0
        <4>6. Coming(a, q, id, cache[a][id].time, {"new"})'
          BY <2>1, <4>1, <4>2, <4>3, <4>4, <4>5 DEF Coming
        <4> QED
          BY <4>6
      <3> QED
        BY <1>i, <3>1, <3>2, <3>3, <3>4 DEF RelayOwed
    <2> QED
      BY <1>0, <2>5, <2>6, <2>7 DEF RelayInv
  <1>3. ASSUME NEW n \in Nodes, NEW id \in Ids, NEW v \in Values, UpdateSpork(n, id, v)
        PROVE  RelayInv'
    <2>1. cache' = cache /\ inbox' = inbox /\ asks' = asks /\ lost' = lost /\ now' = now
      BY <1>3 DEF UpdateSpork
    <2> QED
      BY <1>0, <1>q, <2>1 DEF RelayInv
  <1>4. ASSUME NEW n \in Nodes, Restart(n)
        PROVE  RelayInv'
    <2>1. /\ now' = now /\ asks \subseteq asks'
          /\ \A p \in Peers[n] : <<n, p>> \in asks' /\ <<p, n>> \in asks'
          /\ \A a, p \in Nodes : a # n /\ p # n => (<<a, p>> \in lost => <<a, p>> \in lost')
          /\ \A p \in Nodes : inbox'[p] = IF p = n THEN {} ELSE inbox[p]
          /\ \A p \in Nodes, i \in Ids :
                cache'[p][i] = IF p = n THEN None ELSE cache[p][i]
      BY <1>0, <1>4 DEF Restart, TypeOK, Slots
    <2>2. CacheValid'
      BY <1>i, <2>1 DEF CacheValid
    <2>3. SenderHolds'
      BY <1>a, <1>f, <1>i, <2>1 DEF SenderHolds
    <2>4. RelayOwed'
      <3> SUFFICES ASSUME NEW a \in Nodes, NEW p \in Peers[a], NEW id \in KnownIds,
                          cache'[a][id] # None, cache'[a][id].key = "new"
                   PROVE  \/ AtLeast(active'[p][id], cache'[a][id].time)
                          \/ Coming(a, p, id, cache[a][id].time, {"new"})'
                          \/ <<p, a>> \in asks'
                          \/ <<a, p>> \in lost'
        BY DEF RelayOwed
      <3>0. p \in Nodes /\ id \in Ids /\ a # n /\ cache'[a][id] = cache[a][id]
        BY <1>f, <2>1
      <3>1. CASE p = n
        BY <2>1, <3>0, <3>1 DEF Symmetric
      <3>2. CASE p # n
        <4>1. cache[a][id].time \in Int
          BY <1>f, <3>0
        <4>2. Coming(a, p, id, cache[a][id].time, {"new"})
                => Coming(a, p, id, cache[a][id].time, {"new"})'
          BY <2>1, <3>0, <3>2 DEF Coming
        <4> QED
          BY <1>a, <1>i, <2>1, <3>0, <3>2, <4>1, <4>2 DEF RelayOwed
      <3> QED
        BY <3>1, <3>2
    <2> QED
      BY <1>0, <2>2, <2>3, <2>4 DEF RelayInv
  <1>5. CASE SignAny
    <2>1. PICK n \in Nodes : \E m : Sign(m, n)
      BY <1>5, SporkAssumption DEF SignAny, SporkAssumption
    <2>m. PICK m : Sign(m, n)
      BY <2>1
    <2>2. /\ cache' = cache /\ asks' = asks /\ lost' = lost /\ now' = now
          /\ \A p \in Nodes : inbox'[p] =
                IF p = n THEN inbox[p] \cup {[from |-> Signer, msg |-> m]} ELSE inbox[p]
      BY <1>0, <2>m DEF Sign, TypeOK
    <2>3. [from |-> Signer, msg |-> m].from \notin Nodes
      BY SporkAssumption DEF SporkAssumption
    <2>4. /\ \A p \in Nodes : inbox[p] \subseteq inbox'[p]
          /\ \A p \in Nodes : \A x \in inbox'[p] : x \in inbox[p] \/ x.from \notin Nodes
      BY <2>2, <2>3
    <2> QED
      BY <1>0, <1>q, <2>2, <2>4 DEF RelayInv
  <1>6. CASE Tick
    <2>1. cache' = cache /\ inbox' = inbox /\ asks' = asks /\ lost' = lost /\ now' = now + 1
      BY <1>6 DEF Tick
    <2> QED
      BY <1>0, <1>q, <2>1 DEF RelayInv
  <1>7. CASE UNCHANGED vars
    <2>1. cache' = cache /\ inbox' = inbox /\ asks' = asks /\ lost' = lost /\ now' = now
      BY <1>7 DEF vars
    <2> QED
      BY <1>0, <1>q, <2>1 DEF RelayInv
  \* Whom a request is sent to is owed an answer instead of what was dropped.
  <1>8. ASSUME NEW n \in Nodes, RequestSporks(n)
        PROVE  RelayInv'
    <2>1. /\ now' = now /\ cache' = cache /\ inbox' = inbox /\ active' = active
          /\ asks \subseteq asks'
          /\ \A a, p \in Nodes : <<a, p>> \in lost =>
                <<a, p>> \in lost' \/ <<p, a>> \in asks'
      BY <1>8 DEF RequestSporks
    <2>2. CacheValid' /\ SenderHolds'
      BY <1>i, <2>1 DEF CacheValid, SenderHolds
    <2>3. RelayOwed'
      BY <1>f, <1>i, <2>1 DEF RelayOwed, Coming
    <2> QED
      BY <1>0, <2>2, <2>3 DEF RelayInv
  <1>9. ASSUME NEW n \in Nodes, NEW pkt \in inbox[n], LoseSpork(n, pkt)
        PROVE  RelayInv'
    <2>1. /\ now' = now /\ cache' = cache /\ active' = active /\ asks' = asks
          /\ lost \subseteq lost' /\ <<pkt.from, n>> \in lost'
          /\ \A p \in Nodes : \A x \in inbox[p] : x \in inbox'[p] \/ (p = n /\ x = pkt)
          /\ \A p \in Nodes : inbox'[p] \subseteq inbox[p]
      BY <1>0, <1>9 DEF LoseSpork, Lose, TypeOK
    <2>2. CacheValid' /\ SenderHolds'
      BY <1>i, <2>1 DEF CacheValid, SenderHolds
    <2>3. RelayOwed'
      <3> SUFFICES ASSUME NEW a \in Nodes, NEW p \in Peers[a], NEW id \in KnownIds,
                          cache[a][id] # None, cache[a][id].key = "new"
                   PROVE  \/ AtLeast(active[p][id], cache[a][id].time)
                          \/ Coming(a, p, id, cache[a][id].time, {"new"})'
                          \/ <<p, a>> \in asks
                          \/ <<a, p>> \in lost'
        BY <2>1 DEF RelayOwed
      <3>0. p \in Nodes /\ id \in Ids
        BY <1>f
      <3>1. CASE Coming(a, p, id, cache[a][id].time, {"new"})
        <4>1. PICK x \in inbox[p] :
                /\ x.from = a /\ x.msg.id = id /\ x.msg.key = "new"
                /\ cache[a][id].time <= x.msg.time /\ x.msg.time <= now + Skew
          BY <3>1 DEF Coming
        <4> QED
          BY <2>1, <3>0, <4>1 DEF Coming
      <3> QED
        BY <1>i, <2>1, <3>0, <3>1 DEF RelayOwed
    <2> QED
      BY <1>0, <2>2, <2>3 DEF RelayInv
  <1>10. ASSUME NEW n \in Nodes, NEW p \in Nodes, LoseAsk(n, p)
         PROVE  RelayInv'
    <2>1. /\ now' = now /\ cache' = cache /\ inbox' = inbox /\ active' = active
          /\ lost \subseteq lost' /\ <<n, p>> \in lost'
          /\ asks' = asks \ {<<p, n>>}
      BY <1>10 DEF LoseAsk, Lose
    <2>2. CacheValid' /\ SenderHolds'
      BY <1>i, <2>1 DEF CacheValid, SenderHolds
    <2>3. RelayOwed'
      BY <1>f, <1>i, <2>1 DEF RelayOwed, Coming
    <2> QED
      BY <1>0, <2>2, <2>3 DEF RelayInv
  <1> QED
    BY <1>1, <1>2, <1>3, <1>4, <1>5, <1>6, <1>7, <1>8, <1>9, <1>10 DEF Next

\* Restarts, drops on full queues and reordered packets included, no neighbour is
\* ever forgotten: what a node's p2p map holds under the current key, each
\* neighbour's Manager holds too, or the node has queued it for that neighbour, or
\* has a getsporks of that neighbour still to answer, or something was dropped on
\* that link that the neighbour has not asked for again.  broadcastSpork leaves out the
\* peer a spork came from, and handleSpork drops what is not new to the p2p map.
THEOREM NoNeighbourForgotten ==
    ASSUME Admins = {} \/ MaxAhead = 0, ~WriteMayFail, Symmetric
    PROVE  Spec => []RelayOwed
  <1>1. RelayInv /\ [Next]_vars => RelayInv'
    BY StepRelay
  <1>2. RelayInv => RelayOwed
    BY DEF RelayInv
  <1> QED
    BY InitRelay, <1>1, <1>2, PTL DEF Spec

\* The neighbours of a node that holds a spork, but those a drop has left untold,
\* have it in force, or a newer one.
NeighboursHold ==
    \A n \in Nodes : \A p \in Peers[n] : \A id \in KnownIds :
        (cache[n][id] # None /\ cache[n][id].key = "new" /\ <<n, p>> \notin lost)
            => AtLeast(active[p][id], cache[n][id].time)

\* Once nothing is queued and every getsporks is answered or dropped, every
\* neighbour has been told that no drop has left untold.
THEOREM QuietNeighboursHold ==
    ASSUME Admins = {} \/ MaxAhead = 0, ~WriteMayFail, Symmetric
    PROVE  Spec => [](Quiet => NeighboursHold)
  <1>1. RelayOwed /\ Quiet => NeighboursHold
    BY SporkAssumption DEF RelayOwed, Quiet, NeighboursHold, Coming, SporkAssumption
  <1> QED
    BY NoNeighbourForgotten, <1>1, PTL


-----------------------------------------------------------------------------
(* Relay through intermediate nodes.                                       *)

\* No set of nodes is cut off from the rest, whether by the network or by drops.
Connected ==
    \A S \in SUBSET Nodes :
        (S # {} /\ \A n \in S : \A p \in Peers[n] : <<n, p>> \notin lost => p \in S)
            => S = Nodes

\* What a node has sent its own p2p map holds, or a newer one.
SenderCaches ==
    \A n \in Nodes : \A pkt \in inbox[n] :
        pkt.from \in Nodes => AtLeast(cache[pkt.from][pkt.msg.id], pkt.msg.time)

\* What a node's p2p map holds its neighbours' maps hold, or it is queued, or they
\* have yet to be answered, or something was dropped on the way to them.
MapOwed ==
    \A n \in Nodes : \A p \in Peers[n] : \A id \in Ids :
        cache[n][id] # None =>
            \/ AtLeast(cache[p][id], cache[n][id].time)
            \/ Coming(n, p, id, cache[n][id].time, {"new", "old"})
            \/ <<p, n>> \in asks
            \/ <<n, p>> \in lost

\* While no node restarts, no p2p map loses a spork.
FloodInv ==
    /\ TypeOK
    /\ CacheValid
    /\ SenderCaches
    /\ MapOwed

\* A network of fresh nodes owes nobody anything.
LEMMA InitFlood == Init => FloodInv
  <1> SUFFICES ASSUME Init PROVE FloodInv
    OBVIOUS
  <1>1. /\ \A n \in Nodes, id \in Ids : cache[n][id] = None
        /\ \A n \in Nodes : inbox[n] = {}
    BY DEF Init
  <1> QED
    BY <1>1, InitType DEF FloodInv, CacheValid, SenderCaches, MapOwed

\* Every step but a restart keeps the flooding invariant.
LEMMA StepFlood ==
    ASSUME MaxRestarts = 0, FloodInv, [Next]_vars
    PROVE  FloodInv'
  <1>0. TypeOK /\ TypeOK'
    BY StepType DEF FloodInv
  <1>f. /\ now \in Int /\ Skew \in Int
        /\ \A n \in Nodes : Peers[n] \subseteq Nodes
        /\ \A n \in Nodes, id \in Ids : cache[n][id] # None => cache[n][id].time \in Int
        /\ \A n \in Nodes : \A pkt \in inbox[n] :
             /\ pkt.msg \in Message /\ pkt.msg # None
             /\ pkt.msg.id \in Ids /\ pkt.msg.time \in Int
    BY <1>0, SlotFacts
  <1>i. CacheValid /\ SenderCaches /\ MapOwed
    BY DEF FloodInv
  \* What does not touch the p2p maps only has to leave the queues alone.
  <1>q. ASSUME cache' = cache, asks' = asks, lost' = lost, now' \in {now, now + 1},
               \A p \in Nodes : inbox[p] \subseteq inbox'[p],
               \A p \in Nodes : \A x \in inbox'[p] : x \in inbox[p] \/ x.from \notin Nodes
        PROVE  FloodInv'
    <2>1. CacheValid' /\ SenderCaches'
      BY <1>f, <1>i, <1>q DEF CacheValid, SenderCaches
    <2>2. ASSUME NEW n \in Nodes, NEW p \in Peers[n], NEW id \in Ids, cache'[n][id] # None
          PROVE  \/ AtLeast(cache'[p][id], cache'[n][id].time)
                 \/ Coming(n, p, id, cache[n][id].time, {"new", "old"})'
                 \/ <<p, n>> \in asks' \/ <<n, p>> \in lost'
      <3>1. p \in Nodes
        BY <1>f
      <3>2. Coming(n, p, id, cache[n][id].time, {"new", "old"})
                => Coming(n, p, id, cache[n][id].time, {"new", "old"})'
        BY <1>f, <1>q, <3>1 DEF Coming
      <3> QED
        BY <1>i, <1>q, <2>2, <3>2 DEF MapOwed
    <2> QED
      BY <1>0, <1>i, <1>q, <2>1, <2>2 DEF FloodInv, MapOwed
  <1>1. ASSUME NEW n \in Nodes, NEW pkt \in inbox[n], HandleSpork(n, pkt)
        PROVE  FloodInv'
    <2> DEFINE m == pkt.msg
               out == [from |-> n, msg |-> m]
    <2>h. /\ now' = now /\ asks' = asks /\ lost' = lost
          /\ \A p \in Nodes : \A x \in inbox[p] : x \in inbox'[p] \/ (p = n /\ x = pkt)
          /\ \A p \in Nodes : \A x \in inbox'[p] :
                \/ x \in inbox[p]
                \/ x = out /\ p \in Peers[n] /\ cache'[n][m.id] = m
          /\ \A p \in Nodes, i \in Ids :
                \/ cache'[p][i] = cache[p][i]
                \/ /\ p = n /\ i = m.id /\ cache'[p][i] = m
                   /\ Newer(cache[p][i], m) /\ ValidateSporkSignature(m)
                   /\ \A q \in Peers[n] \ {pkt.from, n} : out \in inbox'[q]
          /\ ValidateSporkSignature(m) => AtLeast(cache'[n][m.id], m.time)
      BY <1>0, <1>1, HandleSporkQueues
    <2>m. m # None /\ m.id \in Ids /\ m.time \in Int
      BY <1>f
    <2>o. out.from = n /\ out.msg = m
      OBVIOUS
    <2>p. pkt.msg = m
      OBVIOUS
    <2> HIDE DEF m, out
    \* Maps only move forward.
    <2>c. \A p \in Nodes, i \in Ids, t \in Int :
            AtLeast(cache[p][i], t) => AtLeast(cache'[p][i], t)
      BY <1>f, <2>h, <2>m DEF Newer, AtLeast
    <2>1. CacheValid'
      BY <1>i, <2>h, <2>m DEF CacheValid, ValidateSporkSignature
    <2>2. SenderCaches'
      <3> SUFFICES ASSUME NEW p \in Nodes, NEW x \in inbox'[p], x.from \in Nodes
                   PROVE  AtLeast(cache'[x.from][x.msg.id], x.msg.time)
        BY DEF SenderCaches
      <3>1. CASE x \in inbox[p]
        BY <1>f, <1>i, <2>c, <3>1 DEF SenderCaches
      <3>2. CASE x = out /\ cache'[n][m.id] = m
        BY <2>m, <2>o, <3>2 DEF AtLeast
      <3> QED
        BY <2>h, <3>1, <3>2
    <2>3. MapOwed'
      <3> SUFFICES ASSUME NEW a \in Nodes, NEW p \in Peers[a], NEW id \in Ids,
                          cache'[a][id] # None
                   PROVE  \/ AtLeast(cache'[p][id], cache'[a][id].time)
                          \/ Coming(a, p, id, cache[a][id].time, {"new", "old"})'
                          \/ <<p, a>> \in asks' \/ <<a, p>> \in lost'
        BY DEF MapOwed
      <3>0. p \in Nodes
        BY <1>f
      <3>1. CASE cache'[a][id] = cache[a][id]
        <4>1. cache[a][id].time \in Int
          BY <1>f, <3>1
        <4>2. CASE \/ AtLeast(cache[p][id], cache[a][id].time)
                   \/ <<p, a>> \in asks \/ <<a, p>> \in lost
          BY <2>c, <2>h, <3>0, <3>1, <4>1, <4>2
        <4>3. CASE Coming(a, p, id, cache[a][id].time, {"new", "old"})
          <5>1. PICK x \in inbox[p] :
                  /\ x.from = a /\ x.msg.id = id /\ x.msg.key \in {"new", "old"}
                  /\ cache[a][id].time <= x.msg.time /\ x.msg.time <= now + Skew
            BY <4>3 DEF Coming
          <5>2. CASE x \in inbox'[p]
            BY <2>h, <3>1, <5>1, <5>2 DEF Coming
          <5>3. CASE p = n /\ x = pkt
            <6>1. x.msg = m
              BY <2>p, <5>3
            <6>2. AtLeast(cache'[p][id], m.time)
              BY <2>h, <5>1, <5>3, <6>1 DEF ValidateSporkSignature
            <6>3. cache'[p][id] # None => cache'[p][id].time \in Int
              BY <1>0, <3>0 DEF TypeOK, Slots, Message
            <6> QED
              BY <2>m, <3>1, <4>1, <5>1, <6>1, <6>2, <6>3 DEF AtLeast
          <5> QED
            BY <2>h, <3>0, <5>2, <5>3
        <4> QED
          BY <1>i, <3>1, <4>2, <4>3 DEF MapOwed
      <3>2. CASE cache'[a][id] # cache[a][id]
        <4>1. /\ a = n /\ id = m.id /\ cache'[a][id] = m
              /\ ValidateSporkSignature(m)
              /\ \A q \in Peers[n] \ {pkt.from, n} : out \in inbox'[q]
          BY <2>h, <3>2
        <4>2. CASE p = n
          BY <2>m, <4>1, <4>2 DEF AtLeast
        <4>3. CASE p = pkt.from
          <5>1. AtLeast(cache[p][id], m.time)
            BY <1>i, <2>p, <3>0, <4>1, <4>3 DEF SenderCaches
          <5> QED
            BY <2>c, <2>m, <3>0, <4>1, <5>1
        <4>4. CASE p # n /\ p # pkt.from
          <5>1. out \in inbox'[p]
            BY <4>1, <4>4
          <5>2. m.time <= now + Skew /\ m.key \in {"new", "old"}
            BY <4>1 DEF ValidateSporkSignature
          <5>3. cache'[a][id].time <= m.time
            BY <2>m, <4>1
          <5> QED
            BY <2>h, <2>o, <4>1, <5>1, <5>2, <5>3 DEF Coming
        <4> QED
          BY <4>2, <4>3, <4>4
      <3> QED
        BY <3>1, <3>2
    <2> QED
      BY <1>0, <1>i, <2>h, <2>1, <2>2, <2>3 DEF FloodInv
  <1>2. ASSUME NEW n \in Nodes, NEW p \in Nodes, HandleGetSporks(n, p)
        PROVE  FloodInv'
    <2> DEFINE Reply == {[from |-> n, msg |-> cache[n][id]] :
                            id \in {i \in Ids : cache[n][i] # None}}
    <2>1. /\ now' = now /\ cache' = cache /\ asks' = asks \ {<<p, n>>} /\ lost' = lost
          /\ \A q \in Nodes : inbox'[q] = IF q = p THEN inbox[q] \cup Reply ELSE inbox[q]
      BY <1>0, <1>2 DEF HandleGetSporks, TypeOK
    <2>2. \A x \in Reply : \E i \in Ids :
            x.from = n /\ cache[n][i] # None /\ x.msg = cache[n][i]
      OBVIOUS
    <2>3. \A i \in Ids : cache[n][i] # None =>
            \E x \in Reply : x.from = n /\ x.msg = cache[n][i]
      <3> TAKE i \in Ids
      <3> HAVE cache[n][i] # None
      <3> WITNESS [from |-> n, msg |-> cache[n][i]] \in Reply
      <3> QED
        OBVIOUS
    <2> HIDE DEF Reply
    <2>4. \A a \in Nodes, i \in Ids : cache[a][i] # None => cache[a][i].id = i
      BY <1>i DEF CacheValid
    <2>5. CacheValid'
      BY <1>i, <2>1 DEF CacheValid
    <2>6. SenderCaches'
      <3> SUFFICES ASSUME NEW q \in Nodes, NEW x \in inbox'[q], x.from \in Nodes
                   PROVE  AtLeast(cache[x.from][x.msg.id], x.msg.time)
        BY <2>1 DEF SenderCaches
      <3>1. CASE x \in inbox[q]
        BY <1>i, <3>1 DEF SenderCaches
      <3>2. CASE x \in Reply
        <4>1. PICK i \in Ids : x.from = n /\ cache[n][i] # None /\ x.msg = cache[n][i]
          BY <2>2, <3>2
        <4>2. x.msg.id = i /\ cache[n][i].time \in Int
          BY <1>f, <2>4, <4>1
        <4> QED
          BY <4>1, <4>2 DEF AtLeast
      <3> QED
        BY <2>1, <3>1, <3>2
    <2>7. MapOwed'
      <3> SUFFICES ASSUME NEW a \in Nodes, NEW q \in Peers[a], NEW id \in Ids,
                          cache[a][id] # None
                   PROVE  \/ AtLeast(cache[q][id], cache[a][id].time)
                          \/ Coming(a, q, id, cache[a][id].time, {"new", "old"})'
                          \/ <<q, a>> \in asks' \/ <<a, q>> \in lost'
        BY <2>1 DEF MapOwed
      <3>0. q \in Nodes
        BY <1>f
      <3>1. CASE Coming(a, q, id, cache[a][id].time, {"new", "old"})
        BY <2>1, <3>0, <3>1 DEF Coming
      <3>2. CASE <<q, a>> = <<p, n>>
        <4>1. q = p /\ a = n
          BY <3>2
        <4>2. PICK x \in Reply : x.from = n /\ x.msg = cache[a][id]
          BY <2>3, <4>1
        <4>3. x \in inbox'[q]
          BY <2>1, <3>0, <4>1
        <4>4. /\ cache[a][id].time <= now + Skew /\ cache[a][id].time \in Int
              /\ cache[a][id].key \in {"new", "old"}
          BY <1>f, <1>i DEF CacheValid
        <4>5. cache[a][id].id = id
          BY <2>4
        <4> QED
          BY <2>1, <4>1, <4>2, <4>3, <4>4, <4>5 DEF Coming
      <3>3. CASE <<q, a>> # <<p, n>>
        BY <1>i, <2>1, <3>1, <3>3 DEF MapOwed
      <3> QED
        BY <3>2, <3>3
    <2> QED
      BY <1>0, <2>5, <2>6, <2>7 DEF FloodInv
  <1>3. ASSUME NEW n \in Nodes, NEW id \in Ids, NEW v \in Values, UpdateSpork(n, id, v)
        PROVE  FloodInv'
    <2>1. cache' = cache /\ inbox' = inbox /\ asks' = asks /\ lost' = lost /\ now' = now
      BY <1>3 DEF UpdateSpork
    <2> QED
      BY <1>q, <2>1
  <1>4. ASSUME NEW n \in Nodes, Restart(n)
        PROVE  FALSE
    BY <1>0, <1>4 DEF Restart, TypeOK
  <1>5. CASE SignAny
    <2>1. PICK n \in Nodes : \E m : Sign(m, n)
      BY <1>5, SporkAssumption DEF SignAny, SporkAssumption
    <2>m. PICK m : Sign(m, n)
      BY <2>1
    <2>2. /\ cache' = cache /\ asks' = asks /\ lost' = lost /\ now' = now
          /\ \A p \in Nodes : inbox'[p] =
                IF p = n THEN inbox[p] \cup {[from |-> Signer, msg |-> m]} ELSE inbox[p]
      BY <1>0, <2>m DEF Sign, TypeOK
    <2>3. [from |-> Signer, msg |-> m].from \notin Nodes
      BY SporkAssumption DEF SporkAssumption
    <2>4. /\ \A p \in Nodes : inbox[p] \subseteq inbox'[p]
          /\ \A p \in Nodes : \A x \in inbox'[p] : x \in inbox[p] \/ x.from \notin Nodes
      BY <2>2, <2>3
    <2> QED
      BY <1>q, <2>2, <2>4
  <1>6. CASE Tick
    <2>1. cache' = cache /\ inbox' = inbox /\ asks' = asks /\ lost' = lost /\ now' = now + 1
      BY <1>6 DEF Tick
    <2> QED
      BY <1>q, <2>1
  <1>7. CASE UNCHANGED vars
    <2>1. cache' = cache /\ inbox' = inbox /\ asks' = asks /\ lost' = lost /\ now' = now
      BY <1>7 DEF vars
    <2> QED
      BY <1>q, <2>1
  <1>8. ASSUME NEW n \in Nodes, RequestSporks(n)
        PROVE  FloodInv'
    <2>1. /\ now' = now /\ cache' = cache /\ inbox' = inbox
          /\ asks \subseteq asks'
          /\ \A a, p \in Nodes : <<a, p>> \in lost =>
                <<a, p>> \in lost' \/ <<p, a>> \in asks'
      BY <1>8 DEF RequestSporks
    <2>2. CacheValid' /\ SenderCaches'
      BY <1>i, <2>1 DEF CacheValid, SenderCaches
    <2>3. MapOwed'
      BY <1>f, <1>i, <2>1 DEF MapOwed, Coming
    <2> QED
      BY <1>0, <2>2, <2>3 DEF FloodInv
  <1>9. ASSUME NEW n \in Nodes, NEW pkt \in inbox[n], LoseSpork(n, pkt)
        PROVE  FloodInv'
    <2>1. /\ now' = now /\ cache' = cache /\ asks' = asks
          /\ lost \subseteq lost' /\ <<pkt.from, n>> \in lost'
          /\ \A p \in Nodes : \A x \in inbox[p] : x \in inbox'[p] \/ (p = n /\ x = pkt)
          /\ \A p \in Nodes : inbox'[p] \subseteq inbox[p]
      BY <1>0, <1>9 DEF LoseSpork, Lose, TypeOK
    <2>2. CacheValid' /\ SenderCaches'
      BY <1>i, <2>1 DEF CacheValid, SenderCaches
    <2>3. MapOwed'
      <3> SUFFICES ASSUME NEW a \in Nodes, NEW p \in Peers[a], NEW id \in Ids,
                          cache[a][id] # None
                   PROVE  \/ AtLeast(cache[p][id], cache[a][id].time)
                          \/ Coming(a, p, id, cache[a][id].time, {"new", "old"})'
                          \/ <<p, a>> \in asks \/ <<a, p>> \in lost'
        BY <2>1 DEF MapOwed
      <3>0. p \in Nodes
        BY <1>f
      <3>1. CASE Coming(a, p, id, cache[a][id].time, {"new", "old"})
        <4>1. PICK x \in inbox[p] :
                /\ x.from = a /\ x.msg.id = id /\ x.msg.key \in {"new", "old"}
                /\ cache[a][id].time <= x.msg.time /\ x.msg.time <= now + Skew
          BY <3>1 DEF Coming
        <4> QED
          BY <2>1, <3>0, <4>1 DEF Coming
      <3> QED
        BY <1>i, <2>1, <3>0, <3>1 DEF MapOwed
    <2> QED
      BY <1>0, <2>2, <2>3 DEF FloodInv
  <1>10. ASSUME NEW n \in Nodes, NEW p \in Nodes, LoseAsk(n, p)
         PROVE  FloodInv'
    <2>1. /\ now' = now /\ cache' = cache /\ inbox' = inbox
          /\ lost \subseteq lost' /\ <<n, p>> \in lost'
          /\ asks' = asks \ {<<p, n>>}
      BY <1>10 DEF LoseAsk, Lose
    <2>2. CacheValid' /\ SenderCaches'
      BY <1>i, <2>1 DEF CacheValid, SenderCaches
    <2>3. MapOwed'
      BY <1>f, <1>i, <2>1 DEF MapOwed, Coming
    <2> QED
      BY <1>0, <2>2, <2>3 DEF FloodInv
  <1> QED
    BY <1>1, <1>2, <1>3, <1>4, <1>5, <1>6, <1>7, <1>8, <1>9, <1>10 DEF Next

\* All p2p maps hold a spork signed at the same time.
MapsAgree ==
    \A n, p \in Nodes, id \in Ids :
        cache[n][id] # None => AtLeast(cache[p][id], cache[n][id].time)

\* While all nodes keep running, once nothing is queued the p2p maps of all nodes
\* agree, whichever keys signed, if the links without drops connect them:
\* rebroadcasting only what is new, and never back to where it came from, is
\* enough to reach everyone on whatever way is left, and so is one later request.
THEOREM QuietMapsAgree ==
    ASSUME MaxRestarts = 0
    PROVE  Spec => [](Quiet /\ Connected => MapsAgree)
  <1>1. FloodInv /\ [Next]_vars => FloodInv'
    BY StepFlood
  <1>2. ASSUME FloodInv, Quiet, Connected
        PROVE  MapsAgree
    <2> SUFFICES ASSUME NEW n \in Nodes, NEW id \in Ids, cache[n][id] # None
                 PROVE  \A p \in Nodes : AtLeast(cache[p][id], cache[n][id].time)
      BY DEF MapsAgree
    <2> DEFINE t == cache[n][id].time
               Told == {p \in Nodes : AtLeast(cache[p][id], t)}
    <2>1. /\ \A p \in Nodes : Peers[p] \subseteq Nodes
          /\ \A p \in Nodes : cache[p][id] # None => cache[p][id].time \in Int
      BY <1>2, SlotFacts DEF FloodInv
    <2>2. n \in Told
      BY <2>1 DEF AtLeast
    <2>3. ASSUME NEW p \in Told
          PROVE  \A q \in Peers[p] : <<p, q>> \notin lost => q \in Told
      <3> SUFFICES ASSUME NEW q \in Peers[p], <<p, q>> \notin lost
                   PROVE  AtLeast(cache[q][id], t)
        BY <2>1
      <3>1. AtLeast(cache[q][id], cache[p][id].time)
        BY <1>2, <2>1 DEF FloodInv, MapOwed, Coming, Quiet, AtLeast
      <3> QED
        BY <2>1, <3>1 DEF AtLeast
    <2>4. Told = Nodes
      BY <1>2, <2>2, <2>3 DEF Connected
    <2> QED
      BY <2>4
  <1> QED
    BY InitFlood, <1>1, <1>2, PTL DEF Spec

\* Every Manager holds what some p2p map holds, or a newer spork.
ManagersHold ==
    \A n, p \in Nodes, id \in KnownIds :
        cache[n][id] # None => AtLeast(active[p][id], cache[n][id].time)

\* Nothing is signed with the old key, so no p2p map holds such a spork.
NoOldKey ==
    /\ \A n \in Nodes, id \in Ids : cache[n][id] # None => cache[n][id].key # "old"
    /\ \A n \in Nodes : \A pkt \in inbox[n] : pkt.msg.key # "old"

\* Without old-key signatures there are none in maps and queues.
LEMMA OldKeyStep ==
    ASSUME "old" \notin Keys, TypeOK, NoOldKey, [Next]_vars
    PROVE  NoOldKey'
  <1>1. ASSUME NEW n \in Nodes, NEW pkt \in inbox[n], HandleSpork(n, pkt)
        PROVE  NoOldKey'
    <2> DEFINE m == pkt.msg
               out == [from |-> n, msg |-> m]
    <2>0. /\ \A p \in Nodes : \A x \in inbox'[p] :
                \/ x \in inbox[p]
                \/ x = out /\ p \in Peers[n] /\ cache'[n][m.id] = m
          /\ \A p \in Nodes, i \in Ids :
                \/ cache'[p][i] = cache[p][i]
                \/ /\ p = n /\ i = m.id /\ cache'[p][i] = m
                   /\ Newer(cache[p][i], m) /\ ValidateSporkSignature(m)
                   /\ \A q \in Peers[n] \ {pkt.from, n} : out \in inbox'[q]
      BY <1>1, HandleSporkQueues
    <2>2. m.key # "old" /\ out.msg = m
      BY DEF NoOldKey
    <2> HIDE DEF m, out
    <2>1. /\ \A p \in Nodes : \A x \in inbox'[p] : x \in inbox[p] \/ x = out
          /\ \A p \in Nodes, i \in Ids :
                cache'[p][i] = cache[p][i] \/ cache'[p][i] = m
      BY <2>0
    <2> QED
      BY <2>1, <2>2 DEF NoOldKey
  <1>2. ASSUME NEW n \in Nodes, NEW p \in Nodes, HandleGetSporks(n, p)
        PROVE  NoOldKey'
    <2>1. inbox \in [Nodes -> SUBSET Packet]
      BY DEF TypeOK
    <2>2. \A q \in Nodes : \A x \in inbox'[q] :
            x \in inbox[q] \/ \E id \in Ids : cache[n][id] # None /\ x.msg = cache[n][id]
      BY <1>2, <2>1 DEF HandleGetSporks
    <2> QED
      BY <1>2, <2>2 DEF NoOldKey, HandleGetSporks
  <1>3. ASSUME NEW n \in Nodes, NEW id \in Ids, NEW v \in Values, UpdateSpork(n, id, v)
        PROVE  NoOldKey'
    BY <1>3 DEF NoOldKey, UpdateSpork
  <1>4. ASSUME NEW n \in Nodes, Restart(n)
        PROVE  NoOldKey'
    <2>1. /\ \A p \in Nodes : inbox'[p] \subseteq inbox[p]
          /\ \A p \in Nodes, i \in Ids : cache'[p][i] \in {None, cache[p][i]}
      BY <1>4 DEF Restart, TypeOK, Slots
    <2> QED
      BY <2>1 DEF NoOldKey
  <1>5. CASE SignAny
    <2>1. PICK n \in Nodes, id \in Ids, v \in Values, k \in Keys, t \in 0 .. now + MaxAhead :
                Sign([id |-> id, value |-> v, time |-> t, key |-> k], n)
      BY <1>5, SporkAssumption DEF SignAny, SporkAssumption
    <2>2. \A q \in Nodes : \A x \in inbox'[q] : x \in inbox[q] \/ x.msg.key = k
      BY <2>1 DEF Sign, TypeOK
    <2> QED
      BY <2>1, <2>2 DEF NoOldKey, Sign
  <1>6. CASE Tick \/ UNCHANGED vars
    BY <1>6 DEF NoOldKey, Tick, vars
  <1>7. ASSUME NEW n \in Nodes, RequestSporks(n)
        PROVE  NoOldKey'
    BY <1>7 DEF NoOldKey, RequestSporks
  <1>8. ASSUME NEW n \in Nodes, NEW pkt \in inbox[n], LoseSpork(n, pkt)
        PROVE  NoOldKey'
    <2>1. \A p \in Nodes : inbox'[p] \subseteq inbox[p]
      BY <1>8 DEF LoseSpork, TypeOK
    <2> QED
      BY <1>8, <2>1 DEF NoOldKey, LoseSpork
  <1>9. ASSUME NEW n \in Nodes, NEW p \in Nodes, LoseAsk(n, p)
        PROVE  NoOldKey'
    BY <1>9 DEF NoOldKey, LoseAsk
  <1> QED
    BY <1>1, <1>2, <1>3, <1>4, <1>5, <1>6, <1>7, <1>8, <1>9 DEF Next

\* After the change of keys, while all nodes keep running: once nothing is queued
\* and the links without drops connect the nodes, a spork any p2p map holds, or a
\* newer one, is in force on every node.  With two keys it need not be: an old-key spork the Managers have
\* refused can keep a new-key one from being relayed.
THEOREM QuietManagersHold ==
    ASSUME MaxRestarts = 0, "old" \notin Keys, Admins = {} \/ MaxAhead = 0
    PROVE  Spec => [](Quiet /\ Connected => ManagersHold)
  <1>1. Spec => []NoOldKey
    <2>1. Init => NoOldKey
      BY DEF Init, NoOldKey
    <2>2. TypeOK /\ NoOldKey /\ [Next]_vars => NoOldKey'
      BY OldKeyStep
    <2> QED
      BY SporkTypeCorrect, <2>1, <2>2, PTL DEF Spec
  <1>2. Spec => []FloodInv
    <2>1. FloodInv /\ [Next]_vars => FloodInv'
      BY StepFlood
    <2> QED
      BY InitFlood, <2>1, PTL DEF Spec
  <1>3. ASSUME NoOldKey, FloodInv, MapsAgree, ManagerNotBehind
        PROVE  ManagersHold
    <2> SUFFICES ASSUME NEW n \in Nodes, NEW p \in Nodes, NEW id \in KnownIds,
                        cache[n][id] # None
                 PROVE  AtLeast(active[p][id], cache[n][id].time)
      BY DEF ManagersHold
    <2>1. /\ id \in Ids
          /\ \A a \in Nodes : cache[a][id] # None => cache[a][id].time \in Int
          /\ \A a \in Nodes : active[a][id] # None => active[a][id].time \in Int
      BY <1>3, SlotFacts DEF FloodInv
    <2>2. AtLeast(cache[p][id], cache[n][id].time)
      BY <1>3, <2>1 DEF MapsAgree
    <2>3. cache[p][id].key = "new"
      BY <1>3, <2>1, <2>2 DEF FloodInv, CacheValid, NoOldKey, AtLeast
    <2> QED
      BY <1>3, <2>1, <2>2, <2>3 DEF ManagerNotBehind, CacheNotAheadOfManager, AtLeast
  <1> QED
    BY QuietMapsAgree, ManagerHoldsNewest, <1>1, <1>2, <1>3, PTL
=============================================================================
