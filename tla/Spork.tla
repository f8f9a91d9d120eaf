------------------------------- MODULE Spork -------------------------------
(***************************************************************************)
(* Sporks: signed network-wide switches.  A TWINS node keeps them twice:   *)
(*   - the p2p server's SporkManager (internal/p2p/handlers_advanced.go),  *)
(*     a volatile map that decides what is relayed and what is served to   *)
(*     a peer's getsporks;                                                 *)
(*   - the global Manager (internal/spork), which the consensus rules read *)
(*     and which writes through to the database and reloads from it.       *)
(* The two apply different acceptance rules to the same message.           *)
(*                                                                         *)
(* A message carries the key that signed it instead of signature bytes.    *)
(* Nodes share one clock; a signer's clock may run MaxAhead ahead of it.   *)
(* Queues are lossy: what SendMessage, the write loop or the dispatcher    *)
(* drops when a queue is full or a write keeps failing is dropped by Lose. *)
(* Left out: the received map (written, never read), the names and default *)
(* values of sporks, and the 64-byte development signature format.         *)
(***************************************************************************)
EXTENDS Integers, FiniteSets

CONSTANTS
    Nodes,          \* the TWINS-go nodes
    Peers,          \* Peers[n]: the nodes n is connected to
    Signer,         \* the peer the holder of the spork key injects through
    Entries,        \* the nodes that peer is connected to
    Ids,            \* spork identifiers a message may carry
    KnownIds,       \* the identifiers isValidSporkID accepts
    Values,         \* spork values
    Keys,           \* the keys messages are signed with in this instance
    Admins,         \* nodes on which SetPrivateKey has succeeded
    MaxTime,        \* bound: the clock stops here
    MaxAhead,       \* bound: how far a signer's clock may be ahead
    Skew,           \* validateSporkSignature's allowance (3600 s)
    Window,         \* SporkKeyTransitionWindow (30 days)
    MaxSigned,      \* bound: messages signed
    MaxRestarts,    \* bound: restarts of all nodes together
    MaxRequests,    \* bound: rounds of getsporks by masternode sync
    MaxEvents,      \* bound: signed messages, restarts and RequestSporks together
    MaxLossy,       \* bound: links that have lost something at the same time
    WriteMayFail,   \* whether WriteSpork may return an error
    None

ASSUME SporkAssumption ==
    /\ Peers \in [Nodes -> SUBSET Nodes]
    /\ Signer \notin Nodes /\ Entries \subseteq Nodes
    /\ KnownIds \subseteq Ids
    /\ Keys \subseteq {"new", "old", "bad"}
    /\ Admins \subseteq Nodes
    /\ MaxTime \in Nat /\ MaxAhead \in Nat /\ Skew \in Nat /\ Window \in Nat
    /\ MaxSigned \in Nat /\ MaxRestarts \in Nat /\ MaxRequests \in Nat
    /\ MaxEvents \in Nat /\ MaxLossy \in Nat
    /\ WriteMayFail \in BOOLEAN

\* spork.Message: the signature is represented by the key that made it.
Message == [id : Ids, value : Values, time : Int, key : {"new", "old", "bad"}]

ASSUME NoneAssumption == None \notin Message

VARIABLES
    now,        \* time.Now().Unix()
    cache,      \* cache[n][id]:  p2p SporkManager.sporks
    active,     \* active[n][id]: Manager.active
    db,         \* db[n][id]:     the "spk:" records
    inbox,      \* inbox[n]: spork packets sent to n and not yet handled
    asks,       \* <<p, n>>: a getsporks of p that n has not yet handled
    lost,       \* history, <<q, n>>: something from q to n was dropped, and n
                \*   has sent q no getsporks since
    forgot,     \* history: nodes that a restart has left without something that
                \*   was lost on its way from them, or that a neighbour asked for
    signed,     \* messages signed so far
    restarts,   \* number of restarts so far
    requests    \* number of RequestSporks so far

vars == <<now, cache, active, db, inbox, asks, lost, forgot, signed, restarts, requests>>

Packet == [from : Nodes \cup {Signer}, msg : Message]
Slots  == [Nodes -> [Ids -> Message \cup {None}]]

Init ==
    /\ now = 0
    /\ cache  = [n \in Nodes |-> [id \in Ids |-> None]]
    /\ active = [n \in Nodes |-> [id \in Ids |-> None]]
    /\ db     = [n \in Nodes |-> [id \in Ids |-> None]]
    /\ inbox  = [n \in Nodes |-> {}]
    /\ asks = {}
    /\ lost = {}
    /\ forgot = {}
    /\ signed = {}
    /\ restarts = 0
    /\ requests = 0

\* One more event from outside is within the bound.
MoreEvents == Cardinality(signed) + restarts + requests < MaxEvents

\* m is signed, for the first time or again.
Signs(m) ==
    /\ m \notin signed => Cardinality(signed) < MaxSigned /\ MoreEvents
    /\ signed' = signed \cup {m}

-----------------------------------------------------------------------------
(* Acceptance rules.                                                       *)

\* Mutant of Newer: the comparison of signing times is dropped.
NewerMutAnyTime(slot, m) == TRUE

\* Both maps keep what they have unless the message is strictly newer.
Newer(slot, m) == slot = None \/ slot.time < m.time

\* validateSporkSignature: no lower bound on age, either key, any identifier.
ValidateSporkSignature(m) ==
    /\ m.time <= now + Skew
    /\ m.key \in {"new", "old"}

\* checkSignature with requireNew = FALSE, as wireSporkHandler calls it.
CheckSignature(m) ==
    \/ m.key = "new"
    \/ m.key = "old" /\ now - m.time \in 0 .. Window

\* ProcessMessage's three early returns.
AcceptedByManager(n, m) ==
    /\ m.id \in KnownIds
    /\ Newer(active[n][m.id], m)
    /\ CheckSignature(m)

\* storeAndRelayLocked: memory first, then the database; a failed write leaves
\* memory changed.  No relay function is installed on the Manager.
StoreAndRelay(n, m) ==
    /\ active' = [active EXCEPT ![n][m.id] = m]
    /\ \/ db' = [db EXCEPT ![n][m.id] = m]
       \/ WriteMayFail /\ db' = db

\* ProcessMessage as the forwarding handler sees it: errors are only logged.
ProcessMessage(n, m) ==
    IF AcceptedByManager(n, m) THEN StoreAndRelay(n, m)
                               ELSE UNCHANGED <<active, db>>

\* broadcastSpork: every connected peer but the one it came from.
Broadcast(n, m, except) ==
    [p \in Nodes |-> IF p \in Peers[n] \ {except}
                     THEN inbox[p] \cup {[from |-> n, msg |-> m]}
                     ELSE inbox[p]]

-----------------------------------------------------------------------------
(* The nodes.                                                              *)

\* handleSpork: validate, update the p2p map, always forward to the Manager,
\* and relay only what was new to the p2p map.
HandleSpork(n, pkt) ==
    LET m == pkt.msg
        isNew == Newer(cache[n][m.id], m)
        rest == [inbox EXCEPT ![n] = @ \ {pkt}]
    IN  /\ pkt \in inbox[n]
        /\ IF ValidateSporkSignature(m)
           THEN /\ ProcessMessage(n, m)
                /\ cache' = IF isNew THEN [cache EXCEPT ![n][m.id] = m] ELSE cache
                /\ inbox' = IF isNew
                            THEN [Broadcast(n, m, pkt.from) EXCEPT ![n] = @ \ {pkt}]
                            ELSE rest
           ELSE /\ inbox' = rest
                /\ UNCHANGED <<cache, active, db>>
        /\ UNCHANGED <<now, asks, lost, forgot, signed, restarts, requests>>

\* Mutant of HandleGetSporks: the reply holds the empty slots too.
HandleGetSporksMutAll(n, p) ==
    /\ <<p, n>> \in asks
    /\ asks' = asks \ {<<p, n>>}
    /\ inbox' = [inbox EXCEPT ![p] = @ \cup {[from |-> n, msg |-> cache[n][id]] : id \in Ids}]
    /\ UNCHANGED <<now, cache, active, db, lost, forgot, signed, restarts, requests>>

\* handleGetSporks: the reply is the p2p map, one message per spork.
HandleGetSporks(n, p) ==
    /\ <<p, n>> \in asks
    /\ asks' = asks \ {<<p, n>>}
    /\ inbox' = [inbox EXCEPT ![p] = @ \cup
                   {[from |-> n, msg |-> cache[n][id]] :
                       id \in {i \in Ids : cache[n][i] # None}}]
    /\ UNCHANGED <<now, cache, active, db, lost, forgot, signed, restarts, requests>>

\* Mutant of UpdateSpork: TimeSigned keeps its zero value.
UpdateSporkMutNoTime(n, id, v) ==
    /\ n \in Admins
    /\ LET m == [id |-> id, value |-> v, time |-> 0, key |-> "new"]
       IN  Signs(m) /\ StoreAndRelay(n, m)
    /\ UNCHANGED <<now, cache, inbox, asks, lost, forgot, restarts, requests>>

\* UpdateSpork: signed with the current key and stored without the identifier
\* check and without comparing TimeSigned with the stored spork.
UpdateSpork(n, id, v) ==
    /\ n \in Admins
    /\ LET m == [id |-> id, value |-> v, time |-> now, key |-> "new"]
       IN  Signs(m) /\ StoreAndRelay(n, m)
    /\ UNCHANGED <<now, cache, inbox, asks, lost, forgot, restarts, requests>>

\* A neighbour of n has still to hear of something that n holds.
Owing(n) == \E p \in Peers[n] : <<n, p>> \in lost \/ <<p, n>> \in asks

\* Mutant of Restart: no getsporks after the handshake.
RestartMutNoAsk(n) ==
    /\ restarts < MaxRestarts /\ MoreEvents
    /\ restarts' = restarts + 1
    /\ active' = [active EXCEPT ![n] = db[n]]
    /\ cache' = [cache EXCEPT ![n] = [id \in Ids |-> None]]
    /\ inbox' = [inbox EXCEPT ![n] = {}]
    /\ lost' = lost \ ((Peers[n] \X {n}) \cup ({n} \X Peers[n]))
    /\ forgot' = IF Owing(n) THEN forgot \cup {n} ELSE forgot
    /\ UNCHANGED <<now, db, asks, signed, requests>>

\* The process stops and starts again: NewManager/LoadFromStorage rebuild the
\* Manager from the database without checking signatures, the p2p map starts
\* empty, what was queued for n is lost, and on every connection both ends
\* send getsporks when the handshake completes (which may be lost in turn).
Restart(n) ==
    /\ restarts < MaxRestarts /\ MoreEvents
    /\ restarts' = restarts + 1
    /\ active' = [active EXCEPT ![n] = db[n]]
    /\ cache' = [cache EXCEPT ![n] = [id \in Ids |-> None]]
    /\ inbox' = [inbox EXCEPT ![n] = {}]
    /\ asks' = asks \cup ({n} \X Peers[n]) \cup (Peers[n] \X {n})
    /\ lost' = lost \ ((Peers[n] \X {n}) \cup ({n} \X Peers[n]))
    /\ forgot' = IF Owing(n) THEN forgot \cup {n} ELSE forgot
    /\ UNCHANGED <<now, db, signed, requests>>

\* RequestSporks, called up to three times while masternode sync is in its
\* SPORKS stage and again after it is reset: a getsporks to every peer.
RequestSporks(n) ==
    /\ requests < MaxRequests /\ MoreEvents
    /\ requests' = requests + 1
    /\ asks' = asks \cup ({n} \X Peers[n])
    /\ lost' = lost \ (Peers[n] \X {n})
    /\ UNCHANGED <<now, cache, active, db, inbox, forgot, signed, restarts>>

\* Something that n was to hear from q is gone.
Lose(q, n) ==
    /\ lost' = lost \cup {<<q, n>>}
    /\ Cardinality(lost') <= MaxLossy

\* The node that sent it has restarted since and its p2p map lacks it.
Gone(pkt) == Newer(cache[pkt.from][pkt.msg.id], pkt.msg)

\* A spork on its way to n is dropped: SendMessage gives up on a full write queue
\* after 30 seconds (the error is only logged), the write loop gives up after
\* three retries, or readLoop finds msgChan full.  Nobody sends it again.  (To
\* lose what Signer sends is as if it had not been signed.)
LoseSpork(n, pkt) ==
    /\ pkt.from # Signer
    /\ inbox' = [inbox EXCEPT ![n] = @ \ {pkt}]
    /\ Lose(pkt.from, n)
    /\ forgot' = IF Gone(pkt) THEN forgot \cup {pkt.from} ELSE forgot
    /\ UNCHANGED <<now, cache, active, db, asks, signed, restarts, requests>>

\* A getsporks of p is dropped in the same places: n never answers it.
LoseAsk(n, p) ==
    /\ <<p, n>> \in asks
    /\ asks' = asks \ {<<p, n>>}
    /\ Lose(n, p)
    /\ UNCHANGED <<now, cache, active, db, inbox, forgot, signed, restarts, requests>>

-----------------------------------------------------------------------------
(* The environment.                                                        *)

\* The holder of a spork key signs a message and hands it to one node.
Sign(m, n) ==
    /\ m \notin signed
    /\ Signs(m)
    /\ inbox' = [inbox EXCEPT ![n] = @ \cup {[from |-> Signer, msg |-> m]}]
    /\ UNCHANGED <<now, cache, active, db, asks, lost, forgot, restarts, requests>>

SignAny ==
    \E n \in Entries, id \in Ids, v \in Values, k \in Keys, t \in 0 .. now + MaxAhead :
        Sign([id |-> id, value |-> v, time |-> t, key |-> k], n)

Tick ==
    /\ now < MaxTime
    /\ now' = now + 1
    /\ UNCHANGED <<cache, active, db, inbox, asks, lost, forgot, signed, restarts, requests>>

Next ==
    \/ \E n \in Nodes : \E pkt \in inbox[n] : HandleSpork(n, pkt)
    \/ \E n, p \in Nodes : HandleGetSporks(n, p)
    \/ \E n \in Nodes, id \in Ids, v \in Values : UpdateSpork(n, id, v)
    \/ \E n \in Nodes : Restart(n) \/ RequestSporks(n)
    \/ \E n \in Nodes : \E pkt \in inbox[n] : LoseSpork(n, pkt)
    \/ \E n, p \in Nodes : LoseAsk(n, p)
    \/ SignAny
    \/ Tick

\* messageHandler takes every message out of msgChan in the end.
Handle ==
    \/ \E n \in Nodes : \E pkt \in inbox[n] : HandleSpork(n, pkt)
    \/ \E n, p \in Nodes : HandleGetSporks(n, p)

Spec == Init /\ [][Next]_vars /\ WF_vars(Handle)

-----------------------------------------------------------------------------
(* Properties.                                                             *)

\* Type correctness of the two maps, the records, the queues and the clock.
TypeOK ==
    /\ now \in 0 .. MaxTime
    /\ cache \in Slots /\ active \in Slots /\ db \in Slots
    /\ inbox \in [Nodes -> SUBSET Packet]
    /\ asks \subseteq Nodes \X Nodes
    /\ lost \subseteq Nodes \X Nodes
    /\ forgot \subseteq Nodes
    /\ signed \subseteq Message
    /\ restarts \in 0 .. MaxRestarts
    /\ requests \in 0 .. MaxRequests

\* Whatever the p2p map holds for a known identifier under the current key, the
\* Manager that consensus reads holds that spork or a newer one.
CacheNotAheadOfManager ==
    \A n \in Nodes, id \in KnownIds :
        (cache[n][id] # None /\ cache[n][id].key = "new")
            => (active[n][id] # None /\ active[n][id].time >= cache[n][id].time)

\* A restart never brings back a spork newer than the one the process was
\* using, and never one the process had no spork for.
DbNotAheadOfManager ==
    \A n \in Nodes, id \in Ids :
        db[n][id] # None =>
            (active[n][id] # None /\ active[n][id].time >= db[n][id].time)

\* The two maps and the database drift apart in one direction only: the Manager
\* is never behind, whatever was relayed, re-served, lost in a failed write or
\* reloaded in between.
ManagerNotBehind == CacheNotAheadOfManager /\ DbNotAheadOfManager

\* "Active sporks by ID (most recent valid spork for each ID)": while the
\* process runs, the spork in force is only ever replaced by one signed no
\* earlier.  (A restart after a failed write may fall back.)
MostRecentStaysActive ==
    [][\A n \in Nodes, id \in Ids :
          (active[n][id] # None /\ restarts' = restarts) =>
              (active'[n][id] # None /\ active'[n][id].time >= active[n][id].time)]_vars

\* Losses separate p from n: every way from n to p has a link on which something
\* was dropped and not asked for again, or that starts at a node that forgot.
Cut(n, p) ==
    \E S \in SUBSET Nodes :
        /\ n \in S /\ p \notin S
        /\ \A q \in S : \A r \in Peers[q] \ S : <<q, r>> \in lost \/ q \in forgot

\* Relay: a spork signed with the current key that some node has accepted
\* reaches the Manager of every node, or a newer one does, unless drops on full
\* queues have cut that node off.  What a drop on one way loses comes by another
\* way, by the handshake of a restart or by the next RequestSporks.
Spread ==
    \A n \in Nodes, id \in KnownIds, v \in Values, t \in 0 .. MaxTime + MaxAhead :
        LET m == [id |-> id, value |-> v, time |-> t, key |-> "new"]
        IN  (cache[n][id] = m) ~>
                \A p \in Nodes : \/ active[p][id] # None /\ active[p][id].time >= t
                                 \/ Cut(n, p)
=============================================================================
