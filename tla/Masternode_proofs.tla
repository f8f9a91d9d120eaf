------------------------- MODULE Masternode_proofs -------------------------
(***************************************************************************)
(* Proofs about Masternode, for any times that satisfy TimesAssumption and *)
(* any number of broadcasts and faults.                                    *)
(***************************************************************************)
EXTENDS Masternode, TLAPS

\* A ping inside the tolerance is no age at which anything expires, and every
\* age fits into seenBroadcasts.
LEMMA TimeFacts ==
    /\ MinPing \in Nat /\ Tolerance \in Nat /\ Expiration \in Nat /\ Removal \in Nat
    /\ Cap \in Nat /\ SeenFor \in Nat /\ MaxBroadcasts \in Nat
    /\ MinPing > 0 /\ Tolerance > 0
    /\ Tolerance <= Expiration /\ Expiration < Removal /\ Removal < Cap
    /\ Cap <= SeenFor
  BY TimesAssumption, BoundsAssumption DEF Cap, SeenFor

LEMMA AgeFacts ==
    /\ Ages \subseteq SeenAges
    /\ 0 .. Tolerance \subseteq Ages
    /\ 0 \in Ages /\ 1 \in Broadcasts
    /\ \A a \in Ages : Older(a, Cap) \in Ages
    /\ \A a \in SeenAges : Older(a, SeenFor + 1) \in SeenAges /\ a # None
  BY TimeFacts, BoundsAssumption DEF Ages, SeenAges, Broadcasts, Older, None

LEMMA StatusType ==
    ASSUME NEW e, NEW age PROVE UpdatedStatus(e, age) \in Statuses
  BY DEF UpdatedStatus, Statuses

-----------------------------------------------------------------------------
(* Type correctness.                                                       *)

LEMMA CallType ==
    ASSUME NEW step \in {"idle", "collateral", "store", "ping"}, NEW b \in Broadcasts,
           NEW ping \in Ages, NEW found \in BOOLEAN
    PROVE  [step |-> step, b |-> b, ping |-> ping, found |-> found] \in Call
  BY Zenon DEF Call

LEMMA IdleType == Idle \in Call
  BY AgeFacts, CallType DEF Idle

LEMMA InitType == Init => TypeOK
  <1> SUFFICES ASSUME Init PROVE TypeOK
    OBVIOUS
  <1>1. sigAge \in [Broadcasts -> Ages]
    BY AgeFacts DEF Init
  <1>2. seenB \in [Broadcasts -> SeenAges \cup {None}]
    BY DEF Init
  <1>3. handler \in Call
    BY IdleType DEF Init
  <1>4. signed \in 0 .. MaxBroadcasts /\ faults \in 0 .. MaxFaults
    BY BoundsAssumption DEF Init
  <1>5. /\ synced \in BOOLEAN /\ stable \in BOOLEAN /\ running \in BOOLEAN
        /\ early \in SUBSET Broadcasts /\ due \in SUBSET {"update", "sign", "ping", "offer"}
        /\ pings \in SUBSET (0 .. Tolerance) /\ seenP \in SUBSET (0 .. Tolerance)
    BY Zenon DEF Init
  <1>6. /\ collateral \in {"gone", "young", "mature", "spent"}
        /\ entry \in Entry \cup {NoEntry} /\ loop \in {"idle", "remove", "clear"}
    BY DEF Init
  <1> QED
    BY <1>1, <1>2, <1>3, <1>4, <1>5, <1>6, Zenon DEF TypeOK

LEMMA HandleMessageType == TypeOK /\ HandleMessage => TypeOK'
  <1> SUFFICES ASSUME TypeOK, HandleMessage PROVE TypeOK'
    OBVIOUS
  <1> USE AgeFacts, IdleType DEF TypeOK, network
  <1>1. ASSUME NEW b \in Broadcasts, NEW ping \in Ages, ReceiveBroadcast(b, ping) PROVE TypeOK'
    <2>1. seenB' \in [Broadcasts -> SeenAges \cup {None}]
      BY <1>1 DEF ReceiveBroadcast
    <2>2. [step |-> "collateral", b |-> b, ping |-> ping, found |-> FALSE] \in Call
      BY CallType
    <2>3. handler' \in Call
      BY <1>1, <2>2 DEF ReceiveBroadcast
    <2> QED
      BY <1>1, <2>1, <2>3 DEF ReceiveBroadcast
  <1>2. CASE CheckCollateral
    <2>1. handler.b \in Broadcasts
      BY DEF Call
    <2>2. seenB' \in [Broadcasts -> SeenAges \cup {None}]
      BY <1>2, <2>1 DEF CheckCollateral
    <2>3. [handler EXCEPT !.step = "store", !.found = entry # NoEntry] \in Call
      BY Zenon DEF Call
    <2>4. handler' \in Call
      BY <1>2, <2>3 DEF CheckCollateral
    <2> QED
      BY <1>2, <2>2, <2>4 DEF CheckCollateral
  <1>3. CASE StoreMasternode
    <2>1. entry' \in Entry \cup {NoEntry}
      BY <1>3 DEF StoreMasternode, Entry, Statuses, Call
    <2> QED
      BY <1>3, <2>1 DEF StoreMasternode
  <1>4. ASSUME NEW ping \in 0 .. Tolerance, NEW known \in BOOLEAN, ReceivePing(ping, known)
        PROVE  TypeOK'
    <2>1. handler' \in Call
      <3>1. CASE entry # NoEntry
        <4>1. entry.b \in Broadcasts /\ ping \in Ages
          BY <3>1 DEF Entry
        <4>2. [step |-> "ping", b |-> entry.b, ping |-> ping, found |-> TRUE] \in Call
          BY <4>1, CallType
        <4> QED
          BY <1>4, <4>2 DEF ReceivePing
      <3>2. CASE entry = NoEntry
        BY <1>4, <3>2 DEF ReceivePing
      <3> QED
        BY <3>1, <3>2
    <2> QED
      BY <1>4, <2>1 DEF ReceivePing
  <1>5. CASE ApplyPing
    <2>1. entry' \in Entry \cup {NoEntry}
      BY <1>5, StatusType DEF ApplyPing, Entry, Call
    <2>2. seenB' \in [Broadcasts -> SeenAges \cup {None}]
      BY <1>5 DEF ApplyPing, Call
    <2> QED
      BY <1>5, <2>1, <2>2 DEF ApplyPing
  <1> QED
    BY <1>1, <1>2, <1>3, <1>4, <1>5 DEF HandleMessage

LEMMA UpdateLoopType == TypeOK /\ UpdateLoop => TypeOK'
  <1> SUFFICES ASSUME TypeOK, UpdateLoop PROVE TypeOK'
    OBVIOUS
  <1> USE DEF TypeOK, network
  <1>0. ASSUME NEW seen \in [Broadcasts -> SeenAges \cup {None}], EndRound(seen)
        PROVE  seenB' \in [Broadcasts -> SeenAges \cup {None}] /\ loop' = "idle"
    BY <1>0 DEF EndRound, CleanSeenBroadcasts
  <1>1. CASE UpdateStatuses
    <2>1. entry' \in Entry \cup {NoEntry}
      BY <1>1, StatusType DEF UpdateStatuses, Entry
    <2>2. seenB' \in [Broadcasts -> SeenAges \cup {None}] /\ loop' \in {"idle", "remove"}
      BY <1>0, <1>1 DEF UpdateStatuses
    <2> QED
      BY <1>1, <2>1, <2>2 DEF UpdateStatuses
  <1>2. CASE RemoveDead
    BY <1>0, <1>2 DEF RemoveDead
  <1>3. CASE ClearSeenBroadcasts
    <2>1. [b \in Broadcasts |-> None] \in [Broadcasts -> SeenAges \cup {None}]
      OBVIOUS
    <2> QED
      BY <1>0, <1>3, <2>1 DEF ClearSeenBroadcasts
  <1> QED
    BY <1>1, <1>2, <1>3 DEF UpdateLoop

LEMMA RestartType == ASSUME TypeOK, NEW cached \in BOOLEAN, Restart(cached) PROVE TypeOK'
  <1> USE AgeFacts DEF TypeOK
  <1>1. entry' \in Entry \cup {NoEntry}
    BY DEF Restart, Entry, Statuses
  <1>2. seenP' \in SUBSET (0 .. Tolerance)
    BY DEF Restart
  <1>3. handler' \in Call
    BY DEF Restart, Idle, Call
  <1>4. seenB' \in [Broadcasts -> SeenAges \cup {None}]
    BY DEF Restart
  <1>5. faults' \in 0 .. MaxFaults
    BY BoundsAssumption DEF Restart
  <1> QED
    BY <1>1, <1>2, <1>3, <1>4, <1>5 DEF Restart

LEMMA TickType == TypeOK /\ Tick => TypeOK'
  <1> SUFFICES ASSUME TypeOK, Tick PROVE TypeOK'
    OBVIOUS
  <1> USE AgeFacts DEF TypeOK, Tick
  <1>1. sigAge' \in [Broadcasts -> Ages]
    OBVIOUS
  <1>2. pings' \in SUBSET (0 .. Tolerance) /\ seenP' \in SUBSET (0 .. Tolerance)
    BY TimeFacts DEF AgedPings
  <1>3. entry' \in Entry \cup {NoEntry}
    BY DEF Entry
  <1>4. seenB' \in [Broadcasts -> SeenAges \cup {None}]
    OBVIOUS
  <1>5. due' \in SUBSET {"update", "sign", "ping", "offer"}
    OBVIOUS
  <1> QED
    BY <1>1, <1>2, <1>3, <1>4, <1>5

LEMMA StepType == TypeOK /\ [Next]_vars => TypeOK'
  <1> SUFFICES ASSUME TypeOK, [Next]_vars PROVE TypeOK'
    OBVIOUS
  <1> USE AgeFacts, BoundsAssumption, TimeFacts
  <1>1. CASE SignBroadcast
    <2>1. signed + 1 \in Broadcasts /\ signed + 1 \in 0 .. MaxBroadcasts
      BY <1>1 DEF SignBroadcast, Broadcasts, TypeOK
    <2> QED
      BY <1>1, <2>1 DEF SignBroadcast, TypeOK
  <1>2. CASE SignPing
    BY <1>2 DEF SignPing, TypeOK
  <1>3. CASE HandleMessage
    BY <1>3, HandleMessageType
  <1>4. CASE UpdateLoop
    BY <1>4, UpdateLoopType
  <1>5. CASE BlockchainSynced
    BY <1>5 DEF BlockchainSynced, TypeOK, network
  <1>12. CASE SleepDetected
    <2>1. faults' \in 0 .. MaxFaults
      BY <1>12, BoundsAssumption DEF SleepDetected, TypeOK
    <2> QED
      BY <1>12, <2>1, Zenon DEF SleepDetected, TypeOK
  <1>6. ASSUME NEW c \in {"gone", "young", "mature", "spent"}, MoveCollateral(c) PROVE TypeOK'
    <2>1. 1 .. signed \subseteq Broadcasts
      BY DEF TypeOK, Broadcasts
    <2> QED
      BY <1>6, <2>1 DEF MoveCollateral, TypeOK
  <1>7. ASSUME NEW cached \in BOOLEAN, Restart(cached) PROVE TypeOK'
    BY <1>7, RestartType
  <1>8. CASE Stabilize
    BY <1>8 DEF Stabilize, TypeOK
  <1>9. CASE Tick
    BY <1>9, TickType
  <1>10. CASE UNCHANGED vars
    BY <1>10 DEF vars, TypeOK
  <1>11. CASE MarkBroadcastSeen
    <2>1. entry.b \in Broadcasts /\ entry.ping \in SeenAges
      BY <1>11 DEF MarkBroadcastSeen, TypeOK, Entry
    <2>2. seenB' \in [Broadcasts -> SeenAges \cup {None}]
      BY <1>11, <2>1 DEF MarkBroadcastSeen, TypeOK
    <2> QED
      BY <1>11, <2>2 DEF MarkBroadcastSeen, TypeOK, network
  <1> QED
    BY <1>1, <1>2, <1>3, <1>4, <1>5, <1>6, <1>7, <1>8, <1>9, <1>10, <1>11,
       <1>12 DEF Next

\* Every step of the message handler, the update loop and the environment keeps
\* the entry, the seen maps and the calls in progress well typed: no age leaves
\* the range that the seen maps tell apart.
THEOREM MasternodeTypeCorrect == Spec => []TypeOK
  BY InitType, StepType, PTL DEF Spec

-----------------------------------------------------------------------------
(* What the list holds.                                                    *)

\* The handler carries a ping that the tolerance admitted, for a broadcast that
\* was signed.
HandlerOK == handler.step # "idle" => handler.ping < Tolerance /\ handler.b <= signed

EntrySigned == entry # NoEntry => entry.b <= signed

\* The status Removed is the update loop's, and only a new ping ends the silence
\* that it stands for.
RemovedIsSilent == entry # NoEntry /\ entry.status = "Removed" => entry.ping > Removal

\* What ListedIsAlive says of an entry.
Alive(e) ==
    /\ e.ping <= Removal
    /\ e.status \in {"Enabled", "PreEnabled"} => e.ping <= Expiration
    /\ e.status = "Enabled" => sigAge[e.b] - e.ping >= MinPing /\ collateral # "gone"

\* ListedIsAlive inside a round: what is not alive is dead and about to go.
RoundInv ==
    synced /\ "update" \notin due /\ entry # NoEntry =>
        Alive(entry) \/ (loop = "remove" /\ Dead(entry))

ListInv == TypeOK /\ HandlerOK /\ EntrySigned /\ RemovedIsSilent /\ RoundInv

\* What RemovesOnlyDead says of a step.
DeadStep ==
    entry # NoEntry /\ entry' = NoEntry /\ loop' = "clear" =>
        entry.ping > Removal \/ entry.status = "VinSpent"

LEMMA InitList == Init => ListInv
  BY InitType DEF Init, ListInv, HandlerOK, EntrySigned, RemovedIsSilent, RoundInv, Idle

LEMMA HandleMessageList == ListInv /\ HandleMessage => ListInv' /\ DeadStep
  <1> SUFFICES ASSUME ListInv, HandleMessage PROVE ListInv' /\ DeadStep
    OBVIOUS
  <1>0. TypeOK'
    BY HandleMessageType DEF ListInv
  <1> USE <1>0, TimeFacts DEF ListInv, network
  <1>1. ASSUME NEW b \in Broadcasts, NEW ping \in Ages, ReceiveBroadcast(b, ping)
        PROVE  ListInv' /\ DeadStep
    <2>1. HandlerOK'
      BY <1>1 DEF ReceiveBroadcast, HandlerOK, CheckAndUpdate, Offered, Idle
    <2> QED
      BY <1>1, <2>1 DEF ReceiveBroadcast, EntrySigned, RemovedIsSilent, RoundInv, Alive, Dead, DeadStep
  <1>2. CASE CheckCollateral
    <2>1. handler.ping < Tolerance /\ handler.b <= signed
      BY <1>2 DEF CheckCollateral, HandlerOK
    <2>2. handler' = Idle \/ (handler'.ping = handler.ping /\ handler'.b = handler.b)
      BY <1>2, Zenon DEF CheckCollateral, TypeOK, Call
    <2>3. HandlerOK'
      BY <1>2, <2>1, <2>2 DEF CheckCollateral, HandlerOK, Idle
    <2> QED
      BY <1>2, <2>3 DEF CheckCollateral, EntrySigned, RemovedIsSilent, RoundInv, Alive, Dead, DeadStep
  <1>3. CASE StoreMasternode
    <2>1. HandlerOK'
      BY <1>3 DEF StoreMasternode, HandlerOK, Idle
    <2>2. handler.ping \in Nat /\ handler.ping < Tolerance /\ handler.b <= signed
      BY <1>3 DEF StoreMasternode, HandlerOK, TypeOK, Call, Ages
    <2>3. entry' # NoEntry => /\ entry'.ping = handler.ping /\ entry'.b = handler.b
                              /\ entry'.status = "PreEnabled"
      BY <1>3 DEF StoreMasternode
    <2>4. entry' = NoEntry => entry = NoEntry
      <3>1. [b |-> handler.b, ping |-> handler.ping, status |-> "PreEnabled"] \in Entry
        BY DEF TypeOK, Call, Entry, Statuses
      <3> QED
        BY <1>3, <3>1, NoEntryAssumption DEF StoreMasternode
    <2> QED
      BY <1>3, <2>1, <2>2, <2>3, <2>4
      DEF StoreMasternode, EntrySigned, RemovedIsSilent, RoundInv, Alive, DeadStep
  <1>4. ASSUME NEW ping \in 0 .. Tolerance, NEW known \in BOOLEAN, ReceivePing(ping, known)
        PROVE  ListInv' /\ DeadStep
    <2>1. HandlerOK'
      BY <1>4 DEF ReceivePing, HandlerOK, EntrySigned, Idle
    <2>2. due' = due \/ due' = due \ {"ping"}
      BY <1>4 DEF ReceivePing
    <2> QED
      BY <1>4, <2>1, <2>2 DEF ReceivePing, EntrySigned, RemovedIsSilent, RoundInv, Alive, Dead, DeadStep
  <1>5. CASE ApplyPing
    <2>1. HandlerOK'
      BY <1>5 DEF ApplyPing, HandlerOK, Idle
    <2>2. handler.ping \in Nat /\ handler.ping < Tolerance
      BY <1>5 DEF ApplyPing, HandlerOK, TypeOK, Call, Ages
    <2>3. CASE entry = NoEntry
      BY <1>5, <2>1, <2>3 DEF ApplyPing, EntrySigned, RemovedIsSilent, RoundInv, DeadStep
    <2>4. CASE entry # NoEntry
      <3>1. entry \in Entry
        BY <2>4 DEF TypeOK
      <3> DEFINE e == [entry EXCEPT !.ping = handler.ping]
      <3>2. /\ e.ping = handler.ping /\ e.b = entry.b /\ e.status = entry.status
            /\ entry' = [e EXCEPT !.status = UpdatedStatus(e, 0)]
        BY <1>5, <2>4, <3>1 DEF ApplyPing, Entry
      <3>3. /\ entry'.ping = handler.ping /\ entry'.b = entry.b
            /\ entry'.status = UpdatedStatus(e, 0)
        BY <3>1, <3>2 DEF Entry
      <3>4. entry' # NoEntry
        <4>1. handler.ping \in Ages
          BY DEF TypeOK, Call
        <4>2. e \in Entry
          BY <3>1, <4>1 DEF Entry
        <4>3. entry' \in Entry
          BY <3>2, <4>2, StatusType DEF Entry
        <4> QED
          BY <4>3, NoEntryAssumption
      <3>5. /\ UpdatedStatus(e, 0) # "Removed"
            /\ UpdatedStatus(e, 0) = "Enabled" =>
                   ~(sigAge[e.b] - e.ping < MinPing) /\ collateral # "gone"
        BY DEF UpdatedStatus
      <3>6. sigAge[entry.b] \in Nat
        BY <3>1 DEF TypeOK, Entry, Ages
      <3>7. UpdatedStatus(e, 0) = "Enabled" =>
                sigAge[entry.b] - handler.ping >= MinPing /\ collateral # "gone"
        BY <3>2, <3>5, <3>6, <2>2
      <3>8. UNCHANGED <<sigAge, collateral, signed>>
        BY <1>5 DEF ApplyPing
      <3>9. Alive(entry)'
        BY <3>3, <3>7, <3>8, <2>2 DEF Alive
      <3>10. RoundInv' /\ RemovedIsSilent' /\ EntrySigned'
        BY <3>3, <3>5, <3>8, <3>9, <2>4 DEF RoundInv, RemovedIsSilent, EntrySigned
      <3> QED
        BY <2>1, <3>4, <3>10 DEF DeadStep
    <2> QED
      BY <2>3, <2>4
  <1> QED
    BY <1>1, <1>2, <1>3, <1>4, <1>5 DEF HandleMessage

LEMMA UpdateLoopList == ListInv /\ UpdateLoop => ListInv' /\ DeadStep
  <1> SUFFICES ASSUME ListInv, UpdateLoop PROVE ListInv' /\ DeadStep
    OBVIOUS
  <1>0. TypeOK'
    BY UpdateLoopType DEF ListInv
  <1> USE <1>0, TimeFacts DEF ListInv, network
  <1>1. CASE UpdateStatuses
    <2>1. HandlerOK'
      BY <1>1 DEF UpdateStatuses, HandlerOK
    <2>2. CASE ~(synced /\ entry # NoEntry)
      <3>1. entry' = entry /\ (synced /\ entry' # NoEntry => FALSE) /\ synced' = synced /\ signed' = signed
        BY <1>1, <2>2 DEF UpdateStatuses
      <3>2. DeadStep
        BY <3>1 DEF DeadStep
      <3> QED
        BY <2>1, <3>1, <3>2 DEF EntrySigned, RemovedIsSilent, RoundInv
    <2>3. CASE synced /\ entry # NoEntry
      <3>1. entry \in Entry
        BY <2>3 DEF TypeOK
      <3>2. /\ entry' = [entry EXCEPT !.status = UpdatedStatus(entry, entry.ping)]
            /\ entry'.ping = entry.ping /\ entry'.b = entry.b
            /\ entry'.status = UpdatedStatus(entry, entry.ping)
        BY <1>1, <2>3, <3>1 DEF UpdateStatuses, Entry
      <3>3. entry' # NoEntry
        <4>1. entry' \in Entry
          BY <3>1, <3>2, StatusType DEF Entry
        <4> QED
          BY <4>1, NoEntryAssumption
      <3>4. entry.ping \in Nat /\ sigAge[entry.b] \in Nat
        BY <3>1 DEF Entry, TypeOK, Ages
      <3>5. /\ UpdatedStatus(entry, entry.ping) = "Removed" => entry.ping > Removal
            /\ UpdatedStatus(entry, entry.ping) = "Enabled" =>
                  /\ sigAge[entry.b] - entry.ping >= MinPing /\ collateral # "gone"
            /\ UpdatedStatus(entry, entry.ping) \in {"Enabled", "PreEnabled"} =>
                  entry.ping <= Expiration
            /\ UpdatedStatus(entry, entry.ping) \notin {"Removed", "VinSpent"} =>
                  entry.ping <= Removal
        BY <3>4 DEF UpdatedStatus
      <3>6. UNCHANGED <<sigAge, collateral, signed, synced>>
        BY <1>1 DEF UpdateStatuses
      <3>7. RemovedIsSilent' /\ EntrySigned'
        BY <3>2, <3>5, <3>6, <2>3 DEF RemovedIsSilent, EntrySigned
      <3>8. CASE Dead(entry')
        <4>1. loop' = "remove"
          BY <1>1, <2>3, <3>8 DEF UpdateStatuses
        <4>2. RoundInv'
          BY <4>1, <3>8 DEF RoundInv, Dead
        <4> QED
          BY <2>1, <3>3, <3>7, <4>2 DEF DeadStep
      <3>9. CASE ~Dead(entry')
        <4>1. Alive(entry)'
          BY <3>2, <3>3, <3>5, <3>6, <3>9 DEF Alive, Dead
        <4>2. RoundInv'
          BY <4>1 DEF RoundInv
        <4> QED
          BY <2>1, <3>3, <3>7, <4>2 DEF DeadStep
      <3> QED
        BY <3>8, <3>9
    <2> QED
      BY <2>2, <2>3
  <1>2. CASE RemoveDead
    <2>1. HandlerOK'
      BY <1>2 DEF RemoveDead, HandlerOK
    <2>2. CASE Dead(entry)
      BY <1>2, <2>1, <2>2 DEF RemoveDead, Dead, EntrySigned, RemovedIsSilent, RoundInv, DeadStep
    <2>3. CASE ~Dead(entry)
      BY <1>2, <2>1, <2>3
      DEF RemoveDead, Dead, EndRound, EntrySigned, RemovedIsSilent, RoundInv, Alive, DeadStep
    <2> QED
      BY <2>2, <2>3
  <1>3. CASE ClearSeenBroadcasts
    BY <1>3 DEF ClearSeenBroadcasts, EndRound, HandlerOK, EntrySigned, RemovedIsSilent, RoundInv,
                Alive, Dead, DeadStep
  <1> QED
    BY <1>1, <1>2, <1>3 DEF UpdateLoop

LEMMA EnvironmentList ==
    ASSUME ListInv, TypeOK',
           \/ SignBroadcast \/ SignPing \/ BlockchainSynced \/ Stabilize \/ UNCHANGED vars
           \/ MarkBroadcastSeen \/ SleepDetected
           \/ \E c \in {"gone", "young", "mature", "spent"} : MoveCollateral(c)
           \/ \E cached \in BOOLEAN : Restart(cached)
           \/ Tick
    PROVE  ListInv' /\ DeadStep
  <1> USE TimeFacts DEF ListInv, network
  <1>1. CASE SignBroadcast
    <2>1. entry # NoEntry => entry \in Entry /\ entry.b # signed + 1
      BY DEF EntrySigned, TypeOK, Entry, Broadcasts
    <2>2. entry # NoEntry => sigAge'[entry.b] = sigAge[entry.b]
      BY <1>1, <2>1 DEF SignBroadcast, TypeOK, Entry
    <2>3. signed <= signed' /\ signed \in Nat
      BY <1>1 DEF SignBroadcast, TypeOK
    <2>4. HandlerOK' /\ EntrySigned'
      BY <1>1, <2>1, <2>3 DEF SignBroadcast, HandlerOK, EntrySigned, TypeOK, Call, Entry, Broadcasts
    <2> QED
      BY <1>1, <2>2, <2>4 DEF SignBroadcast, RemovedIsSilent, RoundInv, Alive, Dead, DeadStep
  <1>2. CASE SignPing
    BY <1>2 DEF SignPing, HandlerOK, EntrySigned, RemovedIsSilent, RoundInv, Alive, Dead, DeadStep
  <1>9. CASE MarkBroadcastSeen
    BY <1>9 DEF MarkBroadcastSeen, HandlerOK, EntrySigned, RemovedIsSilent, RoundInv, Alive, Dead,
                DeadStep
  <1>10. CASE SleepDetected
    BY <1>10 DEF SleepDetected, HandlerOK, EntrySigned, RemovedIsSilent, RoundInv, Alive, Dead,
                 DeadStep
  <1>3. CASE BlockchainSynced
    BY <1>3 DEF BlockchainSynced, HandlerOK, EntrySigned, RemovedIsSilent, RoundInv, DeadStep
  <1>4. CASE Stabilize
    BY <1>4 DEF Stabilize, HandlerOK, EntrySigned, RemovedIsSilent, RoundInv, Alive, Dead, DeadStep
  <1>5. CASE UNCHANGED vars
    BY <1>5 DEF vars, HandlerOK, EntrySigned, RemovedIsSilent, RoundInv, Alive, Dead, DeadStep
  <1>6. ASSUME NEW c \in {"gone", "young", "mature", "spent"}, MoveCollateral(c)
        PROVE  ListInv' /\ DeadStep
    BY <1>6 DEF MoveCollateral, HandlerOK, EntrySigned, RemovedIsSilent, RoundInv, DeadStep
  <1>7. ASSUME NEW cached \in BOOLEAN, Restart(cached) PROVE ListInv' /\ DeadStep
    <2>1. entry # NoEntry => entry \in Entry
      BY DEF TypeOK
    <2>2. EntrySigned' /\ RemovedIsSilent'
      BY <1>7, <2>1 DEF Restart, EntrySigned, RemovedIsSilent, Entry
    <2> QED
      BY <1>7, <2>2 DEF Restart, HandlerOK, Idle, RoundInv, DeadStep
  <1>8. CASE Tick
    <2>1. entry # NoEntry => entry \in Entry
      BY DEF TypeOK
    <2>2. EntrySigned'
      BY <1>8, <2>1 DEF Tick, EntrySigned, Entry
    <2>3. RemovedIsSilent'
      BY <1>8, <2>1 DEF Tick, RemovedIsSilent, Entry, Older, Ages
    <2>4. entry' = NoEntry => entry = NoEntry
      <3>1. entry # NoEntry => entry' \in Entry
        BY <1>8, <2>1, AgeFacts DEF Tick, Entry
      <3> QED
        BY <3>1, NoEntryAssumption
    <2> QED
      BY <1>8, <2>2, <2>3, <2>4 DEF Tick, HandlerOK, Idle, RoundInv, DeadStep
  <1> QED
    BY <1>1, <1>2, <1>3, <1>4, <1>5, <1>6, <1>7, <1>8, <1>9, <1>10

LEMMA StepList == ListInv /\ [Next]_vars => ListInv' /\ [DeadStep]_vars
  <1> SUFFICES ASSUME ListInv, [Next]_vars PROVE ListInv' /\ DeadStep
    OBVIOUS
  <1>1. TypeOK'
    BY StepType DEF ListInv
  <1> QED
    BY <1>1, HandleMessageList, UpdateLoopList, EnvironmentList DEF Next

\* After every round of the update loop no listed masternode has been silent for
\* longer than RemovalSeconds, none that counts as active for longer than
\* ExpirationSeconds, and an enabled one has pinged MinPingSeconds after its
\* broadcast: whatever ProcessBroadcast and ProcessPing do while
\* updateMasternodes works without the lock.
THEOREM SilentNotListed == Spec => []ListedIsAlive
  <1>1. ListInv /\ [Next]_vars => ListInv'
    BY StepList
  <1>2. ListInv => ListedIsAlive
    BY DEF ListInv, RoundInv, ListedIsAlive, Settled, Alive
  <1> QED
    BY InitList, <1>1, <1>2, PTL DEF Spec

\* updateMasternodes takes only dead masternodes out of the list, although phase
\* 2a works on the statuses that phase 2 computed without the lock.
THEOREM OnlyDeadRemoved == Spec => RemovesOnlyDead
  <1>1. ListInv /\ [Next]_vars => ListInv'
    BY StepList
  <1>2. ListInv /\ [Next]_vars =>
          [entry # NoEntry /\ entry' = NoEntry /\ loop' = "clear" =>
               entry.ping > Removal \/ entry.status = "VinSpent"]_vars
    BY StepList DEF DeadStep
  <1> QED
    BY InitList, <1>1, <1>2, PTL DEF Spec, RemovesOnlyDead


-----------------------------------------------------------------------------
(* Who is enabled stays enabled.                                           *)

\* The entry's ping is young enough not to be replaced in this interval, or the
\* ping of this interval, which replaces it, is still to come or being applied.
OnSchedule ==
    \/ entry.ping = 0 \/ entry.ping < Spacing
    \/ /\ entry.ping <= 1 \/ entry.ping <= Spacing
       /\ "ping" \in due \/ (handler.step = "ping" /\ handler.ping = 0)

\* The node lists the newest broadcast of a masternode in operation as enabled,
\* and no message in flight, no seen ping and no age is about to change that.
KeptEnabled ==
    /\ stable /\ running /\ synced /\ collateral = "mature"
    /\ entry # NoEntry /\ entry.b = signed /\ entry.status = "Enabled"
    /\ sigAge[entry.b] - entry.ping >= MinPing
    /\ handler.step \in {"idle", "ping"}
    /\ handler.step = "ping" => handler.ping <= entry.ping
    /\ "ping" \in due => 0 \notin seenP
    /\ OnSchedule

\* What KeptEnabled says of the ages.
LEMMA KeptAges ==
    ASSUME Spacing <= Expiration, TypeOK, KeptEnabled
    PROVE  /\ entry \in Entry /\ entry.b \in Broadcasts
           /\ entry.ping \in Nat /\ entry.ping <= Expiration
           /\ sigAge[entry.b] \in Nat /\ sigAge[entry.b] <= Cap
           /\ handler.ping \in Nat /\ Spacing \in Nat
  <1>1. entry \in Entry /\ handler \in Call /\ sigAge \in [Broadcasts -> Ages]
    BY DEF TypeOK, KeptEnabled
  <1>2. entry.b \in Broadcasts /\ entry.ping \in Ages /\ handler.ping \in Ages
    BY <1>1 DEF Entry, Call
  <1>3. Spacing \in Nat /\ Expiration \in Nat /\ Expiration > 0
    BY TimesAssumption, TimeFacts
  <1>4. entry.ping \in Nat /\ entry.ping <= Expiration
    BY <1>2, <1>3 DEF KeptEnabled, OnSchedule, Ages
  <1> QED
    BY <1>1, <1>2, <1>3, <1>4, TimeFacts DEF Ages

\* The status of a listed masternode in operation is computed as enabled.
LEMMA KeptStatus ==
    ASSUME KeptEnabled, NEW e \in Entry, e.b = entry.b, e.status = "Enabled",
           sigAge[e.b] \in Nat, e.ping \in Nat, sigAge[e.b] - e.ping >= MinPing,
           NEW age \in Nat, age <= Expiration
    PROVE  UpdatedStatus(e, age) = "Enabled"
  BY TimeFacts DEF UpdatedStatus, KeptEnabled

\* No step of the handler, of the update loop or of the clock ends it.
LEMMA KeptStep ==
    ASSUME Spacing <= Expiration, TypeOK, KeptEnabled, [Next]_vars
    PROVE  KeptEnabled'
  <1>a. /\ entry \in Entry /\ entry.b \in Broadcasts
        /\ entry.ping \in Nat /\ entry.ping <= Expiration
        /\ sigAge[entry.b] \in Nat /\ sigAge[entry.b] <= Cap
        /\ handler.ping \in Nat /\ Spacing \in Nat
    BY KeptAges
  <1>k. /\ stable /\ running /\ synced /\ collateral = "mature"
        /\ entry # NoEntry /\ entry.b = signed /\ entry.status = "Enabled"
        /\ sigAge[entry.b] - entry.ping >= MinPing
        /\ handler.step \in {"idle", "ping"}
        /\ handler.step = "ping" => handler.ping <= entry.ping
        /\ "ping" \in due => 0 \notin seenP
        /\ OnSchedule
    BY DEF KeptEnabled
  <1>1. CASE SignBroadcast \/ (\E c : MoveCollateral(c)) \/ (\E c : Restart(c)) \/ Stabilize
    BY <1>1, <1>k DEF SignBroadcast, MoveCollateral, Restart, Stabilize
  <1>2. CASE SignPing
    BY <1>2, <1>k DEF SignPing, KeptEnabled, OnSchedule
  <1>3. ASSUME NEW b \in Broadcasts, NEW ping \in Ages, ReceiveBroadcast(b, ping)
        PROVE  KeptEnabled'
    <2>1. ~(entry.b < b)
      BY <1>3, <1>k DEF ReceiveBroadcast, Offered, Broadcasts
    <2>2. handler' = handler
      BY <1>3, <1>k, <2>1 DEF ReceiveBroadcast, CheckAndUpdate
    <2>3. "ping" \in due' <=> "ping" \in due
      BY <1>3 DEF ReceiveBroadcast
    <2> QED
      BY <1>3, <1>k, <2>2, <2>3 DEF ReceiveBroadcast, KeptEnabled, OnSchedule, network
  <1>4. CASE CheckCollateral \/ StoreMasternode
    BY <1>4, <1>k DEF CheckCollateral, StoreMasternode
  <1>5. ASSUME NEW ping \in 0 .. Tolerance, NEW known \in BOOLEAN, ReceivePing(ping, known)
        PROVE  KeptEnabled'
    <2>0. /\ handler = Idle /\ known /\ ping \in Nat
          /\ due' = IF ping = 0 THEN due \ {"ping"} ELSE due
          /\ UNCHANGED <<entry, synced>> /\ UNCHANGED network
      BY <1>5, <1>k, TimeFacts DEF ReceivePing
    <2>1. handler.step # "ping"
      BY <2>0 DEF Idle
    <2>2. ASSUME handler' # handler
          PROVE  /\ handler'.step = "ping" /\ handler'.ping = ping
                 /\ entry.ping - ping >= Spacing
      BY <1>5, <2>0, <2>2 DEF ReceivePing, TakesPing
    <2>3. handler'.step \in {"idle", "ping"} /\ (handler'.step = "ping" => handler'.ping <= entry'.ping)
      BY <1>a, <1>k, <2>0, <2>1, <2>2
    <2>4. "ping" \in due' => 0 \notin seenP'
      BY <1>5, <1>k, <2>0 DEF ReceivePing
    <2>5. OnSchedule'
      <3>1. CASE entry.ping = 0 \/ entry.ping < Spacing
        BY <2>0, <3>1 DEF OnSchedule
      <3>2. CASE ~(entry.ping = 0 \/ entry.ping < Spacing)
        <4>1. (entry.ping <= 1 \/ entry.ping <= Spacing) /\ "ping" \in due
          BY <1>k, <2>1, <3>2 DEF OnSchedule
        <4>2. CASE ping # 0
          BY <2>0, <4>1, <4>2 DEF OnSchedule
        <4>3. CASE ping = 0
          <5>1. 0 \notin seenP /\ 0 < Tolerance /\ TakesPing(entry, 0)
            BY <1>a, <1>k, <3>2, <4>1, TimeFacts DEF TakesPing
          <5>2. handler'.step = "ping" /\ handler'.ping = 0
            BY <1>5, <1>k, <2>0, <4>3, <5>1 DEF ReceivePing
          <5> QED
            BY <2>0, <4>1, <5>2 DEF OnSchedule
        <4> QED
          BY <4>2, <4>3
      <3> QED
        BY <3>1, <3>2
    <2> QED
      BY <1>k, <2>0, <2>3, <2>4, <2>5 DEF KeptEnabled, network
  <1>6. CASE ApplyPing
    <2> DEFINE e == [entry EXCEPT !.ping = handler.ping]
    <2>0. /\ handler.step = "ping" /\ handler' = Idle
          /\ entry' = [e EXCEPT !.status = UpdatedStatus(e, 0)]
          /\ UNCHANGED <<seenP, synced, due>> /\ UNCHANGED network
      BY <1>6, <1>k DEF ApplyPing
    <2>1. handler.ping \in Ages
      BY DEF TypeOK, Call
    <2>2. /\ e \in Entry /\ e.b = entry.b /\ e.status = "Enabled" /\ e.ping = handler.ping
      BY <1>a, <1>k, <2>1 DEF Entry
    <2>3. handler.ping <= entry.ping
      BY <1>k, <2>0
    <2> HIDE DEF e
    <2>4. sigAge[e.b] \in Nat /\ sigAge[e.b] - e.ping >= MinPing
      BY <1>a, <1>k, <2>2, <2>3, TimeFacts
    <2>5. UpdatedStatus(e, 0) = "Enabled"
      BY <1>a, <2>2, <2>4, KeptStatus, TimeFacts
    <2>6. entry' \in Entry /\ entry'.b = entry.b /\ entry'.ping = handler.ping /\ entry'.status = "Enabled"
      BY <2>0, <2>2, <2>5 DEF Entry, Statuses
    <2>7. OnSchedule'
      <3>1. CASE entry.ping = 0 \/ entry.ping < Spacing
        BY <1>a, <2>3, <2>6, <3>1 DEF OnSchedule
      <3>2. CASE ~(entry.ping = 0 \/ entry.ping < Spacing)
        BY <1>a, <1>k, <2>0, <2>3, <2>6, <3>2 DEF OnSchedule
      <3> QED
        BY <3>1, <3>2
    <2> QED
      BY <1>k, <2>0, <2>2, <2>4, <2>6, <2>7, NoEntryAssumption DEF KeptEnabled, network, Idle
  <1>7. CASE UpdateLoop
    <2>1. entry' = entry
      <3>1. CASE UpdateStatuses
        <4>1. UpdatedStatus(entry, entry.ping) = "Enabled"
          BY <1>a, <1>k, KeptStatus
        <4>2. entry' = [entry EXCEPT !.status = "Enabled"]
          BY <1>k, <3>1, <4>1 DEF UpdateStatuses
        <4> QED
          BY <1>a, <1>k, <4>2 DEF Entry
      <3>2. CASE RemoveDead
        BY <1>k, <3>2 DEF RemoveDead, Dead
      <3>3. CASE ClearSeenBroadcasts
        BY <3>3 DEF ClearSeenBroadcasts
      <3> QED
        BY <1>7, <3>1, <3>2, <3>3 DEF UpdateLoop
    <2>2. /\ UNCHANGED <<seenP, synced, handler>> /\ UNCHANGED network
          /\ "ping" \in due' <=> "ping" \in due
      BY <1>7 DEF UpdateLoop, UpdateStatuses, RemoveDead, ClearSeenBroadcasts
    <2> QED
      BY <1>k, <2>1, <2>2 DEF KeptEnabled, OnSchedule, network
  <1>8. CASE BlockchainSynced \/ SleepDetected
    BY <1>8, <1>k DEF BlockchainSynced, SleepDetected
  <1>11. CASE MarkBroadcastSeen
    BY <1>11, <1>k DEF MarkBroadcastSeen, KeptEnabled, OnSchedule, network
  <1>9. CASE Tick
    <2>0. /\ handler = Idle /\ due = {} /\ "ping" \in due'
          /\ UNCHANGED <<signed, collateral, synced, handler, stable, running>>
          /\ sigAge'[entry.b] = IF entry.b <= signed THEN Older(sigAge[entry.b], Cap) ELSE 0
          /\ entry' = [entry EXCEPT !.ping = Older(entry.ping, Cap)]
          /\ seenP' = AgedPings(seenP)
      BY <1>9, <1>a, <1>k DEF Tick
    <2>1. entry.ping = 0 \/ entry.ping < Spacing
      BY <1>k, <2>0 DEF OnSchedule, Idle
    <2>2. entry.ping < Cap /\ entry.ping <= Removal /\ Cap = Removal + MinPing
      BY <1>a, TimeFacts DEF Cap
    <2>3. /\ entry'.b = entry.b /\ entry'.status = "Enabled" /\ entry' # NoEntry
          /\ entry'.ping = entry.ping + 1
      <3>1. entry.ping + 1 \in Ages
        BY <1>a, <2>2, TimeFacts DEF Ages
      <3>2. entry' = [entry EXCEPT !.ping = entry.ping + 1]
        BY <2>0, <2>2 DEF Older
      <3>3. entry' \in Entry
        BY <1>a, <3>1, <3>2 DEF Entry
      <3> QED
        BY <1>a, <1>k, <3>2, <3>3, NoEntryAssumption DEF Entry
    <2>4. sigAge'[entry.b] - (entry.ping + 1) >= MinPing
      <3>1. entry.b <= signed
        BY <1>a, <1>k DEF Broadcasts
      <3>2. entry.ping + 1 <= Removal
        BY <1>a, TimeFacts
      <3> QED
        BY <1>a, <1>k, <2>0, <2>2, <3>1, <3>2, TimeFacts DEF Older
    <2>5. 0 \notin seenP'
      BY <2>0, TimeFacts DEF AgedPings
    <2>6. OnSchedule'
      BY <1>a, <2>0, <2>1, <2>3 DEF OnSchedule
    <2> QED
      BY <1>k, <2>0, <2>3, <2>4, <2>5, <2>6 DEF KeptEnabled, Idle
  <1>10. CASE UNCHANGED vars
    BY <1>10, <1>k DEF vars, KeptEnabled, OnSchedule
  <1> QED
    BY <1>1, <1>2, <1>3, <1>4, <1>5, <1>6, <1>7, <1>8, <1>9, <1>10, <1>11
    DEF Next, HandleMessage

\* The lasting half of OperatingIsEnabled: once the newest broadcast of a
\* masternode in operation is listed as enabled and its pings are on schedule, it
\* stays so: no repeated or late message, no entry of the seen maps and no round
\* of the update loop takes it back.  The spacing of pings is under the expiration.
THEOREM EnabledForGood ==
    ASSUME Spacing <= Expiration
    PROVE  Spec => [][KeptEnabled => KeptEnabled']_vars
  <1>1. TypeOK /\ [Next]_vars => [KeptEnabled => KeptEnabled']_vars
    BY KeptStep
  <1> QED
    BY MasternodeTypeCorrect, <1>1, PTL DEF Spec
=============================================================================
