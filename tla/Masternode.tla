----------------------------- MODULE Masternode -----------------------------
(***************************************************************************)
(* One entry of a node's masternode list: how masternode.Manager adds,     *)
(* refreshes, expires and removes the masternode of one collateral         *)
(* outpoint while its operator signs broadcasts and pings, the network     *)
(* delivers them late, twice, out of order or not at all, blocks move the  *)
(* collateral, and the node restarts from its cache.                       *)
(*                                                                         *)
(* Every map of the Manager is keyed by the outpoint or by a hash over it, *)
(* so the outpoints do not meet (broadcast hashes are over the collateral  *)
(* key and the time; two outpoints with one key and one time do meet, and  *)
(* are left out).  Two goroutines touch the entry: the message handler,    *)
(* which runs ProcessBroadcast and ProcessPing, and the update loop, which *)
(* runs updateMasternodes and CleanSeenMaps.                               *)
(*                                                                         *)
(* Times are kept as ages: the time that has passed since a signature, in  *)
(* units of the ping interval, and only as far as the code tells them apart. *)
(***************************************************************************)
EXTENDS Integers, FiniteSets

CONSTANTS
    MinPing,        \* MinPingSeconds: broadcast to first enabling ping
    Spacing,        \* MinPingSeconds - PingSpacingGrace
    MinBroadcast,   \* MinBroadcastSeconds
    Tolerance,      \* PingTimeTolerance
    Expiration,     \* ExpirationSeconds
    Removal,        \* RemovalSeconds
    MaxBroadcasts,  \* bound: broadcasts that the operator signs
    MaxFaults,      \* bound: restarts and moves of the collateral
    NoEntry         \* the outpoint is not in the list

ASSUME TimesAssumption ==
    /\ MinPing \in Nat \ {0} /\ Spacing \in Nat /\ MinBroadcast \in Nat
    /\ Tolerance \in Nat \ {0} /\ Expiration \in Nat /\ Removal \in Nat
    /\ MinPing <= Tolerance /\ Tolerance <= Expiration /\ Expiration < Removal

ASSUME BoundsAssumption == MaxBroadcasts \in Nat \ {0} /\ MaxFaults \in Nat

\* Ages are told apart up to Cap: a silent entry is dead at Removal + 1, and the
\* first ping has to come MinPing after the broadcast.
Cap == Removal + MinPing
Ages == 0 .. Cap

\* Seen broadcasts are kept until their ping is RemovalSeconds * 2 old.
SeenFor == 2 * Removal
SeenAges == 0 .. SeenFor + 1
None == SeenFor + 2

Broadcasts == 1 .. MaxBroadcasts
Statuses == {"PreEnabled", "Enabled", "Expired", "Removed", "VinSpent"}
Entry == [b : Broadcasts, ping : Ages, status : Statuses]
ASSUME NoEntryAssumption == NoEntry \notin Entry

VARIABLES
    signed,     \* number of broadcasts signed so far; the newest has this number
    sigAge,     \* age of each broadcast's signature
    early,      \* broadcasts signed before the collateral had MinConfirmations
    pings,      \* ages of the signed pings, the older ones forgotten
    collateral, \* what the blockchain says of the outpoint
    entry,      \* masternodes[outpoint]: broadcast, age of LastPingMessage, Status
    seenB,      \* seenBroadcasts: age of the stored broadcast's LastPing, or None
    seenP,      \* seenPings: ages of the pings in it, as far as pings goes
    synced,     \* SyncManager.IsBlockchainSynced
    handler,    \* the message handler's call in progress
    loop,       \* the update loop: "idle", "remove" (phase 2a) or "clear"
    stable,     \* the network delivers in time from now on
    running,    \* the operator keeps pinging, once the network is stable
    due,        \* what still happens before the clock moves
    faults      \* restarts and collateral moves so far

vars == <<signed, sigAge, early, pings, collateral, entry, seenB, seenP, synced,
          handler, loop, stable, running, due, faults>>

network == <<signed, sigAge, early, pings, collateral, stable, running, faults>>

Idle == [step |-> "idle", b |-> 1, ping |-> 0, found |-> FALSE]
Call == [step : {"idle", "collateral", "store", "ping"}, b : Broadcasts,
         ping : Ages, found : BOOLEAN]

TypeOK ==
    /\ signed \in 0 .. MaxBroadcasts
    /\ sigAge \in [Broadcasts -> Ages]
    /\ early \in SUBSET Broadcasts
    /\ pings \in SUBSET (0 .. Tolerance)
    /\ collateral \in {"gone", "young", "mature", "spent"}
    /\ entry \in Entry \cup {NoEntry}
    /\ seenB \in [Broadcasts -> SeenAges \cup {None}]
    /\ seenP \in SUBSET (0 .. Tolerance)
    /\ synced \in BOOLEAN
    /\ handler \in Call
    /\ loop \in {"idle", "remove", "clear"}
    /\ stable \in BOOLEAN /\ running \in BOOLEAN
    /\ due \in SUBSET {"update", "sign", "ping", "offer"}
    /\ faults \in 0 .. MaxFaults

Init ==
    /\ signed = 0
    /\ sigAge = [b \in Broadcasts |-> 0]
    /\ early = {}
    /\ pings = {}
    /\ collateral \in {"young", "mature"}
    /\ entry = NoEntry
    /\ seenB = [b \in Broadcasts |-> None]
    /\ seenP = {}
    /\ synced = FALSE
    /\ handler = Idle
    /\ loop = "idle"
    /\ stable = FALSE /\ running = FALSE
    /\ due = {}
    /\ faults = 0
-----------------------------------------------------------------------------
(***************************************************************************)
(* The operator: createBroadcastLocked embeds a ping signed at the same    *)
(* time; sendPingLocked signs at most one ping per interval.               *)
(***************************************************************************)

SignBroadcast ==
    /\ ~stable /\ signed < MaxBroadcasts /\ 0 \notin pings
    /\ signed' = signed + 1
    /\ sigAge' = [sigAge EXCEPT ![signed + 1] = 0]
    /\ early' = IF collateral \in {"gone", "young"} THEN early \cup {signed + 1} ELSE early
    /\ pings' = pings \cup {0}
    /\ UNCHANGED <<collateral, entry, seenB, seenP, synced, handler, loop, stable,
                   running, due, faults>>

SignPing ==
    /\ signed > 0 /\ 0 \notin pings /\ (stable => running)
    /\ pings' = pings \cup {0}
    /\ due' = due \ {"sign"}
    /\ UNCHANGED <<signed, sigAge, early, collateral, entry, seenB, seenP, synced,
                   handler, loop, stable, running, faults>>
-----------------------------------------------------------------------------
(***************************************************************************)
(* The message handler, ProcessBroadcast.  The broadcast enters seen-      *)
(* Broadcasts before it is validated, is validated against the entry,      *)
(* then against the blockchain, and is stored at last; between these the   *)
(* update loop may run.                                                    *)
(***************************************************************************)

CheckAndUpdateMutAnyPing(b, ping) ==
    entry # NoEntry => entry.b < b /\ sigAge[entry.b] >= MinBroadcast

\* CheckAndUpdate and IsBroadcastedWithin: the embedded ping is inside the
\* tolerance, and an entry is replaced by a newer broadcast only, and only when
\* its own is no longer recent.  Its status does not matter: ShouldSkip is set
\* for an entry that is not enabled, but together with Valid.
CheckAndUpdate(b, ping) ==
    /\ ping < Tolerance
    /\ entry # NoEntry => entry.b < b /\ sigAge[entry.b] >= MinBroadcast

\* A broadcast that travels carries its sender's last ping for the masternode,
\* signed with the broadcast or after it (of the pings that the tolerance has
\* passed by, the model keeps the one signed with the broadcast).  A sender that
\* answers dseg offers active masternodes only; relays and getdata do not ask.
\* In a stable network the newest broadcast travels, with a ping that the
\* tolerance admits.
Offered(b, ping) ==
    /\ b <= signed
    /\ ping = sigAge[b] \/ (ping < sigAge[b] /\ ping \in pings)
    /\ stable => b = signed /\ ping < Tolerance

ReceiveBroadcast(b, ping) ==
    /\ handler = Idle /\ Offered(b, ping)
    /\ due' = due \ {"offer"}
    /\ IF synced /\ seenB[b] = None
       THEN /\ seenB' = [seenB EXCEPT ![b] = ping]
            /\ handler' = IF CheckAndUpdate(b, ping)
                          THEN [step |-> "collateral", b |-> b, ping |-> ping,
                                found |-> FALSE]
                          ELSE Idle
       ELSE UNCHANGED <<seenB, handler>>
    /\ UNCHANGED network
    /\ UNCHANGED <<entry, seenP, synced, loop>>

\* The collateral's transaction is missing or too young: the broadcast leaves
\* seenBroadcasts and may come again.  A signature from before the collateral
\* was mature is refused for good.  A spent output still has its record, with a
\* spending height that is not looked at.
CheckCollateral ==
    /\ handler.step = "collateral"
    /\ IF collateral \in {"gone", "young"}
       THEN seenB' = [seenB EXCEPT ![handler.b] = None] /\ handler' = Idle
       ELSE /\ handler' = IF handler.b \in early THEN Idle
                          ELSE [handler EXCEPT !.step = "store",
                                               !.found = entry # NoEntry]
            /\ UNCHANGED seenB
    /\ UNCHANGED network
    /\ UNCHANGED <<entry, seenP, synced, loop, due>>

\* AddMasternode, or UpdateFromBroadcast, which finds nothing when the entry was
\* removed in between.
StoreMasternode ==
    /\ handler.step = "store"
    /\ entry' = IF handler.found /\ entry = NoEntry THEN NoEntry
                ELSE [b |-> handler.b, ping |-> handler.ping, status |-> "PreEnabled"]
    /\ handler' = Idle
    /\ UNCHANGED network
    /\ UNCHANGED <<seenB, seenP, synced, loop, due>>
-----------------------------------------------------------------------------
(***************************************************************************)
(* The message handler, ProcessPing.                                       *)
(***************************************************************************)

\* UpdateStatusWithUTXO of entry e when its last ping has the given age.  The
\* blockchain's answer is whether the output has a record.
UpdatedStatus(e, age) ==
    IF e.status = "VinSpent" THEN "VinSpent"
    ELSE IF age > Removal THEN "Removed"
    ELSE IF age > Expiration THEN "Expired"
    ELSE IF sigAge[e.b] - e.ping < MinPing THEN "PreEnabled"
    ELSE IF collateral = "gone" THEN "VinSpent"
    ELSE "Enabled"

\* The entry takes pings while it is enabled, pre-enabled or expired, and only
\* pings signed Spacing or more after the last one.
TakesPing(e, ping) ==
    /\ e.status \in {"Enabled", "PreEnabled", "Expired"}
    /\ e.ping - ping >= Spacing

\* The ping enters seenPings before it is validated.  While the network is not
\* stable the block hash it carries may be unknown here or too old.
ReceivePing(ping, knownBlock) ==
    /\ handler = Idle /\ ping \in pings
    /\ stable => knownBlock
    /\ due' = IF ping = 0 THEN due \ {"ping"} ELSE due
    /\ IF synced /\ ping \notin seenP
       THEN /\ seenP' = seenP \cup {ping}
            /\ handler' = IF /\ ping < Tolerance /\ entry # NoEntry
                             /\ TakesPing(entry, ping) /\ knownBlock
                          THEN [step |-> "ping", b |-> entry.b, ping |-> ping,
                                found |-> TRUE]
                          ELSE Idle
       ELSE UNCHANGED <<seenP, handler>>
    /\ UNCHANGED network
    /\ UNCHANGED <<entry, seenB, synced, loop>>

\* LastPingMessage of the entry and of its broadcast in seenBroadcasts, and the
\* status as of the ping's own time.  An entry that was removed in between is
\* only changed behind the list's back.
ApplyPing ==
    /\ handler.step = "ping"
    /\ seenB' = IF seenB[handler.b] = None THEN seenB
                ELSE [seenB EXCEPT ![handler.b] = handler.ping]
    /\ entry' = IF entry = NoEntry THEN NoEntry
                ELSE LET e == [entry EXCEPT !.ping = handler.ping]
                     IN  [e EXCEPT !.status = UpdatedStatus(e, 0)]
    /\ handler' = Idle
    /\ UNCHANGED network
    /\ UNCHANGED <<seenP, synced, loop, due>>
-----------------------------------------------------------------------------
(***************************************************************************)
(* The update loop: updateMasternodes, which computes the status without   *)
(* the Manager's lock, removes under the lock what is still dead, and then *)
(* clears seenBroadcasts; and CleanSeenMaps.                               *)
(***************************************************************************)

Dead(e) == e # NoEntry /\ e.status \in {"Removed", "VinSpent"}

CleanSeenBroadcastsMutNever(seen) == seen

CleanSeenBroadcasts(seen) ==
    [b \in Broadcasts |-> IF seen[b] # None /\ seen[b] > SeenFor THEN None ELSE seen[b]]

\* The end of one round of updateLoop.
EndRound(seen) ==
    /\ seenB' = CleanSeenBroadcasts(seen)
    /\ loop' = "idle"

UpdateStatuses ==
    /\ loop = "idle"
    /\ due' = due \ {"update"}
    /\ IF synced /\ entry # NoEntry
       THEN entry' = [entry EXCEPT !.status = UpdatedStatus(entry, entry.ping)]
       ELSE UNCHANGED entry
    /\ IF synced /\ Dead(entry')
       THEN loop' = "remove" /\ UNCHANGED seenB
       ELSE EndRound(seenB)
    /\ UNCHANGED network
    /\ UNCHANGED <<seenP, synced, handler>>

RemoveDeadMutNoRecheck ==
    /\ loop = "remove"
    /\ entry' = NoEntry /\ loop' = "clear"
    /\ UNCHANGED network
    /\ UNCHANGED <<seenB, seenP, synced, handler, due>>

RemoveDead ==
    /\ loop = "remove"
    /\ IF Dead(entry)
       THEN entry' = NoEntry /\ loop' = "clear" /\ UNCHANGED seenB
       ELSE EndRound(seenB) /\ UNCHANGED entry
    /\ UNCHANGED network
    /\ UNCHANGED <<seenP, synced, handler, due>>

ClearSeenBroadcasts ==
    /\ loop = "clear"
    /\ EndRound([b \in Broadcasts |-> None])
    /\ UNCHANGED network
    /\ UNCHANGED <<entry, seenP, synced, handler, due>>
-----------------------------------------------------------------------------
(***************************************************************************)
(* Blocks, restarts and time.                                              *)
(***************************************************************************)

\* The goroutine that answers another node's dseg enters the broadcast of an
\* active masternode into seenBroadcasts, as if it had come from the network.
\* The status is read without the lock, just before; the model takes both at once.
MarkBroadcastSeen ==
    /\ entry # NoEntry /\ entry.status \in {"Enabled", "PreEnabled"}
    /\ seenB' = [seenB EXCEPT ![entry.b] = entry.ping]
    /\ UNCHANGED network
    /\ UNCHANGED <<entry, seenP, synced, handler, loop, due>>

BlockchainSynced ==
    /\ ~synced
    /\ synced' = TRUE
    /\ due' = due \cup {"update"}
    /\ UNCHANGED network
    /\ UNCHANGED <<entry, seenB, seenP, handler, loop>>

\* IsBlockchainSynced was not called for SleepDetectionThreshold: the process was
\* suspended, and no longer counts as synced.
SleepDetected ==
    /\ ~stable /\ synced /\ faults < MaxFaults
    /\ synced' = FALSE
    /\ faults' = faults + 1
    /\ UNCHANGED <<signed, sigAge, early, pings, collateral, entry, seenB, seenP,
                   handler, loop, stable, running, due>>

\* Batches of blocks are connected or taken back.  When the collateral becomes
\* deep enough in other blocks than before, the signatures made so far are from
\* before its maturity.
MoveCollateral(c) ==
    /\ ~stable /\ faults < MaxFaults /\ c # collateral
    /\ collateral' = c
    /\ \/ UNCHANGED early
       \/ c = "mature" /\ collateral \in {"gone", "young"} /\ early' = 1 .. signed
    /\ due' = due \cup {"update"}
    /\ faults' = faults + 1
    /\ UNCHANGED <<signed, sigAge, pings, entry, seenB, seenP, synced, handler, loop,
                   stable, running>>

\* SaveCache demotes an enabled entry; LoadCache keeps of seenPings only the
\* ping that the entry carries, and nothing of seenBroadcasts.  Without a cache
\* file the list is empty.
Restart(cached) ==
    /\ ~stable /\ faults < MaxFaults
    /\ faults' = faults + 1
    /\ entry' = IF ~cached \/ entry = NoEntry THEN NoEntry
                ELSE IF entry.status = "Enabled"
                     THEN [entry EXCEPT !.status = "PreEnabled"] ELSE entry
    /\ seenP' = IF entry' = NoEntry THEN {} ELSE seenP \cap {entry'.ping}
    /\ seenB' = [b \in Broadcasts |-> None]
    /\ synced' = FALSE
    /\ handler' = Idle /\ loop' = "idle"
    /\ due' = due \cup {"update"}
    /\ UNCHANGED <<signed, sigAge, early, pings, collateral, stable, running>>

Stabilize ==
    /\ ~stable /\ stable' = TRUE
    /\ running' \in BOOLEAN
    /\ running' => signed > 0 /\ signed \notin early /\ collateral = "mature"
    /\ UNCHANGED <<signed, sigAge, early, pings, collateral, entry, seenB, seenP,
                   synced, handler, loop, due, faults>>

Older(age, cap) == IF age < cap THEN age + 1 ELSE age

AgedPingsMutNeverForgets(ages) == {p + 1 : p \in ages}

\* Pings older than the tolerance are refused whether they were seen or not, so
\* the model forgets them before CleanSeenPings does, at SeenFor.
AgedPings(ages) == {p \in 1 .. Tolerance : p - 1 \in ages}

\* One ping interval passes.  The update loop runs in every interval (it runs
\* every five seconds) and the calls in progress end in theirs; in a stable
\* network the operator's ping is signed and arrives, and the broadcast is
\* offered again, in every interval.
Tick ==
    /\ handler = Idle /\ loop = "idle" /\ due = {}
    /\ stable => synced
    /\ sigAge' = [b \in Broadcasts |-> IF b <= signed THEN Older(sigAge[b], Cap) ELSE 0]
    /\ pings' = AgedPings(pings)
    /\ entry' = IF entry = NoEntry THEN NoEntry
                ELSE [entry EXCEPT !.ping = Older(entry.ping, Cap)]
    /\ seenB' = [b \in Broadcasts |-> IF seenB[b] = None THEN None
                                   ELSE Older(seenB[b], SeenFor + 1)]
    /\ seenP' = AgedPings(seenP)
    /\ due' = {"update"} \cup (IF stable /\ running THEN {"sign", "ping", "offer"} ELSE {})
    /\ UNCHANGED <<signed, early, collateral, synced, handler, loop, stable, running,
                   faults>>

HandleMessage ==
    \/ \E b \in Broadcasts, ping \in Ages : ReceiveBroadcast(b, ping)
    \/ CheckCollateral
    \/ StoreMasternode
    \/ \E ping \in 0 .. Tolerance, known \in BOOLEAN : ReceivePing(ping, known)
    \/ ApplyPing

UpdateLoop == UpdateStatuses \/ RemoveDead \/ ClearSeenBroadcasts

Next ==
    \/ SignBroadcast \/ SignPing
    \/ HandleMessage
    \/ UpdateLoop
    \/ MarkBroadcastSeen
    \/ BlockchainSynced \/ SleepDetected
    \/ \E c \in {"gone", "young", "mature", "spent"} : MoveCollateral(c)
    \/ \E cached \in BOOLEAN : Restart(cached)
    \/ Stabilize
    \/ Tick

Spec == Init /\ [][Next]_vars

\* Both goroutines run on.  In a stable network the sync ends, the clock moves,
\* and what is due in an interval happens in it.
Fairness ==
    /\ WF_vars(CheckCollateral \/ StoreMasternode \/ ApplyPing)
    /\ WF_vars(UpdateLoop)
    /\ WF_vars(stable /\ BlockchainSynced)
    /\ WF_vars(stable /\ "sign" \in due /\ SignPing)
    /\ WF_vars(stable /\ "ping" \in due /\ ReceivePing(0, TRUE))
    /\ WF_vars(/\ stable /\ "offer" \in due
               /\ \E b \in Broadcasts, ping \in Ages : ReceiveBroadcast(b, ping))
    /\ WF_vars(stable /\ Tick)

FairSpec == Spec /\ Fairness
-----------------------------------------------------------------------------
\* The node is synced and a round of the update loop has begun and ended since
\* the clock, the collateral or the sync state last moved.
Settled == synced /\ "update" \notin due /\ loop = "idle"

\* Whatever the handler does while the update loop decides and removes: after a
\* round no listed masternode has been silent for longer than RemovalSeconds,
\* none that counts as active for longer than ExpirationSeconds, and an enabled
\* one has pinged MinPingSeconds after its broadcast and has its collateral's
\* record.  A message replayed late brings no silent masternode back.
ListedIsAlive ==
    Settled /\ entry # NoEntry =>
        /\ entry.ping <= Removal
        /\ entry.status \in {"Enabled", "PreEnabled"} => entry.ping <= Expiration
        /\ entry.status = "Enabled" =>
               sigAge[entry.b] - entry.ping >= MinPing /\ collateral # "gone"

\* updateMasternodes takes only dead masternodes out of the list: the status that
\* phase 2 computed without the lock may be out of date in phase 2a.
RemovesOnlyDead ==
    [][entry # NoEntry /\ entry' = NoEntry /\ loop' = "clear" =>
           entry.ping > Removal \/ entry.status = "VinSpent"]_vars

\* A masternode whose operator pings over a network that has become reliable is
\* enabled for good in the end: no entry of seenBroadcasts or seenPings, no
\* status and no restart keeps it out.
OperatingIsEnabled ==
    [](stable /\ running => <>[](entry # NoEntry /\ entry.status = "Enabled"))

\* The update loop's check for a spent collateral: a masternode whose collateral
\* is spent is not enabled after a round.
SpentNotEnabled ==
    Settled /\ collateral = "spent" /\ entry # NoEntry => entry.status # "Enabled"
=============================================================================
