-------------------------------- MODULE Sync --------------------------------
(***************************************************************************)
(* Block synchronization (internal/p2p/sync.go, sync_statemachine.go): the *)
(* state machine that chooses a sync mode, startSync and stopSync, and the *)
(* batch goroutines ("sessions") that fetch blocks from one peer after     *)
(* another.  The maintenance goroutine and every session call              *)
(* updateConsensusState, and share atomics and one `done` channel.         *)
(*                                                                         *)
(* calls[a] is the call stack of goroutine a, the next step first, so      *)
(* goroutines interleave between the steps.  Of the blocks only the number *)
(* is kept.  The flags isInIBD and initialSync, which no step here reads,  *)
(* are left out.                                                           *)
(***************************************************************************)
EXTENDS Integers, Sequences, FiniteSets

CONSTANTS
    Peers,          \* the rotation list, a sequence
    Good,           \* peers that answer a request before it times out
    Sessions,       \* batch goroutines (bound: how many run at once)
    Maint,          \* the maintenance goroutine
    Threshold,      \* regularSyncThreshold, syncTriggerThreshold: 3
    IBDThreshold,   \* blockchain.IBDThreshold: 5000
    BatchSize,      \* most blocks in an inv: 500
    Invs,           \* how many blocks an unrequested inv may announce
    NearTip,        \* a partial batch this near to the tip ends the sync: 1000
    Heights,        \* heights the node may start from
    Nets,           \* heights the network may start from
    MaxNet,         \* bound: height of the network
    MaxFaults,      \* bound: outages, stalls, and failures other than timeouts
    StopTimeout,    \* whether stopSync may give up waiting
    None

ASSUME SyncAssumption ==
    /\ Peers \in Seq(STRING) /\ Len(Peers) > 0
    /\ Threshold \in Nat \ {0} /\ IBDThreshold \in Nat
    /\ BatchSize \in Nat \ {0} /\ NearTip \in Nat /\ Invs \subseteq Nat \ {0}
    /\ MaxNet \in Nat /\ MaxFaults \in Nat
    /\ Heights \subseteq 0 .. MaxNet /\ Nets \subseteq 0 .. MaxNet
    /\ StopTimeout \in BOOLEAN
    /\ None \notin Sessions /\ Maint \notin Sessions

VARIABLES
    state,      \* SyncStateMachine.currentState
    syncing, batchInProgress,   \* flags of the syncer
    consensus,  \* whether consensusHeight is known (not 0)
    peerTip,    \* peerTipHeight, the height the session aims at
    best,       \* bestHeight, the syncer's copy of the chain's height
    done,       \* the session whose exit the current `done` channel announces
    closed,     \* sessions whose channel is closed
    rotation,   \* SyncPeerList.currentIndex
    owner,      \* the session whose data pendingInv and incomingBlocks carry
    calls,      \* call stacks
    height,     \* the chain's height
    net,        \* the network's height
    agree,      \* whether enough peers agree on a height
    faults      \* how many there were, for the bound

channel == <<done, closed>>
chain == <<height, best>>
vars == <<state, syncing, batchInProgress, consensus, peerTip, best, done, closed, rotation,
          owner, calls, height, net, agree, faults>>

Goroutines == {Maint} \cup Sessions

States == {"BOOTSTRAP", "SYNC_DECISION", "IBD", "REGULAR_SYNC", "SYNCED"}

\* server.Start has collected peers and calls RebuildPeerList, which ends in
\* updateConsensusState, and OnBootstrapComplete.  The goroutine that does so is
\* the maintenance goroutine here: its first tick comes 10 seconds later.
Init ==
    /\ state = "BOOTSTRAP"
    /\ syncing = FALSE /\ batchInProgress = FALSE /\ consensus = FALSE /\ peerTip = 0
    /\ done = None /\ closed = {}
    /\ rotation = 1 /\ owner = None
    /\ height \in Heights /\ best = height /\ net \in Nets
    /\ agree = TRUE
    /\ faults = 0
    /\ calls = [a \in Goroutines |-> IF a = Maint THEN << <<"update">>, <<"bootstrapped">> >>
                                     ELSE <<>>]

-----------------------------------------------------------------------------
(* The call stack.                                                         *)

\* The next step of goroutine a is step s.
At(a, s) == calls[a] # <<>> /\ Head(calls[a])[1] = s

\* The argument of the next step.
Arg(a, i) == Head(calls[a])[i + 1]

\* The step is over, and what it called comes first.
Calling(a, steps) == calls' = [calls EXCEPT ![a] = steps \o Tail(@)]

Return(a) == Calling(a, <<>>)

-----------------------------------------------------------------------------
(* startSync and stopSync.                                                 *)

\* GetNextSyncPeer: the next peer of the list.  (Mutants: the index is not
\* wrapped to the first peer; a failed peer is asked again.)
NextPeer == Peers[rotation]
NextRotationMutNoWrap == rotation + 1
NextRotationMutStuck == rotation
NextRotation == (rotation % Len(Peers)) + 1

\* startSync wins its compare-and-swap, and will set the session up.
StartSync(a, peer) ==
    /\ ~syncing /\ syncing' = TRUE
    /\ Calling(a, << <<"launch", peer>> >>)

\* stopSync wins its compare-and-swap, and will wait for the session.
StopSync(a, steps) ==
    /\ syncing /\ syncing' = FALSE
    /\ Calling(a, IF done = None THEN steps ELSE << <<"wait", done>> >> \o steps)

\* Session g has returned and nobody waits for its channel.
Free(g) ==
    /\ calls[g] = <<>>
    /\ \A a \in Goroutines : \A i \in 1 .. Len(calls[a]) : calls[a][i] # <<"wait", g>>

\* The rest of startSync: a new channel, the target, and the batch goroutine.
\* EffectivePeerHeight of every peer is the network's height, and so is the
\* consensus height.
Launch(a) ==
    /\ At(a, "launch")
    /\ \E g \in Sessions :
        /\ Free(g)
        /\ done' = g /\ closed' = closed \ {g}
        /\ calls' = [calls EXCEPT ![a] = Tail(@), ![g] = << <<"loop", Arg(a, 1)>> >>]
    /\ peerTip' = net
    /\ UNCHANGED <<state, syncing, batchInProgress, consensus, rotation, owner, chain, net, agree,
                   faults>>

\* stopSync waits until the channel is closed, at most 60 seconds.
WaitDone(a) ==
    /\ At(a, "wait")
    /\ Arg(a, 1) \in closed \/ StopTimeout
    /\ Return(a)
    /\ UNCHANGED <<state, syncing, batchInProgress, consensus, peerTip, channel, rotation, owner,
                   chain, net, agree, faults>>

-----------------------------------------------------------------------------
(* The state machine.                                                      *)

\* EvaluateSyncNeeded: the mode for a node at h when the target is t.
EvaluateSyncNeeded(h, t) ==
    IF t - h < Threshold THEN "SYNCED"
    ELSE IF t - h >= IBDThreshold THEN "IBD" ELSE "REGULAR_SYNC"

\* The target of updateConsensusState: during a batch the height the session
\* aims at counts when it is larger.
Target == IF batchInProgress /\ peerTip > net THEN peerTip ELSE net

\* updateConsensusState, up to its calls of Transition and ensureSyncAlignment.
UpdateConsensusState(a) ==
    /\ At(a, "update")
    /\ consensus' = agree
    /\ LET target == EvaluateSyncNeeded(height, Target)
       IN  Calling(a, CASE ~agree -> IF state = "SYNCED" THEN << <<"transition", "REGULAR_SYNC">> >>
                                     ELSE <<>>
                        [] agree /\ state = "BOOTSTRAP" -> <<>>
                        [] OTHER -> IF target = state THEN << <<"align">> >>
                                    ELSE << <<"transition", target>>, <<"align">> >>)
    /\ UNCHANGED <<state, syncing, batchInProgress, peerTip, channel, rotation, owner, chain, net,
                   agree, faults>>

\* Transition, whose callback handleStateChange calls ensureSyncAlignment after
\* the lock is released.
Transition(a) ==
    /\ At(a, "transition")
    /\ state' = Arg(a, 1)
    /\ Calling(a, IF state = Arg(a, 1) THEN <<>> ELSE << <<"align">> >>)
    /\ UNCHANGED <<syncing, batchInProgress, consensus, peerTip, channel, rotation, owner, chain,
                   net, agree, faults>>

\* ensureSyncAlignment: a running session is stopped when the state is SYNCED,
\* and one is started when the state asks for it.
EnsureSyncAlignment(a) ==
    /\ At(a, "align")
    /\ \/ /\ state = "SYNCED"
          /\ StopSync(a, <<>>)
          /\ UNCHANGED rotation
       \/ /\ state \in {"IBD", "REGULAR_SYNC"}
          /\ StartSync(a, NextPeer)
          /\ rotation' = NextRotation
       \/ /\ ~(state = "SYNCED" /\ syncing)
          /\ ~(state \in {"IBD", "REGULAR_SYNC"} /\ ~syncing)
          /\ Return(a)
          /\ UNCHANGED <<syncing, rotation>>
    /\ UNCHANGED <<state, batchInProgress, consensus, peerTip, channel, owner, chain, net, agree,
                   faults>>

\* OnBootstrapComplete.
OnBootstrapComplete(a) ==
    /\ At(a, "bootstrapped")
    /\ Calling(a, << <<"transition", "SYNC_DECISION">>, <<"update">> >>)
    /\ UNCHANGED <<state, syncing, batchInProgress, consensus, peerTip, channel, rotation, owner,
                   chain, net, agree, faults>>

-----------------------------------------------------------------------------
(* The batch goroutine.                                                    *)

\* The head of the loop: the session ends when the target is reached or a stop
\* was requested.
LoopEnds(g) ==
    /\ At(g, "loop") /\ (best >= peerTip \/ ~syncing)
    /\ Calling(g, << <<"exit">> >>)
    /\ UNCHANGED <<state, syncing, batchInProgress, consensus, peerTip, channel, rotation, owner,
                   chain, net, agree, faults>>

\* Otherwise processBatch drains the channels, which takes away what another
\* session waits for, and asks the peer for blocks.
RequestBatch(g) ==
    /\ At(g, "loop") /\ best < peerTip /\ syncing
    /\ Calling(g, << <<"collect", Arg(g, 1), peerTip - best < NearTip>> >>)
    /\ batchInProgress' = TRUE
    /\ owner' = g
    /\ UNCHANGED <<state, syncing, consensus, peerTip, channel, rotation, chain, net, agree, faults>>

\* How many blocks a peer announces: an inv holds at most BatchSize.
Available == IF net - height < BatchSize THEN net - height ELSE BatchSize

\* A partial batch near the tip ends the sync, any other one rotates the peer,
\* and a full batch keeps it unless it was slow.  lastInvSize is the batch's size
\* or that of an announcement which was handled before it is read.
Outcomes(near) ==
    UNION {CASE size < BatchSize -> {IF near /\ size > 1 THEN "end" ELSE "rotate"}
             [] OTHER -> {"rotate", "stay"} : size \in {Available} \cup Invs}

\* Session g waits for blocks that do arrive.
Answered(g) == At(g, "collect") /\ owner = g /\ Arg(g, 1) \in Good /\ Available > 0

\* The blocks arrive and ProcessBlockBatch accepts them.
BatchAccepted(g) ==
    /\ Answered(g)
    /\ height' = height + Available /\ best' = height'
    /\ \E outcome \in Outcomes(Arg(g, 2)) :
        Calling(g, << <<"update">>, <<outcome, Arg(g, 1)>> >>)
    /\ UNCHANGED <<state, syncing, batchInProgress, consensus, peerTip, channel, rotation, owner,
                   net, agree, faults>>

\* The node was on a fork, or its indexes were damaged, and its blocks above h
\* are rolled back.  How the loop goes on depends on which check found it.
BatchRolledBack(g) ==
    /\ Answered(g) /\ faults < MaxFaults
    /\ faults' = faults + 1
    /\ \E h \in 0 .. height : height' = h
    /\ batchInProgress' = FALSE
    \* TriggerRecovery: "sync restart needed after recovery"; or, when several
    \* peers' batches failed at one height, tryReactiveIndexRecovery, which may
    \* repair the indexes without a rollback.
    /\ \/ best' = height' /\ Calling(g, << <<"loop", Arg(g, 1)>> >>) /\ UNCHANGED rotation
       \* detectFork in fork search mode, which is no error.
       \/ /\ height' < height /\ best' = height' /\ UNCHANGED rotation
          /\ \E outcome \in Outcomes(Arg(g, 2)) : Calling(g, << <<outcome, Arg(g, 1)>> >>)
       \* ErrForkDuplicateSpend: the loop does not know the error's text.
       \/ /\ height' < height /\ UNCHANGED best
          /\ Calling(g, << <<"loop", NextPeer>> >>) /\ rotation' = NextRotation
    /\ UNCHANGED <<state, syncing, consensus, peerTip, channel, owner, net, agree>>

\* The inv is empty or every block is known (ErrAllBlocksExist, with which fork
\* search begins or goes on, and ErrBlockExists): no error, and no progress.
BatchKnown(g) ==
    /\ At(g, "collect") /\ owner = g /\ Arg(g, 1) \in Good
    /\ faults < MaxFaults /\ faults' = faults + 1
    /\ \E outcome \in Outcomes(Arg(g, 2)) : Calling(g, << <<outcome, Arg(g, 1)>> >>)
    /\ UNCHANGED <<state, syncing, batchInProgress, consensus, peerTip, channel, rotation, owner,
                   chain, net, agree>>

\* The batch is invalid, out of sequence or partly missing.
BatchRejected(g) ==
    /\ Answered(g) /\ faults < MaxFaults
    /\ faults' = faults + 1
    /\ \E steps \in {<<>>, << <<"update">> >>} : Calling(g, steps \o << <<"failed">> >>)
    /\ UNCHANGED <<state, syncing, batchInProgress, consensus, peerTip, channel, rotation, owner,
                   chain, net, agree>>

\* No inv, or not all blocks, within 30 seconds.  A good peer's answer to
\* another session arrives earlier.
BatchTimeout(g) ==
    /\ At(g, "collect") /\ \A s \in Sessions : ~Answered(s)
    /\ Calling(g, << <<"update">>, <<"failed">> >>)
    /\ UNCHANGED <<state, syncing, batchInProgress, consensus, peerTip, channel, rotation, owner,
                   chain, net, agree, faults>>

\* The end of an iteration, processBatch's deferred reset first: the session
\* stays with its peer, goes to the next one, or exits.
BatchComplete(g) ==
    /\ batchInProgress' = FALSE
    /\ \/ At(g, "end") /\ Calling(g, << <<"exit">> >>) /\ UNCHANGED rotation
       \/ At(g, "stay") /\ Calling(g, << <<"loop", Arg(g, 1)>> >>) /\ UNCHANGED rotation
       \/ /\ At(g, "rotate") \/ At(g, "failed")
          /\ Calling(g, << <<"loop", NextPeer>> >>) /\ rotation' = NextRotation
    /\ UNCHANGED <<state, syncing, consensus, peerTip, channel, owner, chain, net, agree, faults>>

\* After every third round of the rotation RebuildPeerList shuffles the list,
\* starts at its head again and evaluates consensus before the loop goes on.
RebuildPeerList(g) ==
    /\ At(g, "stay") \/ At(g, "rotate")
    /\ batchInProgress' = FALSE
    /\ rotation' \in 1 .. Len(Peers)
    /\ Calling(g, << <<"update">>, IF At(g, "stay") THEN <<"resume", Arg(g, 1)>> ELSE <<"next">> >>)
    /\ UNCHANGED <<state, syncing, consensus, peerTip, channel, owner, chain, net, agree, faults>>

\* The end of the iteration after it.
ResumeLoop(g) ==
    /\ \/ At(g, "resume") /\ Calling(g, << <<"loop", Arg(g, 1)>> >>) /\ UNCHANGED rotation
       \/ At(g, "next") /\ Calling(g, << <<"loop", NextPeer>> >>) /\ rotation' = NextRotation
    /\ UNCHANGED <<state, syncing, batchInProgress, consensus, peerTip, channel, owner, chain, net,
                   agree, faults>>

\* Mutant: the flag survives the session.
ExitSessionMutKeepsFlag(g) ==
    /\ At(g, "exit")
    /\ Calling(g, << <<"close">> >>)
    /\ UNCHANGED <<state, syncing, batchInProgress, consensus, peerTip, channel, rotation, owner,
                   chain, net, agree, faults>>

\* The deferred function of the goroutine: syncing is cleared ...
ExitSession(g) ==
    /\ At(g, "exit")
    /\ syncing' = FALSE
    /\ Calling(g, << <<"close">> >>)
    /\ UNCHANGED <<state, batchInProgress, consensus, peerTip, channel, rotation, owner, chain,
                   net, agree, faults>>

\* ... and the channel that is current by then is closed, unless it is already.
CloseDone(g) ==
    /\ At(g, "close")
    /\ closed' = closed \cup {done}
    /\ Return(g)
    /\ UNCHANGED <<state, syncing, batchInProgress, consensus, peerTip, done, rotation, owner,
                   chain, net, agree, faults>>

-----------------------------------------------------------------------------
(* The maintenance goroutine.                                              *)

\* A tick of syncMaintenance.
Tick ==
    /\ calls[Maint] = <<>>
    /\ calls' = [calls EXCEPT ![Maint] = << <<"update">>, <<"legacy">>, <<"stall">>, <<"behind">> >>]
    /\ UNCHANGED <<state, syncing, batchInProgress, consensus, peerTip, channel, rotation, owner,
                   chain, net, agree, faults>>

\* A session is started with the peer of the best score, by findSyncPeer.
StartBehind(behind) ==
    \/ behind /\ \E i \in 1 .. Len(Peers) : StartSync(Maint, Peers[i])
    \/ ~(behind /\ ~syncing) /\ Return(Maint) /\ UNCHANGED syncing

\* maintainSync without consensus: the peers' heights decide.  That of the sync
\* peer, which stopSync may have forgotten, raises the target of the session.
LegacyFallback ==
    /\ At(Maint, "legacy")
    /\ peerTip' = peerTip \/ (~consensus /\ net > peerTip /\ peerTip' = net)
    /\ StartBehind(~consensus /\ net - height >= Threshold)
    /\ UNCHANGED <<state, batchInProgress, consensus, channel, rotation, owner, chain,
                   net, agree, faults>>

\* maintainSync: no progress for syncStallTimeout restarts the sync.
CheckStall ==
    /\ At(Maint, "stall")
    /\ \/ Return(Maint) /\ UNCHANGED <<syncing, faults>>
       \/ /\ faults < MaxFaults /\ faults' = faults + 1
          /\ StopSync(Maint, << <<"restart">> >>)
    /\ UNCHANGED <<state, batchInProgress, consensus, peerTip, channel, rotation, owner, chain,
                   net, agree>>

\* ... with a new session once stopSync has returned.
Restart ==
    /\ At(Maint, "restart")
    /\ StartBehind(TRUE)
    /\ UNCHANGED <<state, batchInProgress, consensus, peerTip, channel, rotation, owner, chain,
                   net, agree, faults>>

\* The end of syncMaintenance's tick: a node behind by bestHeight starts.
RestartBehind ==
    /\ At(Maint, "behind")
    /\ StartBehind(net >= best + Threshold)
    /\ UNCHANGED <<state, batchInProgress, consensus, peerTip, channel, rotation, owner, chain,
                   net, agree, faults>>

-----------------------------------------------------------------------------
(* The network.                                                            *)

\* A block is announced.  A node at the tip processes it, unless a batch is in
\* progress: OnBlockProcessed then hands it to the batch, which drops it.
NewBlock ==
    /\ net < MaxNet
    /\ net' = net + 1
    /\ \/ /\ ~batchInProgress /\ height = net
          /\ height' = height + 1 /\ best' = height'
       \/ UNCHANGED chain
    /\ UNCHANGED <<state, syncing, batchInProgress, consensus, peerTip, channel, rotation, owner,
                   calls, agree, faults>>

\* handleInventoryAnnouncement, on the invProcessor goroutine: k blocks that the
\* sync peer announces, known or not, are taken to follow the chain's tip, so
\* the session may aim beyond the network's height.
HandleInventoryAnnouncement(k) ==
    /\ \E g \in Sessions : calls[g] # <<>>
    /\ LET estimated == {height + k} \cup (IF k = BatchSize /\ syncing THEN {net} ELSE {})
       IN  peerTip' \in estimated /\ peerTip' > peerTip /\ \A h \in estimated : peerTip' >= h
    /\ \/ peerTip' <= net /\ UNCHANGED faults
       \/ peerTip' > net /\ faults < MaxFaults /\ faults' = faults + 1
    /\ UNCHANGED <<state, syncing, batchInProgress, consensus, channel, rotation, owner, calls,
                   chain, net, agree>>

\* Peers leave until CalculateConsensusHeight finds no cluster, or come back.
ConsensusLost ==
    /\ agree /\ faults < MaxFaults
    /\ agree' = FALSE /\ faults' = faults + 1
    /\ UNCHANGED <<state, syncing, batchInProgress, consensus, peerTip, channel, rotation, owner,
                   calls, chain, net>>

ConsensusFound ==
    /\ ~agree
    /\ agree' = TRUE
    /\ UNCHANGED <<state, syncing, batchInProgress, consensus, peerTip, channel, rotation, owner,
                   calls, chain, net, faults>>

-----------------------------------------------------------------------------

Step(a) ==
    \/ UpdateConsensusState(a) \/ Transition(a) \/ EnsureSyncAlignment(a)
    \/ OnBootstrapComplete(a) \/ Launch(a) \/ WaitDone(a)

SessionStep(g) ==
    \/ LoopEnds(g) \/ RequestBatch(g)
    \/ BatchAccepted(g) \/ BatchRolledBack(g) \/ BatchKnown(g) \/ BatchRejected(g)
    \/ BatchTimeout(g) \/ BatchComplete(g) \/ RebuildPeerList(g) \/ ResumeLoop(g)
    \/ ExitSession(g) \/ CloseDone(g)

Maintenance == Tick \/ LegacyFallback \/ CheckStall \/ Restart \/ RestartBehind

Network ==
    \/ NewBlock \/ ConsensusLost \/ ConsensusFound
    \/ \E k \in Invs : HandleInventoryAnnouncement(k)

Next ==
    \/ \E a \in Goroutines : Step(a)
    \/ \E g \in Sessions : SessionStep(g)
    \/ Maintenance
    \/ Network

\* Every goroutine that can take a step takes one, and the ticker ticks.
Spec ==
    /\ Init /\ [][Next]_vars
    /\ WF_vars(Step(Maint) \/ Maintenance)
    /\ \A g \in Sessions : WF_vars(Step(g) \/ SessionStep(g))

-----------------------------------------------------------------------------
(* Properties.                                                             *)

StepNames == {"update", "bootstrapped", "transition", "align", "launch", "wait", "loop",
              "collect", "failed", "end", "rotate", "stay", "resume", "next", "exit", "close",
              "legacy", "stall", "restart", "behind"}

\* Type correctness.
TypeOK ==
    /\ state \in States
    /\ {syncing, batchInProgress, consensus, agree} \subseteq BOOLEAN
    /\ peerTip \in Nat /\ net \in 0 .. MaxNet
    /\ height \in 0 .. MaxNet /\ best \in 0 .. MaxNet
    /\ done \in Sessions \cup {None} /\ owner \in Sessions \cup {None}
    /\ closed \subseteq Sessions
    /\ rotation \in 1 .. Len(Peers)
    /\ DOMAIN calls = Goroutines
    /\ \A a \in Goroutines : \A i \in 1 .. Len(calls[a]) : calls[a][i][1] \in StepNames
    /\ faults \in 0 .. MaxFaults

\* Session g has neither ended nor begun to end.
Running(g) == calls[g] # <<>> /\ ~At(g, "close")

\* The flag that keeps startSync out is set only while a session runs or is
\* about to: if it could be left behind, the node would never sync again.
NoStrandedSyncing ==
    syncing => \/ \E g \in Sessions : Running(g)
               \/ \E a \in Goroutines : At(a, "launch")

\* A session is started while another has not returned.
Overlap ==
    \/ Cardinality({g \in Sessions : calls[g] # <<>>}) > 1
    \/ \E a \in Goroutines : At(a, "launch") /\ \E g \in Sessions : calls[g] # <<>>

\* A node that is behind catches up, whatever the order in which the goroutines
\* run: through a stall, lost consensus, sessions stopped and restarted, a peer
\* that does not answer, and a fork of its own.  The one exception are sessions
\* that keep overlapping for ever: each of them takes the answers and the flag
\* of the other.
Converges == <>[](net - height < Threshold) \/ []<>Overlap
=============================================================================
