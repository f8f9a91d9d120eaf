----------------------------- MODULE Sync_proofs -----------------------------
(***************************************************************************)
(* Theorems about Sync, for every rotation list, every number of batch     *)
(* goroutines and all thresholds: the types; that the syncing flag, which  *)
(* keeps startSync out, is never left behind by the goroutines that share  *)
(* it; and that every round of a goroutine ends, although the functions of *)
(* the state machine call each other.                                      *)
(***************************************************************************)
EXTENDS Sync, SequenceTheorems, TLAPS

-----------------------------------------------------------------------------
(* Call stacks.                                                            *)

\* The batch requests of peers, near the tip or not.
Collects(peers, flags) == {<<"collect", p, near>> : p \in peers, near \in flags}

\* A step that is still to be taken, with its arguments.
Frame ==
    {<<s>> : s \in {"update", "bootstrapped", "align", "failed", "next", "exit", "close",
                    "legacy", "stall", "restart", "behind"}}
    \cup {<<"transition", t>> : t \in States}
    \cup {<<"wait", g>> : g \in Sessions}
    \cup {<<s, p>> : s \in {"launch", "loop", "end", "rotate", "stay", "resume"}, p \in STRING}
    \cup Collects(STRING, BOOLEAN)

\* Steps of functions the batch goroutine calls, ...
Interior == {"update", "transition", "align", "launch", "wait"}

\* ... steps of its loop that come after such a call, ...
Resumed == {"failed", "end", "rotate", "stay", "resume", "next"}

\* ... and those that stand alone.
Final == Resumed \cup {"loop", "collect", "exit", "close"}

\* The call stack of a batch goroutine: calls on top of one step of its loop.
Shaped(s) ==
    \A i \in 1 .. Len(s) :
        s[i][1] \in IF i < Len(s) THEN Interior ELSE IF Len(s) = 1 THEN Final ELSE Resumed

\* Steps that a called function may put on the stack.
Inside(steps) == \A i \in 1 .. Len(steps) : steps[i][1] \in Interior

LEMMA FrameFacts ==
    ASSUME NEW f \in Frame
    PROVE  /\ f[1] \in StepNames
           /\ f[1] = "transition" => f[2] \in States
           /\ f[1] = "wait" => f[2] \in Sessions
           /\ f[1] \in {"launch", "loop", "end", "rotate", "stay", "resume", "collect"} => f[2] \in STRING
           /\ f[1] = "collect" => f[3] \in BOOLEAN
  <1>1. CASE f \in {<<s>> : s \in {"update", "bootstrapped", "align", "failed", "next", "exit",
                                   "close", "legacy", "stall", "restart", "behind"}}
    BY <1>1 DEF StepNames
  <1>2. CASE f \in {<<"transition", t>> : t \in States}
    BY <1>2 DEF StepNames
  <1>3. CASE f \in {<<"wait", g>> : g \in Sessions}
    BY <1>3 DEF StepNames
  <1>4. CASE f \in {<<s, p>> : s \in {"launch", "loop", "end", "rotate", "stay", "resume"}, p \in STRING}
    BY <1>4 DEF StepNames
  <1>5. CASE f \in Collects(STRING, BOOLEAN)
    BY <1>5 DEF StepNames, Collects
  <1> QED
    BY <1>1, <1>2, <1>3, <1>4, <1>5 DEF Frame

\* The stacks the batch goroutine's own steps leave behind.
LEMMA ShapedStacks ==
    /\ Shaped(<<>>)
    /\ \A f \in Frame : f[1] \in Final => Shaped(<<f>>)
    /\ \A f, r \in Frame : f[1] \in Interior /\ r[1] \in Resumed => Shaped(<<f, r>>)
  BY DEF Shaped

\* A step of the loop with the peer it is about.
LEMMA LoopFrame ==
    ASSUME NEW p \in STRING
    PROVE  \A s \in {"launch", "loop", "end", "rotate", "stay", "resume"} : <<s, p>> \in Frame
  <1>1. ASSUME NEW s \in {"launch", "loop", "end", "rotate", "stay", "resume"}
        PROVE  <<s, p>> \in {<<n, q>> : n \in {"launch", "loop", "end", "rotate", "stay", "resume"},
                                        q \in STRING}
    OBVIOUS
  <1>2. ASSUME NEW s \in {"launch", "loop", "end", "rotate", "stay", "resume"}
        PROVE  <<s, p>> \in Frame
    BY <1>1 DEF Frame
  <1> QED
    BY <1>2

\* Stacks of at most two steps.
LEMMA FrameSeqs ==
    /\ <<>> \in Seq(Frame) /\ Inside(<<>>)
    /\ \A f \in Frame : <<f>> \in Seq(Frame) /\ (f[1] \in Interior => Inside(<<f>>))
    /\ \A f, r \in Frame :
          <<f, r>> \in Seq(Frame) /\ (f[1] \in Interior /\ r[1] \in Interior => Inside(<<f, r>>))
  BY DEF Inside

\* A called function that returns, or calls others in its turn, leaves what it
\* was called from.
LEMMA ShapedCalls ==
    ASSUME NEW s \in Seq(Frame), s # <<>>, Shaped(s), Head(s)[1] \in Interior,
           NEW steps \in Seq(Frame), Inside(steps)
    PROVE  LET t == steps \o Tail(s)
           IN  t # <<>> /\ Shaped(t) /\ Head(t)[1] # "close"
  <1> DEFINE u == Tail(s)
             t == steps \o u
  <1>1. /\ u \in Seq(Frame) /\ Len(u) = Len(s) - 1 /\ Head(s) = s[1]
        /\ \A i \in 1 .. Len(u) : u[i] = s[i + 1]
    BY HeadTailProperties
  <1> HIDE DEF u
  <1>2. Len(s) > 1
    <2>1. Len(s) \in Nat /\ Len(s) # 0
      OBVIOUS
    <2>2. Len(s) # 1
      BY <1>1 DEF Shaped, Interior, Final, Resumed
    <2>3. \A n \in Nat : n # 0 /\ n # 1 => n > 1
      OBVIOUS
    <2> QED
      BY <2>1, <2>2, <2>3
  <1>3. /\ t \in Seq(Frame) /\ Len(t) = Len(steps) + Len(u) /\ Len(t) > 0
        /\ \A i \in 1 .. Len(steps) : t[i] = steps[i]
        /\ \A i \in Len(steps) + 1 .. Len(t) : t[i] = u[i - Len(steps)]
        /\ Len(steps) \in Nat /\ Len(u) \in Nat /\ Len(s) \in Nat
    <2>1. Len(steps) \in Nat /\ Len(u) \in Nat /\ Len(s) \in Nat
      BY <1>1
    <2>2. /\ t \in Seq(Frame) /\ Len(t) = Len(steps) + Len(u)
          /\ \A i \in 1 .. Len(steps) + Len(u) :
                t[i] = IF i <= Len(steps) THEN steps[i] ELSE u[i - Len(steps)]
      BY <1>1, ConcatProperties
    <2> HIDE DEF t
    <2> QED
      BY <1>1, <1>2, <2>1, <2>2
  <1> HIDE DEF t
  <1>4. ASSUME NEW i \in 1 .. Len(t)
        PROVE  t[i][1] \in IF i < Len(t) THEN Interior ELSE Resumed
    <2>1. CASE i <= Len(steps)
      BY <1>1, <1>2, <1>3, <2>1 DEF Inside
    <2>2. CASE i > Len(steps)
      <3>1. i - Len(steps) \in 1 .. Len(u) /\ t[i] = s[i - Len(steps) + 1]
        <4>1. i - Len(steps) \in 1 .. Len(u) /\ i \in Len(steps) + 1 .. Len(t)
          BY <1>3, <2>2
        <4>2. t[i] = u[i - Len(steps)]
          BY <1>3, <4>1
        <4> QED
          BY <1>1, <4>1, <4>2
      <3>2. i - Len(steps) + 1 \in 1 .. Len(s)
            /\ (i < Len(t) <=> i - Len(steps) + 1 < Len(s))
        BY <1>1, <1>3, <3>1
      <3> QED
        BY <1>2, <3>1, <3>2 DEF Shaped
    <2> QED
      BY <1>3, <2>1, <2>2
  <1>5. Shaped(t)
    BY <1>4 DEF Shaped, Final
  <1>6. t # <<>> /\ Head(t) = t[1] /\ 1 \in 1 .. Len(t)
    BY <1>3, HeadTailProperties
  <1>7. Head(t)[1] # "close"
    BY <1>4, <1>6 DEF Interior, Resumed
  <1> QED
    BY <1>5, <1>6, <1>7 DEF t, u

\* A step of the loop is alone on the stack.
LEMMA ShapedAlone ==
    ASSUME NEW s \in Seq(Frame), s # <<>>, Shaped(s), Head(s)[1] \in Final,
           NEW steps \in Seq(Frame)
    PROVE  steps \o Tail(s) = steps
  <1>1. Len(s) \in Nat /\ Len(s) # 0 /\ Head(s) = s[1] /\ Tail(s) \in Seq(Frame)
        /\ Len(Tail(s)) = Len(s) - 1
    BY HeadTailProperties
  <1>2. Len(s) = 1
    BY <1>1 DEF Shaped, Interior, Final, Resumed
  <1>3. Tail(s) = <<>>
    BY <1>1, <1>2, EmptySeq
  <1> QED
    BY <1>3, ConcatEmptySeq

-----------------------------------------------------------------------------
(* The inductive invariant.                                                *)

\* The call stacks, and the channel: once a session has been launched there is
\* one to close.
CallsOK ==
    /\ calls \in [Goroutines -> Seq(Frame)]
    /\ \A g \in Sessions : Shaped(calls[g])
    /\ (\E g \in Sessions : calls[g] # <<>>) => done \in Sessions

\* TypeOK without the call stacks.
FlagsOK ==
    /\ state \in States
    /\ {syncing, batchInProgress, consensus, agree} \subseteq BOOLEAN
    /\ peerTip \in Nat /\ net \in 0 .. MaxNet
    /\ height \in 0 .. MaxNet /\ best \in 0 .. MaxNet
    /\ done \in Sessions \cup {None} /\ owner \in Sessions \cup {None}
    /\ closed \subseteq Sessions
    /\ rotation \in 1 .. Len(Peers)
    /\ faults \in 0 .. MaxFaults

Inv == FlagsOK /\ CallsOK /\ NoStrandedSyncing

\* The next step of a goroutine is a frame.
LEMMA NextFrame ==
    ASSUME CallsOK, NEW a \in Goroutines, calls[a] # <<>>
    PROVE  /\ Head(calls[a]) \in Frame /\ Tail(calls[a]) \in Seq(Frame)
           /\ calls[a] \in Seq(Frame)
  BY HeadTailProperties DEF CallsOK

LEMMA CalledFrames ==
    ASSUME CallsOK, NEW a \in Goroutines, calls[a] # <<>>, NEW steps \in Seq(Frame),
           Calling(a, steps)
    PROVE  /\ calls' \in [Goroutines -> Seq(Frame)]
           /\ calls'[a] = steps \o Tail(calls[a])
           /\ \A b \in Goroutines \ {a} : calls'[b] = calls[b]
  <1>1. steps \o Tail(calls[a]) \in Seq(Frame)
    BY NextFrame, ConcatProperties
  <1> QED
    BY <1>1 DEF Calling, CallsOK

\* A step of a function that is called, or of the maintenance goroutine.
LEMMA CalledInside ==
    ASSUME CallsOK, NEW a \in Goroutines, calls[a] # <<>>, NEW steps \in Seq(Frame),
           Calling(a, steps),
           a = Maint \/ (Head(calls[a])[1] \in Interior /\ Inside(steps))
    PROVE  /\ calls' \in [Goroutines -> Seq(Frame)]
           /\ \A g \in Sessions : Shaped(calls'[g])
           /\ \A g \in Sessions : calls'[g] # <<>> => calls[g] # <<>>
           /\ \A g \in Sessions : Running(g) => Running(g)'
           /\ \A b \in Goroutines \ {a} : At(b, "launch") => At(b, "launch")'
  <1>1. /\ calls' \in [Goroutines -> Seq(Frame)]
        /\ calls'[a] = steps \o Tail(calls[a])
        /\ \A b \in Goroutines \ {a} : calls'[b] = calls[b]
    BY CalledFrames
  <1>2. CASE a = Maint
    <2>1. \A g \in Sessions : calls'[g] = calls[g]
      BY <1>1, <1>2, SyncAssumption DEF Goroutines, SyncAssumption
    <2> QED
      BY <1>1, <2>1 DEF CallsOK, Running, At
  <1>3. CASE a # Maint
    <2>1. a \in Sessions /\ calls[a] \in Seq(Frame) /\ Shaped(calls[a])
      BY <1>3, NextFrame DEF Goroutines, CallsOK
    <2>2. calls'[a] # <<>> /\ Shaped(calls'[a]) /\ Head(calls'[a])[1] # "close"
      BY <1>1, <1>3, <2>1, ShapedCalls
    <2>3. \A g \in Sessions \ {a} : calls'[g] = calls[g]
      BY <1>1 DEF Goroutines
    <2> QED
      BY <1>1, <2>1, <2>2, <2>3 DEF CallsOK, Running, At
  <1> QED
    BY <1>2, <1>3

\* A step of the loop of batch goroutine g.
LEMMA CalledLoop ==
    ASSUME CallsOK, NEW g \in Sessions, calls[g] # <<>>, Head(calls[g])[1] \in Final,
           NEW steps \in Seq(Frame), Calling(g, steps), Shaped(steps)
    PROVE  /\ calls' \in [Goroutines -> Seq(Frame)]
           /\ \A h \in Sessions : Shaped(calls'[h])
           /\ \A h \in Sessions : calls'[h] # <<>> => calls[h] # <<>>
           /\ calls'[g] = steps
           /\ \A h \in Sessions \ {g} : Running(h) => Running(h)'
           /\ \A b \in Goroutines : At(b, "launch") => At(b, "launch")'
  <1>1. g \in Goroutines
    BY DEF Goroutines
  <1>2. /\ calls' \in [Goroutines -> Seq(Frame)]
        /\ calls'[g] = steps \o Tail(calls[g])
        /\ \A b \in Goroutines \ {g} : calls'[b] = calls[b]
    BY <1>1, CalledFrames
  <1>3. calls'[g] = steps
    BY <1>1, <1>2, NextFrame, ShapedAlone DEF CallsOK
  <1>4. \A h \in Sessions \ {g} : calls'[h] = calls[h]
    BY <1>2 DEF Goroutines
  <1>5. ~At(g, "launch")
    BY DEF At, Final, Resumed
  <1>6. \A b \in Goroutines : At(b, "launch") => At(b, "launch")'
    BY <1>2, <1>5 DEF At
  <1> QED
    BY <1>2, <1>3, <1>4, <1>6 DEF CallsOK, Running, At

\* A step that adds nothing to the sessions and does not set the syncing flag.
LEMMA Settled ==
    ASSUME Inv, FlagsOK',
           calls' \in [Goroutines -> Seq(Frame)],
           \A g \in Sessions : Shaped(calls'[g]),
           \A g \in Sessions : calls'[g] # <<>> => calls[g] # <<>>,
           done' = done, syncing' => syncing,
           syncing' => \A g \in Sessions : Running(g) => Running(g)',
           syncing' => \A b \in Goroutines : At(b, "launch") => At(b, "launch")'
    PROVE  Inv'
  BY DEF Inv, CallsOK, NoStrandedSyncing

LEMMA InitInv == ASSUME Init PROVE Inv
  <1>1. rotation \in 1 .. Len(Peers) /\ Len(Peers) \in Nat
    BY SyncAssumption DEF Init, SyncAssumption
  <1>2. FlagsOK
    <2>1. MaxNet \in Nat /\ height \in 0 .. MaxNet /\ net \in 0 .. MaxNet /\ best = height
      BY SyncAssumption DEF Init, SyncAssumption
    <2>2. peerTip \in Nat /\ faults \in 0 .. MaxFaults
      BY SyncAssumption DEF Init, SyncAssumption
    <2>3. {syncing, batchInProgress, consensus, agree} \subseteq BOOLEAN
      BY DEF Init
    <2> QED
      BY <1>1, <2>1, <2>2, <2>3 DEF Init, FlagsOK, States
  <1>3. << <<"update">>, <<"bootstrapped">> >> \in Seq(Frame) /\ <<>> \in Seq(Frame)
    BY DEF Frame
  <1>4. \A g \in Sessions : calls[g] = <<>>
    BY SyncAssumption DEF Init, Goroutines, SyncAssumption
  <1>5. CallsOK
    BY <1>3, <1>4, ShapedStacks DEF Init, CallsOK
  <1> QED
    BY <1>2, <1>5 DEF Init, Inv, NoStrandedSyncing

-----------------------------------------------------------------------------
(* The state machine, startSync and stopSync.                              *)

\* startSync by a goroutine that is in a called function.
LEMMA StartSyncInv ==
    ASSUME Inv, FlagsOK', NEW a \in Goroutines, calls[a] # <<>>, NEW p \in STRING,
           a = Maint \/ Head(calls[a])[1] \in Interior, StartSync(a, p), done' = done
    PROVE  Inv'
  <1> DEFINE f == <<"launch", p>>
  <1>1. f \in Frame /\ <<f>> \in Seq(Frame)
    <2>1. f \in Frame
      BY LoopFrame
    <2> HIDE DEF f
    <2> QED
      BY <2>1
  <1>2. Len(<<f>>) = 1 /\ <<f>>[1] = f /\ f[1] = "launch"
    OBVIOUS
  <1>3. Calling(a, <<f>>)
    BY DEF StartSync
  <1> HIDE DEF f
  <1>4. Inside(<<f>>)
    BY <1>2 DEF Interior, Inside
  <1>5. /\ calls' \in [Goroutines -> Seq(Frame)]
        /\ \A g \in Sessions : Shaped(calls'[g])
        /\ \A g \in Sessions : calls'[g] # <<>> => calls[g] # <<>>
    BY <1>1, <1>3, <1>4, CalledInside DEF Inv
  <1>6. At(a, "launch")'
    <2>1. calls'[a] = <<f>> \o Tail(calls[a]) /\ Tail(calls[a]) \in Seq(Frame)
      BY <1>1, <1>3, CalledFrames, NextFrame DEF Inv
    <2>2. calls'[a] \in Seq(Frame) /\ Len(calls'[a]) > 0 /\ calls'[a][1] = f
      BY <1>1, <1>2, <2>1, ConcatProperties
    <2> QED
      BY <1>2, <2>2 DEF At
  <1> QED
    BY <1>5, <1>6 DEF Inv, CallsOK, NoStrandedSyncing

\* stopSync: the flag is cleared.
LEMMA StopSyncInv ==
    ASSUME Inv, FlagsOK', NEW a \in Goroutines, calls[a] # <<>>, NEW steps \in Seq(Frame),
           a = Maint \/ (Head(calls[a])[1] \in Interior /\ Inside(steps)),
           StopSync(a, steps), done' = done
    PROVE  Inv'
  <1>1. CASE done = None
    BY <1>1, CalledInside, Settled DEF Inv, StopSync
  <1>2. CASE done # None
    <2> DEFINE f == <<"wait", done>>
    <2>1. f \in Frame /\ f[1] = "wait"
      BY <1>2 DEF Frame, Inv, FlagsOK
    <2>2. Calling(a, <<f>> \o steps)
      BY <1>2 DEF StopSync
    <2> HIDE DEF f
    <2>3. /\ <<f>> \o steps \in Seq(Frame) /\ Len(<<f>> \o steps) = 1 + Len(steps)
          /\ \A i \in 1 .. 1 + Len(steps) :
                (<<f>> \o steps)[i] = IF i = 1 THEN f ELSE steps[i - 1]
      BY <2>1
    <2>4. Inside(steps) => Inside(<<f>> \o steps)
      BY <2>1, <2>3 DEF Interior, Inside
    <2> QED
      BY <2>2, <2>3, <2>4, CalledInside, Settled DEF Inv, StopSync
  <1> QED
    BY <1>1, <1>2

\* A step that only calls, or returns.
LEMMA QuietCall ==
    ASSUME Inv, FlagsOK', NEW a \in Goroutines, calls[a] # <<>>, ~At(a, "launch"),
           NEW steps \in Seq(Frame), Calling(a, steps), done' = done, syncing' = syncing,
           a = Maint \/ (Head(calls[a])[1] \in Interior /\ Inside(steps))
    PROVE  Inv'
  <1>1. \A b \in Goroutines : At(b, "launch") => At(b, "launch")'
    BY CalledInside DEF Inv
  <1> QED
    BY <1>1, CalledInside, Settled DEF Inv

LEMMA NextPeerType ==
    ASSUME Inv
    PROVE  NextPeer \in STRING /\ NextRotation \in 1 .. Len(Peers)
  <1>1. Peers \in Seq(STRING) /\ Len(Peers) \in Nat \ {0} /\ rotation \in 1 .. Len(Peers)
    BY SyncAssumption DEF SyncAssumption, Inv, FlagsOK
  <1> QED
    BY <1>1 DEF NextPeer, NextRotation

LEMMA UpdateInv ==
    ASSUME Inv, NEW a \in Goroutines, UpdateConsensusState(a)
    PROVE  Inv'
  <1> DEFINE target == EvaluateSyncNeeded(height, Target)
             f == <<"transition", "REGULAR_SYNC">>
             t == <<"transition", target>>
             r == <<"align">>
  <1>1. calls[a] # <<>> /\ Head(calls[a])[1] = "update" /\ ~At(a, "launch")
    BY DEF UpdateConsensusState, At
  <1>2. FlagsOK'
    BY DEF Inv, FlagsOK, UpdateConsensusState, channel, chain
  <1>3. target \in States
    BY DEF EvaluateSyncNeeded, States
  <1>4. f \in Frame /\ t \in Frame /\ r \in Frame
    BY <1>3 DEF Frame, States
  <1>5. f[1] \in Interior /\ t[1] \in Interior /\ r[1] \in Interior
    BY DEF Interior
  <1>6. \E steps \in {<<>>, <<f>>, <<r>>, <<t, r>>} : Calling(a, steps)
    BY DEF UpdateConsensusState
  <1> HIDE DEF f, t, r
  <1>7. PICK steps \in Seq(Frame) : Calling(a, steps) /\ Inside(steps)
    BY <1>4, <1>5, <1>6, FrameSeqs
  <1> QED
    BY <1>1, <1>2, <1>7, QuietCall DEF UpdateConsensusState, channel, Interior

LEMMA TransitionInv ==
    ASSUME Inv, NEW a \in Goroutines, Transition(a)
    PROVE  Inv'
  <1> DEFINE r == <<"align">>
  <1>1. calls[a] # <<>> /\ Head(calls[a])[1] = "transition" /\ ~At(a, "launch")
    BY DEF Transition, At
  <1>2. state' \in States
    <2>1. Head(calls[a]) \in Frame
      BY <1>1, NextFrame DEF Inv
    <2> QED
      BY <1>1, <2>1, FrameFacts DEF Transition, Arg
  <1>3. FlagsOK'
    BY <1>2 DEF Inv, FlagsOK, Transition, channel, chain
  <1>4. r \in Frame /\ r[1] \in Interior
    BY DEF Frame, Interior
  <1>5. \E steps \in {<<>>, <<r>>} : Calling(a, steps)
    BY DEF Transition
  <1> HIDE DEF r
  <1>6. PICK steps \in Seq(Frame) : Calling(a, steps) /\ Inside(steps)
    BY <1>4, <1>5, FrameSeqs
  <1> QED
    BY <1>1, <1>3, <1>6, QuietCall DEF Transition, channel, Interior

LEMMA AlignInv ==
    ASSUME Inv, NEW a \in Goroutines, EnsureSyncAlignment(a)
    PROVE  Inv'
  <1>1. calls[a] # <<>> /\ Head(calls[a])[1] = "align" /\ ~At(a, "launch")
    BY DEF EnsureSyncAlignment, At
  <1>2. Head(calls[a])[1] \in Interior /\ <<>> \in Seq(Frame) /\ Inside(<<>>)
    BY <1>1, FrameSeqs DEF Interior
  <1>3. done' = done
    BY DEF EnsureSyncAlignment, channel
  <1>4. CASE state = "SYNCED" /\ StopSync(a, <<>>) /\ UNCHANGED rotation
    <2>1. FlagsOK'
      BY <1>4 DEF Inv, FlagsOK, EnsureSyncAlignment, StopSync, channel, chain
    <2> QED
      BY <1>1, <1>2, <1>3, <1>4, <2>1, StopSyncInv
  <1>5. CASE StartSync(a, NextPeer) /\ rotation' = NextRotation
    <2>1. FlagsOK'
      BY <1>5, NextPeerType DEF Inv, FlagsOK, EnsureSyncAlignment, StartSync, channel, chain
    <2> QED
      BY <1>1, <1>2, <1>3, <1>5, <2>1, NextPeerType, StartSyncInv
  <1>6. CASE Return(a) /\ UNCHANGED <<syncing, rotation>>
    <2>1. FlagsOK'
      BY <1>6 DEF Inv, FlagsOK, EnsureSyncAlignment, channel, chain
    <2> QED
      BY <1>1, <1>2, <1>3, <1>6, <2>1, QuietCall DEF Return
  <1> QED
    BY <1>4, <1>5, <1>6 DEF EnsureSyncAlignment

\* OnBootstrapComplete is called by the maintenance goroutine only.
LEMMA BootstrapInv ==
    ASSUME Inv, NEW a \in Goroutines, OnBootstrapComplete(a)
    PROVE  Inv'
  <1> DEFINE f == <<"transition", "SYNC_DECISION">>
             r == <<"update">>
  <1>1. calls[a] # <<>> /\ Head(calls[a])[1] = "bootstrapped" /\ ~At(a, "launch")
    BY DEF OnBootstrapComplete, At
  <1>2. a = Maint
    <2> SUFFICES ASSUME a # Maint PROVE FALSE
      OBVIOUS
    <2>1. a \in Sessions /\ calls[a] \in Seq(Frame) /\ Shaped(calls[a])
      BY NextFrame, <1>1 DEF Goroutines, Inv, CallsOK
    <2>2. 1 \in 1 .. Len(calls[a]) /\ Head(calls[a]) = calls[a][1]
      BY <1>1, <2>1
    <2> QED
      BY <1>1, <2>1, <2>2 DEF Shaped, Interior, Final, Resumed
  <1>3. FlagsOK'
    BY DEF Inv, FlagsOK, OnBootstrapComplete, channel, chain
  <1>4. f \in Frame /\ r \in Frame
    BY DEF Frame, States
  <1>5. Calling(a, <<f, r>>)
    BY DEF OnBootstrapComplete
  <1> HIDE DEF f, r
  <1>6. <<f, r>> \in Seq(Frame)
    BY <1>4, FrameSeqs
  <1> QED
    BY <1>1, <1>2, <1>3, <1>5, <1>6, QuietCall DEF OnBootstrapComplete, channel

\* The new batch goroutine takes over the syncing flag.
LEMMA LaunchInv ==
    ASSUME Inv, NEW a \in Goroutines, Launch(a)
    PROVE  Inv'
  <1>1. calls[a] # <<>> /\ Head(calls[a])[1] = "launch"
    BY DEF Launch, At
  <1>2. PICK g \in Sessions :
          /\ Free(g)
          /\ done' = g /\ closed' = closed \ {g}
          /\ calls' = [calls EXCEPT ![a] = Tail(@), ![g] = << <<"loop", Arg(a, 1)>> >>]
    BY DEF Launch
  <1>3. FlagsOK'
    BY <1>2 DEF Inv, FlagsOK, Launch, chain
  <1> DEFINE f == <<"loop", Arg(a, 1)>>
  <1>4. f \in Frame /\ f[1] = "loop"
    <2>1. Head(calls[a]) \in Frame
      BY <1>1, NextFrame DEF Inv
    <2>2. Arg(a, 1) \in STRING
      BY <1>1, <2>1, FrameFacts DEF Arg
    <2> QED
      BY <2>2, LoopFrame
  <1>5. calls[g] = <<>> /\ a # g /\ g \in Goroutines
    BY <1>1, <1>2 DEF Free, Goroutines
  <1>6. /\ <<f>> \in Seq(Frame) /\ <<f>> # <<>> /\ Head(<<f>>) = f /\ Shaped(<<f>>)
    BY <1>4, ShapedStacks DEF Final
  <1>7. calls' = [calls EXCEPT ![a] = Tail(@), ![g] = <<f>>]
    BY <1>2
  <1> HIDE DEF f
  <1>8. /\ calls' \in [Goroutines -> Seq(Frame)] /\ calls'[g] = <<f>>
        /\ calls'[a] = Tail(calls[a])
        /\ \A b \in Goroutines \ {a, g} : calls'[b] = calls[b]
    BY <1>1, <1>5, <1>6, <1>7, NextFrame DEF Inv, CallsOK
  <1>9. a \in Sessions => Shaped(calls'[a])
    <2> SUFFICES ASSUME a \in Sessions PROVE Shaped(calls'[a])
      OBVIOUS
    <2>1. /\ calls[a] \in Seq(Frame) /\ Shaped(calls[a]) /\ Head(calls[a])[1] \in Interior
          /\ Tail(calls[a]) \in Seq(Frame)
      BY <1>1, NextFrame DEF Inv, CallsOK, Interior
    <2>2. Shaped(<<>> \o Tail(calls[a]))
      BY <1>1, <2>1, ShapedCalls, FrameSeqs
    <2> QED
      BY <1>8, <2>1, <2>2, ConcatEmptySeq
  <1>10. \A h \in Sessions : Shaped(calls'[h])
    BY <1>6, <1>8, <1>9 DEF Inv, CallsOK, Goroutines
  <1>11. Running(g)'
    BY <1>4, <1>6, <1>8 DEF Running, At
  <1> QED
    BY <1>2, <1>3, <1>8, <1>10, <1>11 DEF Inv, CallsOK, NoStrandedSyncing

LEMMA WaitInv ==
    ASSUME Inv, NEW a \in Goroutines, WaitDone(a)
    PROVE  Inv'
  <1>1. calls[a] # <<>> /\ Head(calls[a])[1] = "wait" /\ ~At(a, "launch")
    BY DEF WaitDone, At
  <1>2. FlagsOK'
    BY DEF Inv, FlagsOK, WaitDone, channel, chain
  <1>3. Calling(a, <<>>) /\ <<>> \in Seq(Frame) /\ Inside(<<>>)
    BY FrameSeqs DEF WaitDone, Return
  <1> QED
    BY <1>1, <1>2, <1>3, QuietCall DEF WaitDone, channel, Interior

-----------------------------------------------------------------------------
(* The batch goroutine.                                                    *)

\* A step of the loop that goes on: the session keeps running.
LEMMA LoopGoesOn ==
    ASSUME Inv, FlagsOK', NEW g \in Sessions, calls[g] # <<>>, Head(calls[g])[1] \in Final,
           NEW steps \in Seq(Frame), Calling(g, steps), Shaped(steps), steps # <<>>,
           Head(steps)[1] # "close", done' = done, syncing' = syncing
    PROVE  Inv'
  <1>1. Running(g)'
    BY CalledLoop DEF Running, At, Inv
  <1>2. \A h \in Sessions : Running(h) => Running(h)'
    BY <1>1, CalledLoop DEF Inv
  <1> QED
    BY <1>2, CalledLoop, Settled DEF Inv

\* What the loop puts on its stack.
LEMMA LoopStacks ==
    /\ \A f \in Frame : (f[1] \in Final /\ f[1] # "close") =>
          <<f>> \in Seq(Frame) /\ Shaped(<<f>>) /\ <<f>> # <<>> /\ Head(<<f>>)[1] # "close"
    /\ \A f, r \in Frame : (f[1] \in Interior /\ r[1] \in Resumed) =>
          /\ <<f, r>> \in Seq(Frame) /\ Shaped(<<f, r>>) /\ <<f, r>> # <<>>
          /\ Head(<<f, r>>)[1] # "close"
  BY DEF Shaped, Interior

\* The peer of the session.
LEMMA SessionPeer ==
    ASSUME Inv, NEW g \in Sessions, calls[g] # <<>>,
           Head(calls[g])[1] \in {"launch", "loop", "end", "rotate", "stay", "resume", "collect"}
    PROVE  Arg(g, 1) \in STRING
  <1>1. Head(calls[g]) \in Frame
    BY NextFrame DEF Inv, Goroutines
  <1> QED
    BY <1>1, FrameFacts DEF Arg

\* A request is among those of the peers it is made of.
LEMMA CollectMember ==
    ASSUME NEW peers, NEW flags, NEW p \in peers, NEW near \in flags
    PROVE  <<"collect", p, near>> \in Collects(peers, flags)
  BY DEF Collects

\* The loop's call of CollectBatch is a step a stack may hold.
LEMMA CollectFrame ==
    ASSUME NEW p \in STRING, NEW near \in BOOLEAN
    PROVE  <<"collect", p, near>> \in Frame
  <1>1. <<"collect", p, near>> \in Collects(STRING, BOOLEAN)
    BY CollectMember
  <1> QED
    BY <1>1 DEF Frame

LEMMA LoopEndsInv ==
    ASSUME Inv, NEW g \in Sessions, LoopEnds(g) \/ RequestBatch(g)
    PROVE  Inv'
  <1>1. calls[g] # <<>> /\ Head(calls[g])[1] = "loop" /\ Head(calls[g])[1] \in Final
    BY DEF LoopEnds, RequestBatch, At, Final
  <1>2. FlagsOK' /\ done' = done /\ syncing' = syncing
    BY DEF Inv, FlagsOK, LoopEnds, RequestBatch, channel, chain
  <1>3. PICK f \in Frame : f[1] \in {"exit", "collect"} /\ Calling(g, <<f>>)
    <2>1. CASE LoopEnds(g)
      <3>1. <<"exit">> \in Frame
        BY DEF Frame
      <3> QED
        BY <2>1, <3>1 DEF LoopEnds
    <2>2. CASE RequestBatch(g)
      <3> DEFINE near == peerTip - best < NearTip
      <3>1. Arg(g, 1) \in STRING /\ near \in BOOLEAN
        BY <1>1, SessionPeer
      <3>2. Calling(g, << <<"collect", Arg(g, 1), near>> >>)
        BY <2>2 DEF RequestBatch
      <3> HIDE DEF near
      <3>3. <<"collect", Arg(g, 1), near>> \in Frame
        BY <3>1, CollectFrame
      <3> QED
        BY <3>2, <3>3
    <2> QED
      BY <2>1, <2>2
  <1>4. f[1] \in Final /\ f[1] # "close"
    BY <1>3 DEF Final
  <1> QED
    BY <1>1, <1>2, <1>3, <1>4, LoopStacks, LoopGoesOn

\* The blocks of a batch keep the height within the network's.
LEMMA AcceptedHeight ==
    ASSUME Inv, NEW g \in Sessions, Answered(g)
    PROVE  height + Available \in 0 .. MaxNet
  <1>1. /\ height \in 0 .. MaxNet /\ net \in 0 .. MaxNet /\ MaxNet \in Nat
        /\ BatchSize \in Nat \ {0} /\ Available > 0
    BY SyncAssumption DEF Inv, FlagsOK, Answered, SyncAssumption
  <1> QED
    BY <1>1 DEF Available

LEMMA OutcomeNames ==
    ASSUME NEW near
    PROVE  Outcomes(near) \subseteq {"end", "rotate", "stay"}
  BY DEF Outcomes

LEMMA BatchAcceptedInv ==
    ASSUME Inv, NEW g \in Sessions, BatchAccepted(g)
    PROVE  Inv'
  <1>1. /\ calls[g] # <<>> /\ Head(calls[g])[1] = "collect" /\ Head(calls[g])[1] \in Final
        /\ Answered(g)
    BY DEF BatchAccepted, Answered, At, Final
  <1>2. FlagsOK' /\ done' = done /\ syncing' = syncing
    BY <1>1, AcceptedHeight DEF Inv, FlagsOK, BatchAccepted, channel
  <1>3. PICK outcome \in {"end", "rotate", "stay"} :
            Calling(g, << <<"update">>, <<outcome, Arg(g, 1)>> >>)
    BY OutcomeNames DEF BatchAccepted
  <1>4. <<outcome, Arg(g, 1)>> \in Frame
    BY <1>1, SessionPeer, LoopFrame
  <1>5. <<"update">> \in Frame
    BY DEF Frame
  <1> DEFINE f == <<"update">>
             r == <<outcome, Arg(g, 1)>>
  <1>6. f[1] \in Interior /\ r[1] \in Resumed /\ f \in Frame /\ r \in Frame /\ Calling(g, <<f, r>>)
    BY <1>3, <1>4, <1>5 DEF Interior, Resumed
  <1> HIDE DEF f, r
  <1> QED
    BY <1>1, <1>2, <1>6, LoopStacks, LoopGoesOn

LEMMA BatchRolledBackInv ==
    ASSUME Inv, NEW g \in Sessions, BatchRolledBack(g)
    PROVE  Inv'
  <1>1. /\ calls[g] # <<>> /\ Head(calls[g])[1] = "collect" /\ Head(calls[g])[1] \in Final
        /\ Arg(g, 1) \in STRING /\ NextPeer \in STRING
    <2>1. calls[g] # <<>> /\ Head(calls[g])[1] = "collect"
      BY DEF BatchRolledBack, Answered, At
    <2> QED
      BY <2>1, SessionPeer, NextPeerType DEF Final
  <1>2. height' \in 0 .. MaxNet /\ best' \in 0 .. MaxNet /\ rotation' \in 1 .. Len(Peers)
    <2>1. height \in 0 .. MaxNet /\ best \in 0 .. MaxNet /\ MaxNet \in Nat
      BY SyncAssumption DEF Inv, FlagsOK, SyncAssumption
    <2>2. height' \in 0 .. height
      BY DEF BatchRolledBack
    <2>3. best' \in {height', best} /\ rotation' \in {rotation, NextRotation}
      BY DEF BatchRolledBack
    <2> QED
      BY <2>1, <2>2, <2>3, NextPeerType DEF Inv, FlagsOK
  <1>3. faults' \in 0 .. MaxFaults
    BY SyncAssumption DEF Inv, FlagsOK, BatchRolledBack, SyncAssumption
  <1>4. FlagsOK' /\ done' = done /\ syncing' = syncing
    BY <1>2, <1>3 DEF Inv, FlagsOK, BatchRolledBack, channel
  <1>5. PICK step \in {"loop", "end", "rotate", "stay"}, peer \in STRING :
            Calling(g, << <<step, peer>> >>)
    BY <1>1, OutcomeNames DEF BatchRolledBack
  <1> DEFINE f == <<step, peer>>
  <1>6. f \in Frame
    BY LoopFrame
  <1>7. f[1] \in Final /\ f[1] # "close" /\ Calling(g, <<f>>)
    BY <1>5 DEF Final, Resumed
  <1> HIDE DEF f
  <1> QED
    BY <1>1, <1>4, <1>6, <1>7, LoopStacks, LoopGoesOn

LEMMA BatchKnownInv ==
    ASSUME Inv, NEW g \in Sessions, BatchKnown(g)
    PROVE  Inv'
  <1>1. /\ calls[g] # <<>> /\ Head(calls[g])[1] = "collect" /\ Head(calls[g])[1] \in Final
        /\ Arg(g, 1) \in STRING
    <2>1. calls[g] # <<>> /\ Head(calls[g])[1] = "collect"
      BY DEF BatchKnown, At
    <2> QED
      BY <2>1, SessionPeer DEF Final
  <1>2. faults' \in 0 .. MaxFaults
    BY SyncAssumption DEF Inv, FlagsOK, BatchKnown, SyncAssumption
  <1>3. FlagsOK' /\ done' = done /\ syncing' = syncing
    BY <1>2 DEF Inv, FlagsOK, BatchKnown, channel, chain
  <1>4. PICK outcome \in {"end", "rotate", "stay"} : Calling(g, << <<outcome, Arg(g, 1)>> >>)
    BY OutcomeNames DEF BatchKnown
  <1> DEFINE f == <<outcome, Arg(g, 1)>>
  <1>5. f \in Frame /\ f[1] \in Final /\ f[1] # "close" /\ Calling(g, <<f>>)
    BY <1>1, <1>4, LoopFrame DEF Final, Resumed
  <1> HIDE DEF f
  <1> QED
    BY <1>1, <1>3, <1>5, LoopStacks, LoopGoesOn

\* A step put under one call or none.
LEMMA OnTop ==
    ASSUME NEW u \in Frame, NEW f \in Frame
    PROVE  <<>> \o <<f>> = <<f>> /\ <<u>> \o <<f>> = <<u, f>>
  <1>1. <<u>> \in Seq(Frame) /\ <<f>> \in Seq(Frame)
    OBVIOUS
  <1>2. <<>> \o <<f>> = <<f>>
    BY <1>1, ConcatEmptySeq
  <1>3. <<u>> \o <<f>> = <<u, f>>
    <2>1. /\ <<u>> \o <<f>> \in Seq(Frame) /\ <<u, f>> \in Seq(Frame)
          /\ Len(<<u>> \o <<f>>) = 2 /\ Len(<<u, f>>) = 2
      BY <1>1
    <2>2. (<<u>> \o <<f>>)[1] = u /\ (<<u>> \o <<f>>)[2] = f
      BY <1>1
    <2> QED
      <3>1. \A i \in 1 .. 2 : (<<u>> \o <<f>>)[i] = <<u, f>>[i]
        BY <2>2
      <3> HIDE DEF Frame
      <3> QED
        BY <2>1, <3>1, SeqEqual
  <1> QED
    BY <1>2, <1>3

LEMMA BatchFailedInv ==
    ASSUME Inv, NEW g \in Sessions, BatchRejected(g) \/ BatchTimeout(g)
    PROVE  Inv'
  <1> DEFINE u == <<"update">>
             f == <<"failed">>
  <1>1. calls[g] # <<>> /\ Head(calls[g])[1] = "collect" /\ Head(calls[g])[1] \in Final
    BY DEF BatchRejected, BatchTimeout, Answered, At, Final
  <1>2. faults' \in 0 .. MaxFaults
    BY SyncAssumption DEF Inv, FlagsOK, BatchRejected, BatchTimeout, SyncAssumption
  <1>3. FlagsOK' /\ done' = done /\ syncing' = syncing
    BY <1>2 DEF Inv, FlagsOK, BatchRejected, BatchTimeout, channel, chain
  <1>4. /\ u \in Frame /\ f \in Frame /\ u[1] \in Interior /\ f[1] \in Resumed /\ f[1] \in Final
        /\ f[1] # "close"
    BY DEF Frame, Interior, Resumed, Final
  <1>5. \E steps \in {<<f>>, <<u, f>>} : Calling(g, steps)
    <2>1. CASE BatchRejected(g)
      <3>1. PICK steps \in {<<>>, <<u>>} : Calling(g, steps \o <<f>>)
        BY <2>1 DEF BatchRejected
      <3>2. <<>> \o <<f>> = <<f>> /\ <<u>> \o <<f>> = <<u, f>>
        BY <1>4, OnTop
      <3> QED
        BY <3>1, <3>2
    <2>2. CASE BatchTimeout(g)
      BY <2>2 DEF BatchTimeout
    <2> QED
      BY <2>1, <2>2
  <1> HIDE DEF u, f
  <1> QED
    BY <1>1, <1>3, <1>4, <1>5, LoopStacks, LoopGoesOn

LEMMA BatchCompleteInv ==
    ASSUME Inv, NEW g \in Sessions, BatchComplete(g)
    PROVE  Inv'
  <1>1. calls[g] # <<>> /\ Head(calls[g])[1] \in Resumed /\ Head(calls[g])[1] \in Final
    BY DEF BatchComplete, At, Resumed, Final
  <1>2. rotation' \in 1 .. Len(Peers) /\ NextPeer \in STRING
    BY NextPeerType DEF Inv, FlagsOK, BatchComplete
  <1>3. FlagsOK' /\ done' = done /\ syncing' = syncing
    BY <1>2 DEF Inv, FlagsOK, BatchComplete, channel, chain
  <1>4. PICK f \in Frame : f[1] \in {"exit", "loop"} /\ Calling(g, <<f>>)
    <2>1. CASE Calling(g, << <<"exit">> >>)
      <3>1. <<"exit">> \in Frame
        BY DEF Frame
      <3> QED
        BY <2>1, <3>1
    <2>2. CASE At(g, "stay") /\ Calling(g, << <<"loop", Arg(g, 1)>> >>)
      <3>1. <<"loop", Arg(g, 1)>> \in Frame
        BY <1>1, <2>2, SessionPeer, LoopFrame DEF At
      <3> QED
        BY <2>2, <3>1
    <2>3. CASE Calling(g, << <<"loop", NextPeer>> >>)
      <3>1. <<"loop", NextPeer>> \in Frame
        BY <1>2, LoopFrame
      <3> QED
        BY <2>3, <3>1
    <2> QED
      BY <2>1, <2>2, <2>3 DEF BatchComplete
  <1>5. f[1] \in Final /\ f[1] # "close"
    BY <1>4 DEF Final
  <1> QED
    BY <1>1, <1>3, <1>4, <1>5, LoopStacks, LoopGoesOn

\* A new rotation list, and the consensus that is evaluated with it.
LEMMA RebuildInv ==
    ASSUME Inv, NEW g \in Sessions, RebuildPeerList(g)
    PROVE  Inv'
  <1>1. calls[g] # <<>> /\ Head(calls[g])[1] \in {"stay", "rotate"} /\ Head(calls[g])[1] \in Final
    BY DEF RebuildPeerList, At, Final, Resumed
  <1>2. FlagsOK' /\ done' = done /\ syncing' = syncing
    BY DEF Inv, FlagsOK, RebuildPeerList, channel, chain
  <1> DEFINE u == <<"update">>
             n == <<"next">>
             r == <<"resume", Arg(g, 1)>>
  <1>3. u \in Frame /\ n \in Frame /\ u[1] \in Interior /\ n[1] \in Resumed /\ r[1] \in Resumed
    BY DEF Frame, Interior, Resumed
  <1>4. r \in Frame
    BY <1>1, SessionPeer, LoopFrame
  <1>5. Calling(g, <<u, n>>) \/ Calling(g, <<u, r>>)
    BY DEF RebuildPeerList
  <1> HIDE DEF u, n, r
  <1> QED
    BY <1>1, <1>2, <1>3, <1>4, <1>5, LoopStacks, LoopGoesOn

LEMMA ResumeInv ==
    ASSUME Inv, NEW g \in Sessions, ResumeLoop(g)
    PROVE  Inv'
  <1>1. calls[g] # <<>> /\ Head(calls[g])[1] \in {"resume", "next"} /\ Head(calls[g])[1] \in Final
    BY DEF ResumeLoop, At, Final, Resumed
  <1>2. rotation' \in 1 .. Len(Peers) /\ NextPeer \in STRING
    BY NextPeerType DEF Inv, FlagsOK, ResumeLoop
  <1>3. FlagsOK' /\ done' = done /\ syncing' = syncing
    BY <1>2 DEF Inv, FlagsOK, ResumeLoop, channel, chain
  <1>4. PICK p \in STRING : Calling(g, << <<"loop", p>> >>)
    <2>1. At(g, "resume") => Arg(g, 1) \in STRING
      BY <1>1, SessionPeer DEF At
    <2> QED
      BY <1>2, <2>1 DEF ResumeLoop
  <1> DEFINE f == <<"loop", p>>
  <1>5. f \in Frame /\ f[1] \in Final /\ f[1] # "close" /\ Calling(g, <<f>>)
    BY <1>4, LoopFrame DEF Final
  <1> HIDE DEF f
  <1> QED
    BY <1>1, <1>3, <1>5, LoopStacks, LoopGoesOn

\* The deferred function clears the flag before it closes the channel.
LEMMA ExitInv ==
    ASSUME Inv, NEW g \in Sessions, ExitSession(g) \/ CloseDone(g)
    PROVE  Inv'
  <1>1. calls[g] # <<>> /\ Head(calls[g])[1] \in {"exit", "close"}
        /\ Head(calls[g])[1] \in Final /\ done' = done
    BY DEF ExitSession, CloseDone, At, Final, channel
  <1>2. done \in Sessions
    BY <1>1 DEF Inv, CallsOK
  <1>3. FlagsOK'
    BY <1>2 DEF Inv, FlagsOK, ExitSession, CloseDone, channel, chain
  <1>4. CASE ExitSession(g)
    <2>1. << <<"close">> >> \in Seq(Frame) /\ Shaped(<< <<"close">> >>)
      <3>1. <<"close">> \in Frame
        BY DEF Frame
      <3>2. <<"close">>[1] \in Final
        BY DEF Final
      <3> QED
        BY <3>1, <3>2, FrameSeqs, ShapedStacks
    <2> QED
      BY <1>1, <1>3, <1>4, <2>1, CalledLoop, Settled DEF Inv, ExitSession
  <1>5. CASE CloseDone(g)
    <2>1. ~Running(g) /\ Calling(g, <<>>) /\ syncing' = syncing
      BY <1>5 DEF CloseDone, Running, Return
    <2>2. <<>> \in Seq(Frame) /\ Shaped(<<>>)
      BY FrameSeqs, ShapedStacks
    <2>3. \A h \in Sessions : Running(h) => Running(h)'
      BY <1>1, <2>1, <2>2, CalledLoop DEF Inv
    <2> QED
      BY <1>1, <1>3, <2>1, <2>2, <2>3, CalledLoop, Settled DEF Inv
  <1> QED
    BY <1>4, <1>5

-----------------------------------------------------------------------------
(* The maintenance goroutine and the network.                              *)

LEMMA TickInv ==
    ASSUME Inv, Tick
    PROVE  Inv'
  <1> DEFINE t == << <<"update">>, <<"legacy">>, <<"stall">>, <<"behind">> >>
  <1>1. t \in Seq(Frame)
    BY DEF Frame
  <1>2. calls[Maint] = <<>> /\ calls' = [calls EXCEPT ![Maint] = t] /\ Maint \in Goroutines
        /\ Maint \notin Sessions
    BY SyncAssumption DEF Tick, Goroutines, SyncAssumption
  <1> HIDE DEF t
  <1>3. /\ calls' \in [Goroutines -> Seq(Frame)]
        /\ \A g \in Sessions : calls'[g] = calls[g]
        /\ \A b \in Goroutines \ {Maint} : calls'[b] = calls[b]
    BY <1>1, <1>2 DEF Inv, CallsOK, Goroutines
  <1>4. FlagsOK' /\ done' = done /\ syncing' = syncing
    BY DEF Inv, FlagsOK, Tick, channel, chain
  <1>5. \A b \in Goroutines : At(b, "launch") => At(b, "launch")'
    BY <1>2, <1>3 DEF At
  <1> QED
    BY <1>3, <1>4, <1>5, Settled DEF Inv, CallsOK, Running, At

\* Maint starts a session, or does not.
LEMMA StartBehindInv ==
    ASSUME Inv, FlagsOK', calls[Maint] # <<>>, ~At(Maint, "launch"), NEW behind \in BOOLEAN,
           StartBehind(behind), done' = done
    PROVE  Inv'
  <1>1. Maint \in Goroutines /\ <<>> \in Seq(Frame)
    BY FrameSeqs DEF Goroutines
  <1>2. CASE \E i \in 1 .. Len(Peers) : StartSync(Maint, Peers[i])
    <2>1. \A i \in 1 .. Len(Peers) : Peers[i] \in STRING
      BY SyncAssumption DEF SyncAssumption
    <2> QED
      BY <1>1, <1>2, <2>1, StartSyncInv
  <1>3. CASE Return(Maint) /\ UNCHANGED syncing
    BY <1>1, <1>3, QuietCall DEF Return
  <1> QED
    BY <1>2, <1>3 DEF StartBehind

LEMMA MaintenanceInv ==
    ASSUME Inv, LegacyFallback \/ CheckStall \/ Restart \/ RestartBehind
    PROVE  Inv'
  <1>1. calls[Maint] # <<>> /\ ~At(Maint, "launch") /\ done' = done
    BY DEF LegacyFallback, CheckStall, Restart, RestartBehind, At, channel
  <1>2. CASE LegacyFallback \/ Restart \/ RestartBehind
    <2>1. PICK behind \in BOOLEAN : StartBehind(behind)
      <3>1. CASE LegacyFallback
        BY <3>1 DEF LegacyFallback
      <3>2. CASE Restart
        BY <3>2 DEF Restart
      <3>3. CASE RestartBehind
        <4> DEFINE behind == net >= best + Threshold
        <4>1. behind \in BOOLEAN /\ StartBehind(behind)
          BY <3>3 DEF RestartBehind
        <4> QED
          BY <4>1
      <3> QED
        BY <1>2, <3>1, <3>2, <3>3
    <2>2. FlagsOK'
      <3>1. peerTip' \in Nat
        <4>1. peerTip' \in {peerTip, net}
          BY <1>2 DEF LegacyFallback, Restart, RestartBehind
        <4> QED
          BY <4>1, SyncAssumption DEF Inv, FlagsOK, SyncAssumption
      <3>2. /\ state' = state /\ consensus' = consensus /\ agree' = agree /\ net' = net
            /\ batchInProgress' = batchInProgress /\ done' = done /\ closed' = closed
            /\ owner' = owner /\ rotation' = rotation /\ faults' = faults
            /\ height' = height /\ best' = best
        BY <1>2 DEF LegacyFallback, Restart, RestartBehind, channel, chain
      <3>3. syncing' \in BOOLEAN
        BY <2>1 DEF StartBehind, StartSync, Inv, FlagsOK
      <3> QED
        BY <3>1, <3>2, <3>3 DEF Inv, FlagsOK
    <2> QED
      BY <1>1, <2>1, <2>2, StartBehindInv
  <1>3. CASE CheckStall
    <2>1. faults' \in 0 .. MaxFaults
      BY <1>3, SyncAssumption DEF Inv, FlagsOK, CheckStall, SyncAssumption
    <2>2. FlagsOK'
      BY <1>3, <2>1 DEF Inv, FlagsOK, CheckStall, StopSync, channel, chain
    <2>3. Maint \in Goroutines /\ <<>> \in Seq(Frame)
      BY FrameSeqs DEF Goroutines
    <2>4. CASE Return(Maint) /\ UNCHANGED <<syncing, faults>>
      BY <1>1, <2>2, <2>3, <2>4, QuietCall DEF Return
    <2>5. CASE StopSync(Maint, << <<"restart">> >>)
      <3>1. << <<"restart">> >> \in Seq(Frame)
        BY DEF Frame
      <3> QED
        BY <1>1, <2>2, <2>3, <2>5, <3>1, StopSyncInv
    <2> QED
      BY <1>3, <2>4, <2>5 DEF CheckStall
  <1> QED
    BY <1>2, <1>3

\* The network, which does not touch the syncer.
LEMMA NetworkInv ==
    ASSUME Inv, Network \/ UNCHANGED vars
    PROVE  Inv'
  <1>1. UNCHANGED <<calls, done, syncing>>
    BY DEF Network, NewBlock, ConsensusLost, ConsensusFound, HandleInventoryAnnouncement, vars,
           channel
  <1>2. FlagsOK'
    <2>1. CASE NewBlock
      <3>1. /\ net' \in 0 .. MaxNet /\ height' \in 0 .. MaxNet /\ best' \in 0 .. MaxNet
        BY <2>1, SyncAssumption DEF Inv, FlagsOK, NewBlock, chain, SyncAssumption
      <3> QED
        BY <2>1, <3>1 DEF Inv, FlagsOK, NewBlock, channel
    <2>2. CASE ConsensusLost
      <3>1. faults' \in 0 .. MaxFaults
        BY <2>2, SyncAssumption DEF Inv, FlagsOK, ConsensusLost, SyncAssumption
      <3>2. agree' \in BOOLEAN
        BY <2>2 DEF ConsensusLost
      <3> QED
        BY <2>2, <3>1, <3>2 DEF Inv, FlagsOK, ConsensusLost, channel, chain
    <2>3. CASE ConsensusFound
      <3>1. agree' \in BOOLEAN
        BY <2>3 DEF ConsensusFound
      <3> QED
        BY <2>3, <3>1 DEF Inv, FlagsOK, ConsensusFound, channel, chain
    <2>4. CASE UNCHANGED vars
      BY <2>4 DEF Inv, FlagsOK, vars, channel, chain
    <2>5. ASSUME NEW k \in Invs, HandleInventoryAnnouncement(k)
          PROVE  FlagsOK'
      <3>1. k \in Nat /\ net \in Nat /\ height \in Nat
        BY SyncAssumption DEF SyncAssumption, Inv, FlagsOK
      <3>2. peerTip' \in {height + k, net}
        BY <2>5 DEF HandleInventoryAnnouncement
      <3>3. peerTip' \in Nat
        BY <3>1, <3>2
      <3>4. faults' \in 0 .. MaxFaults
        BY <2>5, SyncAssumption DEF Inv, FlagsOK, HandleInventoryAnnouncement, SyncAssumption
      <3> QED
        BY <2>5, <3>3, <3>4 DEF Inv, FlagsOK, HandleInventoryAnnouncement, channel, chain
    <2> QED
      BY <2>1, <2>2, <2>3, <2>4, <2>5 DEF Network
  <1> QED
    BY <1>1, <1>2, Settled DEF Inv, CallsOK, Running, At

\* Every step keeps the invariant.
LEMMA StepInv ==
    ASSUME Inv, [Next]_vars
    PROVE  Inv'
  <1>1. ASSUME NEW a \in Goroutines, Step(a)
        PROVE  Inv'
    BY <1>1, UpdateInv, TransitionInv, AlignInv, BootstrapInv, LaunchInv, WaitInv DEF Step
  <1>2. ASSUME NEW g \in Sessions, SessionStep(g)
        PROVE  Inv'
    BY <1>2, LoopEndsInv, BatchAcceptedInv, BatchRolledBackInv, BatchKnownInv, BatchFailedInv,
       BatchCompleteInv, RebuildInv, ResumeInv, ExitInv DEF SessionStep
  <1>3. CASE Maintenance
    BY <1>3, TickInv, MaintenanceInv DEF Maintenance
  <1> QED
    BY <1>1, <1>2, <1>3, NetworkInv DEF Next

\* Type correctness of the syncer's state and of all call stacks.
THEOREM SyncTypeCorrect == Spec => []TypeOK
  <1>1. Inv => TypeOK
    <2> SUFFICES ASSUME Inv PROVE TypeOK
      OBVIOUS
    <2>1. DOMAIN calls = Goroutines
      BY DEF Inv, CallsOK
    <2>2. ASSUME NEW a \in Goroutines, NEW i \in 1 .. Len(calls[a])
          PROVE  calls[a][i][1] \in StepNames
      <3>1. calls[a][i] \in Frame
        BY <2>2 DEF Inv, CallsOK
      <3> QED
        BY <3>1, FrameFacts
    <2> QED
      BY <2>1, <2>2 DEF TypeOK, Inv, FlagsOK
  <1> QED
    BY <1>1, InitInv, StepInv, PTL DEF Spec

\* While the syncing flag is set a batch goroutine runs, or startSync is about
\* to launch one: whatever the order in which state machine, maintenance ticks,
\* stalls, stops and the sessions' deferred functions come, the flag is never
\* left behind to keep startSync out for ever.
THEOREM SyncingNeverStranded == Spec => []NoStrandedSyncing
  <1>1. Inv => NoStrandedSyncing
    BY DEF Inv
  <1> QED
    BY <1>1, InitInv, StepInv, PTL DEF Spec


-----------------------------------------------------------------------------
(* The rounds of a goroutine end.                                           *)

\* At most how many steps a goroutine takes from step n until it has returned
\* from it, up to the next round of its loop.
Cost(n) ==
    CASE n \in {"wait", "launch", "close"} -> 1
      [] n \in {"align", "exit", "legacy", "restart", "behind"} -> 2
      [] n \in {"transition", "failed", "end", "resume", "next"} -> 3
      [] n = "stall" -> 4
      [] n = "update" -> 6
      [] n = "bootstrapped" -> 10
      [] n \in {"rotate", "stay"} -> 10
      [] n = "collect" -> 17
      [] n = "loop" -> 18

\* At most how much longer the call stack gets before n has returned.
Room(n) ==
    CASE n \in {"loop", "collect", "failed", "end", "rotate", "stay", "resume", "next"} -> 2
      [] n \in {"update", "bootstrapped", "stall"} -> 1
      [] OTHER -> 0

MaxDepth == 5
MaxRound == 18

Shallow(s) == \A i \in 1 .. Len(s) : Len(s) - i + 1 + Room(s[i][1]) <= MaxDepth

\* At most how many steps are left of a round, for a stack within MaxDepth.
CostAt(s, i) == IF i \in 1 .. Len(s) THEN Cost(s[i][1]) ELSE 0
Left(s) == CostAt(s, 1) + CostAt(s, 2) + CostAt(s, 3) + CostAt(s, 4) + CostAt(s, 5)

\* What step n may put on the stack: at most two steps that need less than n.
Lighter(steps, n) ==
    \/ steps = <<>>
    \/ \E f \in Frame : steps = <<f>> /\ Cost(f[1]) < Cost(n) /\ Room(f[1]) <= Room(n)
    \/ \E f, r \in Frame :
          /\ steps = <<f, r>>
          /\ Cost(f[1]) + Cost(r[1]) < Cost(n) /\ Room(f[1]) < Room(n) /\ Room(r[1]) <= Room(n)

LEMMA Costs ==
    ASSUME NEW f \in Frame
    PROVE  Cost(f[1]) \in 1 .. 18 /\ Room(f[1]) \in 0 .. 2
  <1>1. f[1] \in StepNames
    BY FrameFacts
  <1> QED
    BY <1>1 DEF Cost, Room, StepNames

LEMMA SumNat ==
    \A v, w, x, y, z \in Nat : v + w + x + y + z \in Nat
  OBVIOUS

\* What is left of a shallow stack is a number.
LEMMA LeftNat ==
    ASSUME NEW s \in Seq(Frame)
    PROVE  /\ \A i \in 1 .. 6 : CostAt(s, i) \in Nat
           /\ Left(s) \in Nat
  <1>1. ASSUME NEW i \in 1 .. 6
        PROVE  CostAt(s, i) \in Nat
    <2>1. CASE i \in 1 .. Len(s)
      <3>1. s[i] \in Frame
        BY <2>1
      <3> QED
        BY <2>1, <3>1, Costs DEF CostAt
    <2>2. CASE i \notin 1 .. Len(s)
      BY <2>2 DEF CostAt
    <2> QED
      BY <2>1, <2>2
  <1>2. /\ CostAt(s, 1) \in Nat /\ CostAt(s, 2) \in Nat /\ CostAt(s, 3) \in Nat
        /\ CostAt(s, 4) \in Nat /\ CostAt(s, 5) \in Nat
    BY <1>1
  <1>3. Left(s) \in Nat
    BY <1>2, SumNat, Zenon DEF Left
  <1> QED
    BY <1>1, <1>3

\* Steps put on top of what is left of a stack: where each one is.
LEMMA OnTail ==
    ASSUME NEW s \in Seq(Frame), s # <<>>, NEW steps \in Seq(Frame)
    PROVE  LET t == steps \o Tail(s)
           IN  /\ t \in Seq(Frame) /\ Len(t) = Len(steps) + Len(s) - 1
               /\ Len(s) \in Nat \ {0} /\ Len(steps) \in Nat /\ Head(s) = s[1] /\ s[1] \in Frame
               /\ \A i \in 1 .. Len(steps) : t[i] = steps[i] /\ steps[i] \in Frame
               /\ \A i \in Len(steps) + 1 .. Len(t) : t[i] = s[i - Len(steps) + 1] /\ s[i - Len(steps) + 1] \in Frame
  <1> DEFINE u == Tail(s)
             t == steps \o u
  <1>1. /\ u \in Seq(Frame) /\ Len(u) = Len(s) - 1 /\ Head(s) = s[1]
        /\ \A i \in 1 .. Len(u) : u[i] = s[i + 1]
    BY HeadTailProperties
  <1>2. Len(s) \in Nat \ {0} /\ Len(steps) \in Nat /\ s[1] \in Frame
    BY HeadTailProperties, <1>1
  <1> HIDE DEF u
  <1>3. /\ t \in Seq(Frame) /\ Len(t) = Len(steps) + Len(u)
        /\ \A i \in 1 .. Len(steps) + Len(u) :
              t[i] = IF i <= Len(steps) THEN steps[i] ELSE u[i - Len(steps)]
    BY <1>1, ConcatProperties
  <1> HIDE DEF t
  <1>4. ASSUME NEW i \in 1 .. Len(steps)
        PROVE  t[i] = steps[i] /\ steps[i] \in Frame
    <2>1. i <= Len(steps) /\ Len(u) \in Nat
      BY <1>1, <1>2
    <2>2. i \in 1 .. Len(steps) + Len(u)
      BY <1>2, <2>1
    <2>3. steps[i] \in Frame
      OBVIOUS
    <2> QED
      BY <1>3, <2>1, <2>2, <2>3
  <1>5. ASSUME NEW i \in Len(steps) + 1 .. Len(t)
        PROVE  t[i] = s[i - Len(steps) + 1] /\ s[i - Len(steps) + 1] \in Frame
    <2>1. i - Len(steps) \in 1 .. Len(u) /\ ~(i <= Len(steps)) /\ i \in 1 .. Len(steps) + Len(u)
      BY <1>1, <1>2, <1>3, <1>5
    <2>2. t[i] = u[i - Len(steps)] /\ u[i - Len(steps)] = s[i - Len(steps) + 1]
      BY <1>1, <1>3, <2>1
    <2>3. i - Len(steps) + 1 \in 1 .. Len(s)
      BY <1>1, <1>2, <2>1
    <2> QED
      BY <2>2, <2>3
  <1> QED
    BY <1>1, <1>2, <1>3, <1>4, <1>5 DEF t, u


\* The steps that a step puts in its place keep the stack shallow ...
LEMMA StaysShallow ==
    ASSUME NEW s \in Seq(Frame), s # <<>>, Shallow(s), NEW steps \in Seq(Frame),
           Lighter(steps, Head(s)[1])
    PROVE  Shallow(steps \o Tail(s))
  <1> DEFINE t == steps \o Tail(s)
             n == s[1][1]
  <1>1. /\ t \in Seq(Frame) /\ Len(t) = Len(steps) + Len(s) - 1
        /\ Len(s) \in Nat \ {0} /\ Len(steps) \in Nat /\ Head(s) = s[1] /\ s[1] \in Frame
        /\ \A i \in 1 .. Len(steps) : t[i] = steps[i] /\ steps[i] \in Frame
        /\ \A i \in Len(steps) + 1 .. Len(t) :
              t[i] = s[i - Len(steps) + 1] /\ s[i - Len(steps) + 1] \in Frame
    BY OnTail
  <1> HIDE DEF t
  <1>2. Len(s) + Room(n) <= MaxDepth /\ Room(n) \in 0 .. 2
    BY <1>1, Costs DEF Shallow
  <1>3. ASSUME NEW i \in 1 .. Len(steps)
        PROVE  Len(t) - i + 1 + Room(t[i][1]) <= MaxDepth
    <2>1. t[i] = steps[i] /\ Room(steps[i][1]) \in 0 .. 2
      BY <1>1, Costs
    <2>2. Len(steps) - i + Room(steps[i][1]) <= Room(n)
      <3>1. CASE \E f \in Frame : steps = <<f>> /\ Room(f[1]) <= Room(n)
        <4>1. PICK f \in Frame : steps = <<f>> /\ Room(f[1]) <= Room(n)
          BY <3>1
        <4>2. Len(steps) = 1 /\ i = 1 /\ steps[i] = f
          BY <4>1
        <4> QED
          BY <1>2, <2>1, <4>1, <4>2
      <3>2. CASE \E f, r \in Frame :
                    steps = <<f, r>> /\ Room(f[1]) < Room(n) /\ Room(r[1]) <= Room(n)
        <4>1. PICK f, r \in Frame :
                    steps = <<f, r>> /\ Room(f[1]) < Room(n) /\ Room(r[1]) <= Room(n)
          BY <3>2
        <4>2. Len(steps) = 2 /\ ((i = 1 /\ steps[i] = f) \/ (i = 2 /\ steps[i] = r))
          BY <4>1
        <4> QED
          BY <1>2, <2>1, <4>1, <4>2
      <3> QED
        BY <1>1, <3>1, <3>2 DEF Lighter
    <2>3. Len(t) - i + 1 + Room(t[i][1]) <= Len(s) + Room(n)
      BY <1>1, <1>2, <2>1, <2>2
    <2> QED
      BY <1>1, <1>2, <2>1, <2>3 DEF MaxDepth
  <1>4. ASSUME NEW i \in Len(steps) + 1 .. Len(t)
        PROVE  Len(t) - i + 1 + Room(t[i][1]) <= MaxDepth
    <2> DEFINE j == i - Len(steps) + 1
    <2>1. j \in 1 .. Len(s) /\ t[i] = s[j] /\ Len(t) - i = Len(s) - j
      BY <1>1, <1>4
    <2> HIDE DEF j
    <2> QED
      BY <2>1 DEF Shallow
  <1>5. \A i \in 1 .. Len(t) : i \in 1 .. Len(steps) \/ i \in Len(steps) + 1 .. Len(t)
    BY <1>1
  <1> QED
    BY <1>3, <1>4, <1>5 DEF Shallow, t

\* ... and leave less of the round.
LEMMA LeavesLess ==
    ASSUME NEW s \in Seq(Frame), s # <<>>, Shallow(s), NEW steps \in Seq(Frame),
           Lighter(steps, Head(s)[1])
    PROVE  Left(steps \o Tail(s)) < Left(s)
  <1> DEFINE t == steps \o Tail(s)
             n == s[1][1]
  <1>1. /\ t \in Seq(Frame) /\ Len(t) = Len(steps) + Len(s) - 1
        /\ Len(s) \in Nat \ {0} /\ Len(steps) \in Nat /\ Head(s) = s[1] /\ s[1] \in Frame
        /\ \A i \in 1 .. Len(steps) : t[i] = steps[i] /\ steps[i] \in Frame
        /\ \A i \in Len(steps) + 1 .. Len(t) :
              t[i] = s[i - Len(steps) + 1] /\ s[i - Len(steps) + 1] \in Frame
    BY OnTail
  <1> HIDE DEF t
  <1>2. Len(s) + Room(n) <= 5 /\ Room(n) \in 0 .. 2 /\ Cost(n) \in 1 .. 18 /\ CostAt(s, 1) = Cost(n)
    BY <1>1, Costs DEF Shallow, MaxDepth, CostAt
  <1>3. /\ CostAt(s, 1) \in Nat /\ CostAt(s, 2) \in Nat /\ CostAt(s, 3) \in Nat
        /\ CostAt(s, 4) \in Nat /\ CostAt(s, 5) \in Nat
    BY LeftNat
  <1>4. CostAt(s, 6) = 0
    BY <1>1, <1>2 DEF CostAt
  <1>5. ASSUME NEW i \in Nat \ {0}, i > Len(steps)
        PROVE  CostAt(t, i) = CostAt(s, i - Len(steps) + 1)
    <2> DEFINE j == i - Len(steps) + 1
    <2>1. j \in Nat /\ (i \in 1 .. Len(t) <=> j \in 1 .. Len(s))
          /\ (i \in 1 .. Len(t) => t[i] = s[j])
      <3>1. \A l, k, q \in Nat : \A m \in Nat \ {0} : (m > k /\ l = k + q - 1) =>
                /\ m - k + 1 \in Nat
                /\ m \in 1 .. l <=> m - k + 1 \in 1 .. q
                /\ m \in 1 .. l => m \in k + 1 .. l
        OBVIOUS
      <3>2. Len(t) \in Nat
        BY <1>1
      <3>3. /\ j \in Nat /\ (i \in 1 .. Len(t) <=> j \in 1 .. Len(s))
            /\ i \in 1 .. Len(t) => i \in Len(steps) + 1 .. Len(t)
        BY <1>1, <1>5, <3>1, <3>2
      <3> QED
        BY <1>1, <3>3
    <2> HIDE DEF j
    <2>2. CostAt(t, i) = CostAt(s, j)
      BY <2>1 DEF CostAt
    <2> QED
      BY <2>2 DEF j
  <1>6. ASSUME NEW i \in 1 .. Len(steps)
        PROVE  CostAt(t, i) = Cost(steps[i][1])
    BY <1>1, <1>6 DEF CostAt
  <1>7. CASE steps = <<>>
    <2>1. /\ CostAt(t, 1) = CostAt(s, 2) /\ CostAt(t, 2) = CostAt(s, 3)
          /\ CostAt(t, 3) = CostAt(s, 4) /\ CostAt(t, 4) = CostAt(s, 5)
          /\ CostAt(t, 5) = CostAt(s, 6)
      <3>1. Len(steps) = 0 /\ \A i \in 1 .. 5 : CostAt(t, i) = CostAt(s, i + 1)
        BY <1>5, <1>7
      <3> QED
        BY <3>1
    <2>2. /\ Left(t) = CostAt(s, 2) + CostAt(s, 3) + CostAt(s, 4) + CostAt(s, 5) + 0
          /\ Left(s) = CostAt(s, 1) + CostAt(s, 2) + CostAt(s, 3) + CostAt(s, 4) + CostAt(s, 5)
      BY <1>4, <2>1, Zenon DEF Left
    <2>3. CostAt(s, 1) > 0
      BY <1>2
    <2> DEFINE c == CostAt(s, 1)
               x == CostAt(s, 2)
               y == CostAt(s, 3)
               z == CostAt(s, 4)
               w == CostAt(s, 5)
    <2>4. /\ c \in Nat /\ x \in Nat /\ y \in Nat /\ z \in Nat /\ w \in Nat /\ c > 0
          /\ Left(t) = x + y + z + w + 0 /\ Left(s) = c + x + y + z + w
      BY <1>3, <2>2, <2>3
    <2> HIDE DEF c, x, y, z, w
    <2>5. Left(t) < Left(s)
      BY <2>4
    <2> QED
      BY <2>5 DEF t
  <1>8. ASSUME NEW f \in Frame, steps = <<f>>, Cost(f[1]) < Cost(n)
        PROVE  Left(t) < Left(s)
    <2>1. Len(steps) = 1 /\ CostAt(t, 1) = Cost(f[1]) /\ Cost(f[1]) \in 1 .. 18
      BY <1>6, <1>8, Costs
    <2>2. /\ CostAt(t, 2) = CostAt(s, 2) /\ CostAt(t, 3) = CostAt(s, 3)
          /\ CostAt(t, 4) = CostAt(s, 4) /\ CostAt(t, 5) = CostAt(s, 5)
      <3>1. \A i \in 2 .. 5 : CostAt(t, i) = CostAt(s, i)
        BY <1>5, <2>1
      <3> QED
        BY <3>1
    <2>3. Left(t) = Cost(f[1]) + CostAt(s, 2) + CostAt(s, 3) + CostAt(s, 4) + CostAt(s, 5)
      BY <2>1, <2>2 DEF Left
    <2>4. Left(s) = Cost(n) + CostAt(s, 2) + CostAt(s, 3) + CostAt(s, 4) + CostAt(s, 5)
      BY <1>2 DEF Left
    <2>5. Cost(f[1]) < Cost(n)
      BY <1>8
    <2>6. Cost(f[1]) \in Nat /\ Cost(n) \in Nat
      BY <1>2, <2>1
    <2> DEFINE c == Cost(n)
               d == Cost(f[1])
               x == CostAt(s, 2)
               y == CostAt(s, 3)
               z == CostAt(s, 4)
               w == CostAt(s, 5)
    <2>7. /\ c \in Nat /\ d \in Nat /\ x \in Nat /\ y \in Nat /\ z \in Nat /\ w \in Nat /\ d < c
          /\ Left(t) = d + x + y + z + w /\ Left(s) = c + x + y + z + w
      BY <1>3, <2>3, <2>4, <2>5, <2>6, Zenon
    <2> HIDE DEF c, d, x, y, z, w
    <2> QED
      BY <2>7
  <1>9. ASSUME NEW f \in Frame, NEW r \in Frame, steps = <<f, r>>,
               Cost(f[1]) + Cost(r[1]) < Cost(n), Room(f[1]) < Room(n)
        PROVE  Left(t) < Left(s)
    <2>1. /\ Len(steps) = 2 /\ CostAt(t, 1) = Cost(f[1]) /\ CostAt(t, 2) = Cost(r[1])
          /\ Cost(f[1]) \in 1 .. 18 /\ Cost(r[1]) \in 1 .. 18 /\ Room(f[1]) \in 0 .. 2
      BY <1>6, <1>9, Costs
    <2>2. /\ CostAt(t, 3) = CostAt(s, 2) /\ CostAt(t, 4) = CostAt(s, 3)
          /\ CostAt(t, 5) = CostAt(s, 4)
      <3>1. \A i \in 3 .. 5 : CostAt(t, i) = CostAt(s, i - 1)
        BY <1>5, <2>1
      <3> QED
        BY <3>1
    <2>3. CostAt(s, 5) = 0
      BY <1>1, <1>2, <1>9, <2>1 DEF CostAt
    <2>4. Left(t) = Cost(f[1]) + Cost(r[1]) + CostAt(s, 2) + CostAt(s, 3) + CostAt(s, 4)
      BY <2>1, <2>2 DEF Left
    <2>5. Left(s) = Cost(n) + CostAt(s, 2) + CostAt(s, 3) + CostAt(s, 4) + 0
      BY <1>2, <2>3 DEF Left
    <2>6. Cost(f[1]) + Cost(r[1]) < Cost(n)
      BY <1>9
    <2>7. Cost(f[1]) + Cost(r[1]) \in Nat /\ Cost(n) \in Nat
      <3>1. Cost(f[1]) \in 1 .. 18 /\ Cost(r[1]) \in 1 .. 18 /\ Cost(n) \in 1 .. 18
        BY <1>2, <2>1, Zenon
      <3>2. \A x, y \in 1 .. 18 : x \in Nat /\ x + y \in Nat
        OBVIOUS
      <3> QED
        BY <3>1, <3>2, Zenon
    <2> DEFINE c == Cost(n)
               d == Cost(f[1]) + Cost(r[1])
               x == CostAt(s, 2)
               y == CostAt(s, 3)
               z == CostAt(s, 4)
    <2>8. /\ c \in Nat /\ d \in Nat /\ x \in Nat /\ y \in Nat /\ z \in Nat /\ d < c
          /\ Left(t) = d + x + y + z /\ Left(s) = c + x + y + z + 0
      BY <1>3, <2>4, <2>5, <2>6, <2>7, Zenon
    <2> HIDE DEF c, d, x, y, z
    <2> QED
      BY <2>8
  <1> QED
    BY <1>1, <1>7, <1>8, <1>9 DEF Lighter, t

\* What the theorem says of a step for goroutine a, and what it leaves.
Ends(a) ==
    /\ Shallow(calls'[a]) /\ Left(calls'[a]) <= MaxRound
    /\ \/ calls[a] \in {<<>>, calls'[a]} \/ At(a, "loop")'
       \/ Left(calls'[a]) < Left(calls[a])

RoundsOK == \A a \in Goroutines : Shallow(calls[a]) /\ Left(calls[a]) <= MaxRound

\* A step that calls only what needs less than itself.
LEMMA Descends ==
    ASSUME Inv, RoundsOK, NEW a \in Goroutines, calls[a] # <<>>, NEW steps \in Seq(Frame),
           Calling(a, steps), Lighter(steps, Head(calls[a])[1])
    PROVE  \A b \in Goroutines : Ends(b)
  <1>1. /\ calls'[a] = steps \o Tail(calls[a]) /\ calls'[a] \in Seq(Frame)
        /\ \A b \in Goroutines \ {a} : calls'[b] = calls[b]
    BY CalledFrames DEF Inv
  <1>2. Shallow(calls'[a]) /\ Left(calls'[a]) < Left(calls[a])
    BY <1>1, NextFrame, StaysShallow, LeavesLess DEF Inv, RoundsOK
  <1>3. Left(calls'[a]) \in Nat /\ Left(calls[a]) \in Nat
    BY <1>1, NextFrame, LeftNat DEF Inv
  <1>4. Ends(a)
    BY <1>2, <1>3 DEF Ends, RoundsOK, MaxRound
  <1> QED
    BY <1>1, <1>4 DEF Ends, RoundsOK

\* A session alone with the first step of its loop.
LEMMA LoopStack ==
    ASSUME NEW p \in STRING
    PROVE  /\ <<"loop", p>> \in Frame
           /\ Shallow(<< <<"loop", p>> >>) /\ Left(<< <<"loop", p>> >>) = 18
           /\ << <<"loop", p>> >> # <<>> /\ Head(<< <<"loop", p>> >>)[1] = "loop"
  <1> DEFINE f == <<"loop", p>>
  <1>1. f \in Frame /\ f[1] = "loop"
    BY LoopFrame
  <1> HIDE DEF f
  <1>2. Len(<<f>>) = 1 /\ <<f>>[1] = f /\ <<f>> # <<>> /\ Head(<<f>>) = f
    BY <1>1
  <1>3. Cost("loop") = 18 /\ Room("loop") = 2
    BY DEF Cost, Room
  <1>4. Shallow(<<f>>)
    BY <1>1, <1>2, <1>3 DEF Shallow, MaxDepth
  <1>5. Left(<<f>>) = 18
    BY <1>1, <1>2, <1>3 DEF Left, CostAt
  <1> QED
    BY <1>1, <1>2, <1>4, <1>5 DEF f


\* A step of the loop that begins the next round.
LEMMA NextRound ==
    ASSUME Inv, RoundsOK, NEW g \in Sessions, calls[g] # <<>>, Head(calls[g])[1] \in Final,
           NEW p \in STRING, Calling(g, << <<"loop", p>> >>)
    PROVE  \A b \in Goroutines : Ends(b)
  <1> DEFINE f == <<"loop", p>>
  <1>1. f \in Frame /\ Shallow(<<f>>) /\ Left(<<f>>) = 18 /\ <<f>> # <<>> /\ Head(<<f>>)[1] = "loop"
    BY LoopStack
  <1>2. f[1] \in Final /\ Calling(g, <<f>>)
    BY DEF Final
  <1> HIDE DEF f
  <1>3. <<f>> \in Seq(Frame) /\ Shaped(<<f>>)
    BY <1>1, <1>2, FrameSeqs, ShapedStacks
  <1>4. g \in Goroutines /\ calls'[g] = <<f>>
    BY <1>2, <1>3, CalledLoop DEF Inv, Goroutines
  <1>5. \A b \in Goroutines \ {g} : calls'[b] = calls[b]
    BY <1>2, <1>3, <1>4, CalledFrames DEF Inv
  <1>6. Ends(g)
    BY <1>1, <1>4 DEF Ends, At, MaxRound
  <1> QED
    BY <1>5, <1>6 DEF Ends, RoundsOK

\* startSync from a step that needs at least two.
LEMMA StartSyncEnds ==
    ASSUME Inv, RoundsOK, NEW a \in Goroutines, NEW p \in STRING, StartSync(a, p),
           calls[a] # <<>>, Head(calls[a])[1] \in {"align", "legacy", "restart", "behind"}
    PROVE  \A b \in Goroutines : Ends(b)
  <1> DEFINE f == <<"launch", p>>
             n == Head(calls[a])[1]
  <1>1. f \in Frame /\ f[1] = "launch" /\ Calling(a, <<f>>)
    BY LoopFrame DEF StartSync
  <1>2. Cost(f[1]) < Cost(n) /\ Room(f[1]) <= Room(n)
    BY <1>1 DEF Cost, Room
  <1> HIDE DEF f, n
  <1>3. Lighter(<<f>>, n) /\ <<f>> \in Seq(Frame)
    BY <1>1, <1>2 DEF Lighter
  <1> QED
    BY <1>1, <1>3, Descends DEF n

\* stopSync from a step that has room for what follows it.
LEMMA StopSyncEnds ==
    ASSUME Inv, RoundsOK, NEW a \in Goroutines, calls[a] # <<>>,
           \/ Head(calls[a])[1] = "align" /\ StopSync(a, <<>>)
           \/ Head(calls[a])[1] = "stall" /\ StopSync(a, << <<"restart">> >>)
    PROVE  \A b \in Goroutines : Ends(b)
  <1> DEFINE f == <<"wait", done>>
             r == <<"restart">>
             n == Head(calls[a])[1]
  <1>1. r \in Frame /\ (done # None => f \in Frame) /\ f[1] = "wait" /\ r[1] = "restart"
    BY DEF Frame, Inv, FlagsOK
  <1>2. /\ Cost("wait") = 1 /\ Cost("restart") = 2 /\ Cost("align") = 2 /\ Cost("stall") = 4
        /\ Room("wait") = 0 /\ Room("restart") = 0 /\ Room("align") = 0 /\ Room("stall") = 1
    BY DEF Cost, Room
  <1>3. CASE n = "align"
    <2>1. Calling(a, IF done = None THEN <<>> ELSE <<f>> \o <<>>)
      BY <1>3 DEF StopSync
    <2> HIDE DEF f, r, n
    <2>2. PICK steps \in {<<>>, <<f>>} : Calling(a, steps) /\ (steps = <<f>> => done # None)
      <3>1. CASE done = None
        BY <2>1, <3>1
      <3>2. CASE done # None
        <4>1. <<f>> \o <<>> = <<f>>
          BY <1>1, <3>2, ConcatEmptySeq
        <4> QED
          BY <2>1, <3>2, <4>1
      <3> QED
        BY <3>1, <3>2
    <2>3. Lighter(steps, n) /\ steps \in Seq(Frame)
      <3>1. CASE steps = <<>>
        BY <3>1 DEF Lighter
      <3>2. CASE steps = <<f>>
        <4>1. f \in Frame /\ Cost(f[1]) < Cost(n) /\ Room(f[1]) <= Room(n)
          BY <1>1, <1>2, <1>3, <2>2, <3>2
        <4> QED
          BY <3>2, <4>1 DEF Lighter
      <3> QED
        BY <2>2, <3>1, <3>2
    <2> QED
      BY <2>2, <2>3, Descends DEF n
  <1>4. CASE n = "stall"
    <2>1. Calling(a, IF done = None THEN <<r>> ELSE <<f>> \o <<r>>)
      BY <1>4 DEF StopSync
    <2> HIDE DEF f, r, n
    <2>2. PICK steps \in {<<r>>, <<f, r>>} : Calling(a, steps) /\ (steps = <<f, r>> => done # None)
      <3>1. CASE done = None
        <4>1. <<r>> # <<f, r>>
          OBVIOUS
        <4> QED
          BY <2>1, <3>1, <4>1
      <3>2. CASE done # None
        BY <1>1, <2>1, <3>2, OnTop
      <3> QED
        BY <3>1, <3>2
    <2>3. CASE steps = <<r>>
      <3>1. Lighter(<<r>>, n) /\ <<r>> \in Seq(Frame)
        BY <1>1, <1>2, <1>4 DEF Lighter
      <3> QED
        BY <2>2, <2>3, <3>1, Descends DEF n
    <2>4. CASE steps = <<f, r>>
      <3>1. f \in Frame
        BY <1>1, <2>2, <2>4
      <3>2. Cost(f[1]) + Cost(r[1]) < Cost(n) /\ Room(f[1]) < Room(n) /\ Room(r[1]) <= Room(n)
        BY <1>1, <1>2, <1>4
      <3>3. Lighter(<<f, r>>, n) /\ <<f, r>> \in Seq(Frame)
        BY <1>1, <3>1, <3>2 DEF Lighter
      <3> QED
        BY <2>2, <2>4, <3>3, Descends DEF n
    <2> QED
      BY <2>2, <2>3, <2>4
  <1> QED
    BY <1>3, <1>4

\* A step that returns.
LEMMA ReturnEnds ==
    ASSUME Inv, RoundsOK, NEW a \in Goroutines, calls[a] # <<>>, Return(a)
    PROVE  \A b \in Goroutines : Ends(b)
  <1>1. <<>> \in Seq(Frame) /\ Lighter(<<>>, Head(calls[a])[1])
    BY DEF Lighter
  <1> QED
    BY <1>1, Descends DEF Return

\* A step that calls one other.
LEMMA OneEnds ==
    ASSUME Inv, RoundsOK, NEW a \in Goroutines, calls[a] # <<>>, NEW f \in Frame,
           Calling(a, <<f>>), Cost(f[1]) < Cost(Head(calls[a])[1]),
           Room(f[1]) <= Room(Head(calls[a])[1])
    PROVE  \A b \in Goroutines : Ends(b)
  <1>1. <<f>> \in Seq(Frame) /\ Lighter(<<f>>, Head(calls[a])[1])
    BY DEF Lighter
  <1> QED
    BY <1>1, Descends

\* A step that calls two others.
LEMMA TwoEnds ==
    ASSUME Inv, RoundsOK, NEW a \in Goroutines, calls[a] # <<>>, NEW f \in Frame, NEW r \in Frame,
           Calling(a, <<f, r>>), Cost(f[1]) + Cost(r[1]) < Cost(Head(calls[a])[1]),
           Room(f[1]) < Room(Head(calls[a])[1]), Room(r[1]) <= Room(Head(calls[a])[1])
    PROVE  \A b \in Goroutines : Ends(b)
  <1>1. <<f, r>> \in Seq(Frame) /\ Lighter(<<f, r>>, Head(calls[a])[1])
    BY DEF Lighter
  <1> QED
    BY <1>1, Descends


LEMMA CallEnds ==
    ASSUME Inv, RoundsOK, NEW a \in Goroutines,
           UpdateConsensusState(a) \/ Transition(a) \/ OnBootstrapComplete(a)
    PROVE  \A b \in Goroutines : Ends(b)
  <1> DEFINE target == EvaluateSyncNeeded(height, Target)
             s == <<"transition", "SYNC_DECISION">>
             f == <<"transition", "REGULAR_SYNC">>
             t == <<"transition", target>>
             r == <<"align">>
             u == <<"update">>
  <1>1. target \in States
    BY DEF EvaluateSyncNeeded, States
  <1>2. /\ f \in Frame /\ t \in Frame /\ r \in Frame /\ u \in Frame /\ s \in Frame
        /\ f[1] = "transition" /\ t[1] = "transition" /\ s[1] = "transition"
        /\ r[1] = "align" /\ u[1] = "update"
    BY <1>1 DEF Frame, States
  <1>3. /\ Cost("transition") = 3 /\ Cost("align") = 2 /\ Cost("update") = 6
        /\ Cost("bootstrapped") = 10
        /\ Room("transition") = 0 /\ Room("align") = 0 /\ Room("update") = 1
        /\ Room("bootstrapped") = 1
    BY DEF Cost, Room
  <1>4. CASE UpdateConsensusState(a)
    <2>1. calls[a] # <<>> /\ Head(calls[a])[1] = "update"
      BY <1>4 DEF UpdateConsensusState, At
    <2>2. \E steps \in {<<>>, <<f>>, <<r>>, <<t, r>>} : Calling(a, steps)
      BY <1>4 DEF UpdateConsensusState
    <2> HIDE DEF f, t, r
    <2>3. CASE Calling(a, <<>>)
      BY <2>1, <2>3, ReturnEnds DEF Return
    <2>4. CASE Calling(a, <<f>>)
      BY <1>2, <1>3, <2>1, <2>4, OneEnds
    <2>5. CASE Calling(a, <<r>>)
      BY <1>2, <1>3, <2>1, <2>5, OneEnds
    <2>6. CASE Calling(a, <<t, r>>)
      BY <1>2, <1>3, <2>1, <2>6, TwoEnds
    <2> QED
      BY <2>2, <2>3, <2>4, <2>5, <2>6
  <1>5. CASE Transition(a)
    <2>1. calls[a] # <<>> /\ Head(calls[a])[1] = "transition"
      BY <1>5 DEF Transition, At
    <2>2. \E steps \in {<<>>, <<r>>} : Calling(a, steps)
      BY <1>5 DEF Transition
    <2> HIDE DEF r
    <2>3. CASE Calling(a, <<>>)
      BY <2>1, <2>3, ReturnEnds DEF Return
    <2>4. CASE Calling(a, <<r>>)
      BY <1>2, <1>3, <2>1, <2>4, OneEnds
    <2> QED
      BY <2>2, <2>3, <2>4
  <1>6. CASE OnBootstrapComplete(a)
    <2>1. calls[a] # <<>> /\ Head(calls[a])[1] = "bootstrapped" /\ Calling(a, <<s, u>>)
      BY <1>6 DEF OnBootstrapComplete, At
    <2> HIDE DEF s, u
    <2> QED
      BY <1>2, <1>3, <2>1, TwoEnds
  <1> QED
    BY <1>4, <1>5, <1>6

LEMMA AlignEnds ==
    ASSUME Inv, RoundsOK, NEW a \in Goroutines, EnsureSyncAlignment(a) \/ WaitDone(a)
    PROVE  \A b \in Goroutines : Ends(b)
  <1>1. CASE EnsureSyncAlignment(a)
    <2>1. calls[a] # <<>> /\ Head(calls[a])[1] = "align"
      BY <1>1 DEF EnsureSyncAlignment, At
    <2>2. StopSync(a, <<>>) \/ StartSync(a, NextPeer) \/ Return(a)
      BY <1>1 DEF EnsureSyncAlignment
    <2> QED
      BY <2>1, <2>2, NextPeerType, StopSyncEnds, StartSyncEnds, ReturnEnds
  <1>2. CASE WaitDone(a)
    BY <1>2, ReturnEnds DEF WaitDone, At
  <1> QED
    BY <1>1, <1>2

\* The launch is over for its caller, and the session begins its first round.
LEMMA LaunchEnds ==
    ASSUME Inv, RoundsOK, NEW a \in Goroutines, Launch(a)
    PROVE  \A b \in Goroutines : Ends(b)
  <1>1. calls[a] # <<>> /\ Head(calls[a])[1] = "launch" /\ calls[a] \in Seq(Frame)
    BY NextFrame DEF Launch, At, Inv
  <1> DEFINE f == <<"loop", Arg(a, 1)>>
  <1>2. PICK g \in Sessions :
          calls[g] = <<>> /\ calls' = [calls EXCEPT ![a] = Tail(@), ![g] = <<f>>]
    BY DEF Launch, Free
  <1>3. Arg(a, 1) \in STRING
    <2>1. Head(calls[a]) \in Frame
      BY <1>1, NextFrame DEF Inv
    <2> QED
      BY <1>1, <2>1, FrameFacts DEF Arg
  <1>4. Shallow(<<f>>) /\ Left(<<f>>) = 18 /\ f \in Frame
    BY <1>3, LoopStack
  <1> HIDE DEF f
  <1>5. Tail(calls[a]) \in Seq(Frame) /\ a # g /\ g \in Goroutines
    BY <1>1, <1>2, NextFrame DEF Inv, Goroutines
  <1>6. /\ calls'[a] = Tail(calls[a]) /\ calls'[g] = <<f>>
        /\ \A b \in Goroutines \ {a, g} : calls'[b] = calls[b]
    BY <1>2, <1>5 DEF Inv, CallsOK
  <1>7. Ends(a)
    <2>1. <<>> \in Seq(Frame) /\ <<>> \o Tail(calls[a]) = Tail(calls[a])
      BY <1>5, ConcatEmptySeq
    <2>2. Lighter(<<>>, Head(calls[a])[1])
      BY DEF Lighter
    <2>3. Shallow(calls'[a]) /\ Left(calls'[a]) < Left(calls[a])
      BY <1>1, <1>6, <2>1, <2>2, StaysShallow, LeavesLess DEF RoundsOK
    <2>4. Left(calls'[a]) \in Nat /\ Left(calls[a]) \in Nat /\ Left(calls[a]) <= MaxRound
      BY <1>1, <1>5, <1>6, LeftNat DEF RoundsOK
    <2> QED
      BY <2>3, <2>4 DEF Ends, MaxRound
  <1>8. Ends(g)
    <2>1. Shallow(calls'[g]) /\ Left(calls'[g]) = 18
      BY <1>4, <1>6
    <2>2. Left(calls'[g]) <= MaxRound
      BY <2>1 DEF MaxRound
    <2>3. calls[g] \in {<<>>, calls'[g]}
      BY <1>2
    <2> QED
      BY <2>1, <2>2, <2>3 DEF Ends
  <1> QED
    BY <1>6, <1>7, <1>8 DEF Ends, RoundsOK


LEMMA SessionEnds ==
    ASSUME Inv, RoundsOK, NEW g \in Sessions, SessionStep(g)
    PROVE  \A b \in Goroutines : Ends(b)
  <1>0. g \in Goroutines
    BY DEF Goroutines
  <1>1. /\ Cost("loop") = 18 /\ Cost("collect") = 17 /\ Cost("update") = 6 /\ Cost("failed") = 3
        /\ Cost("end") = 3 /\ Cost("rotate") = 10 /\ Cost("stay") = 10 /\ Cost("exit") = 2
        /\ Cost("close") = 1 /\ Cost("resume") = 3 /\ Cost("next") = 3
        /\ Room("loop") = 2 /\ Room("collect") = 2 /\ Room("update") = 1 /\ Room("failed") = 2
        /\ Room("end") = 2 /\ Room("rotate") = 2 /\ Room("stay") = 2 /\ Room("exit") = 0
        /\ Room("close") = 0 /\ Room("resume") = 2 /\ Room("next") = 2
    BY DEF Cost, Room
  <1> DEFINE u == <<"update">>
             f == <<"failed">>
             x == <<"exit">>
             c == <<"close">>
  <1>2. /\ u \in Frame /\ f \in Frame /\ x \in Frame /\ c \in Frame
        /\ u[1] = "update" /\ f[1] = "failed" /\ x[1] = "exit" /\ c[1] = "close"
    BY DEF Frame
  <1>3. CASE LoopEnds(g)
    <2>1. calls[g] # <<>> /\ Head(calls[g])[1] = "loop" /\ Calling(g, <<x>>)
      BY <1>3 DEF LoopEnds, At
    <2> HIDE DEF x
    <2> QED
      BY <1>0, <1>1, <1>2, <2>1, OneEnds
  <1>4. CASE RequestBatch(g)
    <2>1. calls[g] # <<>> /\ Head(calls[g])[1] = "loop"
      BY <1>4 DEF RequestBatch, At
    <2> DEFINE near == peerTip - best < NearTip
               q == <<"collect", Arg(g, 1), near>>
    <2>2. Arg(g, 1) \in STRING /\ near \in BOOLEAN
      BY <2>1, SessionPeer
    <2>3. Calling(g, <<q>>) /\ q[1] = "collect"
      BY <1>4 DEF RequestBatch
    <2> HIDE DEF near
    <2>4. q \in Frame
      BY <2>2, CollectFrame
    <2> HIDE DEF q
    <2> QED
      BY <1>0, <1>1, <2>1, <2>3, <2>4, OneEnds
  <1>5. CASE BatchAccepted(g)
    <2>1. calls[g] # <<>> /\ Head(calls[g])[1] = "collect"
      BY <1>5 DEF BatchAccepted, Answered, At
    <2>2. PICK outcome \in {"end", "rotate", "stay"} :
              Calling(g, << <<"update">>, <<outcome, Arg(g, 1)>> >>)
      BY <1>5, OutcomeNames DEF BatchAccepted
    <2> DEFINE r == <<outcome, Arg(g, 1)>>
    <2>3. r \in Frame /\ r[1] = outcome /\ Calling(g, <<u, r>>)
      BY <2>1, <2>2, SessionPeer, LoopFrame
    <2>4. Cost(outcome) <= 10 /\ Cost(outcome) \in Nat /\ Room(outcome) = 2
      BY <1>1
    <2> HIDE DEF u, r
    <2> QED
      BY <1>0, <1>1, <1>2, <2>1, <2>3, <2>4, TwoEnds
  <1>6. CASE BatchRolledBack(g)
    <2>1. calls[g] # <<>> /\ Head(calls[g])[1] = "collect"
      BY <1>6 DEF BatchRolledBack, Answered, At
    <2>2. Arg(g, 1) \in STRING /\ NextPeer \in STRING /\ Head(calls[g])[1] \in Final
      BY <2>1, SessionPeer, NextPeerType DEF Final
    <2>3. \/ \E p \in STRING : Calling(g, << <<"loop", p>> >>)
          \/ \E outcome \in {"end", "rotate", "stay"} : Calling(g, << <<outcome, Arg(g, 1)>> >>)
      BY <1>6, <2>2, OutcomeNames DEF BatchRolledBack
    <2>4. ASSUME NEW outcome \in {"end", "rotate", "stay"}, Calling(g, << <<outcome, Arg(g, 1)>> >>)
          PROVE  \A b \in Goroutines : Ends(b)
      <3> DEFINE r == <<outcome, Arg(g, 1)>>
      <3>1. r \in Frame /\ r[1] = outcome /\ Calling(g, <<r>>)
        BY <2>2, <2>4, LoopFrame
      <3>2. Cost(outcome) <= 10 /\ Cost(outcome) \in Nat /\ Room(outcome) = 2
        BY <1>1
      <3> HIDE DEF r
      <3> QED
        BY <1>0, <1>1, <2>1, <3>1, <3>2, OneEnds
    <2> QED
      BY <2>1, <2>2, <2>3, <2>4, NextRound
  <1>7. CASE BatchRejected(g) \/ BatchTimeout(g)
    <2>1. calls[g] # <<>> /\ Head(calls[g])[1] = "collect"
      BY <1>7 DEF BatchRejected, BatchTimeout, Answered, At
    <2>2. Calling(g, <<f>>) \/ Calling(g, <<u, f>>)
      <3>1. CASE BatchRejected(g)
        <4>1. PICK steps \in {<<>>, <<u>>} : Calling(g, steps \o <<f>>)
          BY <3>1 DEF BatchRejected
        <4>2. <<>> \o <<f>> = <<f>> /\ <<u>> \o <<f>> = <<u, f>>
          BY <1>2, OnTop
        <4> QED
          BY <4>1, <4>2
      <3>2. CASE BatchTimeout(g)
        BY <3>2 DEF BatchTimeout
      <3> QED
        BY <1>7, <3>1, <3>2
    <2> HIDE DEF u, f
    <2>3. CASE Calling(g, <<f>>)
      BY <1>0, <1>1, <1>2, <2>1, <2>3, OneEnds
    <2>4. CASE Calling(g, <<u, f>>)
      BY <1>0, <1>1, <1>2, <2>1, <2>4, TwoEnds
    <2> QED
      BY <2>2, <2>3, <2>4
  <1>8. CASE BatchComplete(g)
    <2>1. calls[g] # <<>> /\ Head(calls[g])[1] \in Resumed /\ Head(calls[g])[1] \in Final
      BY <1>8 DEF BatchComplete, At, Resumed, Final
    <2>2. CASE At(g, "end") /\ Calling(g, <<x>>)
      <3>1. Head(calls[g])[1] = "end"
        BY <2>2 DEF At
      <3> HIDE DEF x
      <3> QED
        BY <1>0, <1>1, <1>2, <2>1, <2>2, <3>1, OneEnds
    <2>3. CASE At(g, "stay") /\ Calling(g, << <<"loop", Arg(g, 1)>> >>)
      <3>1. Arg(g, 1) \in STRING
        BY <2>1, <2>3, SessionPeer DEF At
      <3> QED
        BY <2>1, <2>3, <3>1, NextRound
    <2>4. CASE Calling(g, << <<"loop", NextPeer>> >>)
      BY <2>1, <2>4, NextPeerType, NextRound
    <2> QED
      BY <1>8, <2>2, <2>3, <2>4 DEF BatchComplete
  <1>9. CASE ExitSession(g)
    <2>1. calls[g] # <<>> /\ Head(calls[g])[1] = "exit" /\ Calling(g, <<c>>)
      BY <1>9 DEF ExitSession, At
    <2> HIDE DEF c
    <2> QED
      BY <1>0, <1>1, <1>2, <2>1, OneEnds
  <1>10. CASE CloseDone(g)
    BY <1>0, <1>10, ReturnEnds DEF CloseDone, At
  <1>11. CASE BatchKnown(g)
    <2>1. calls[g] # <<>> /\ Head(calls[g])[1] = "collect"
      BY <1>11 DEF BatchKnown, At
    <2>2. PICK outcome \in {"end", "rotate", "stay"} : Calling(g, << <<outcome, Arg(g, 1)>> >>)
      BY <1>11, OutcomeNames DEF BatchKnown
    <2> DEFINE r == <<outcome, Arg(g, 1)>>
    <2>3. r \in Frame /\ r[1] = outcome /\ Calling(g, <<r>>)
      BY <2>1, <2>2, SessionPeer, LoopFrame
    <2>4. Cost(outcome) <= 10 /\ Cost(outcome) \in Nat /\ Room(outcome) = 2
      BY <1>1
    <2> HIDE DEF r
    <2> QED
      BY <1>0, <1>1, <2>1, <2>3, <2>4, OneEnds
  <1>12. CASE RebuildPeerList(g)
    <2>1. calls[g] # <<>> /\ Head(calls[g])[1] \in {"stay", "rotate"}
      BY <1>12 DEF RebuildPeerList, At
    <2> DEFINE n == <<"next">>
               r == <<"resume", Arg(g, 1)>>
    <2>2. n \in Frame /\ n[1] = "next" /\ r \in Frame /\ r[1] = "resume"
      <3>1. n \in Frame /\ n[1] = "next" /\ r[1] = "resume"
        BY DEF Frame
      <3>2. Arg(g, 1) \in STRING
        BY <2>1, SessionPeer
      <3> QED
        BY <3>1, <3>2, LoopFrame
    <2>3. Calling(g, <<u, n>>) \/ Calling(g, <<u, r>>)
      BY <1>12 DEF RebuildPeerList
    <2> HIDE DEF u, n, r
    <2> QED
      BY <1>0, <1>1, <1>2, <2>1, <2>2, <2>3, TwoEnds
  <1>13. CASE ResumeLoop(g)
    <2>1. calls[g] # <<>> /\ Head(calls[g])[1] \in {"resume", "next"} /\ Head(calls[g])[1] \in Final
      BY <1>13 DEF ResumeLoop, At, Final, Resumed
    <2>2. At(g, "resume") => Arg(g, 1) \in STRING
      BY <2>1, SessionPeer DEF At
    <2> QED
      BY <1>13, <2>1, <2>2, NextPeerType, NextRound DEF ResumeLoop
  <1> QED
    BY <1>3, <1>4, <1>5, <1>6, <1>7, <1>8, <1>9, <1>10, <1>11, <1>12, <1>13 DEF SessionStep

\* A tick begins the maintenance goroutine's next round.
LEMMA TickEnds ==
    ASSUME Inv, RoundsOK, Tick
    PROVE  \A b \in Goroutines : Ends(b)
  <1> DEFINE u == <<"update">>
             l == <<"legacy">>
             s == <<"stall">>
             h == <<"behind">>
             t == <<u, l, s, h>>
  <1>1. /\ Cost("update") = 6 /\ Cost("legacy") = 2 /\ Cost("stall") = 4 /\ Cost("behind") = 2
        /\ Room("update") = 1 /\ Room("legacy") = 0 /\ Room("stall") = 1 /\ Room("behind") = 0
    BY DEF Cost, Room
  <1>2. u[1] = "update" /\ l[1] = "legacy" /\ s[1] = "stall" /\ h[1] = "behind"
    OBVIOUS
  <1>3. calls[Maint] = <<>> /\ calls' = [calls EXCEPT ![Maint] = t] /\ Maint \in Goroutines
    BY DEF Tick, Goroutines
  <1> HIDE DEF u, l, s, h
  <1>4. Len(t) = 4 /\ t[1] = u /\ t[2] = l /\ t[3] = s /\ t[4] = h
    OBVIOUS
  <1> HIDE DEF t
  <1>5. Shallow(t)
    <2>1. \A i \in 1 .. 4 : 4 - i + 1 + Room(t[i][1]) <= 5
      <3>1. \A i \in 1 .. 4 : i = 1 \/ i = 2 \/ i = 3 \/ i = 4
        OBVIOUS
      <3> QED
        BY <1>1, <1>2, <1>4, <3>1
    <2> QED
      BY <1>4, <2>1 DEF Shallow, MaxDepth
  <1>6. Left(t) = 14
    <2>1. /\ CostAt(t, 1) = 6 /\ CostAt(t, 2) = 2 /\ CostAt(t, 3) = 4 /\ CostAt(t, 4) = 2
          /\ CostAt(t, 5) = 0
      BY <1>1, <1>2, <1>4 DEF CostAt
    <2> QED
      BY <2>1 DEF Left
  <1>7. calls'[Maint] = t /\ \A b \in Goroutines \ {Maint} : calls'[b] = calls[b]
    BY <1>3 DEF Inv, CallsOK
  <1>8. Ends(Maint)
    <2>1. Left(calls'[Maint]) <= MaxRound
      BY <1>6, <1>7 DEF MaxRound
    <2>2. calls[Maint] \in {<<>>, calls'[Maint]}
      BY <1>3
    <2> QED
      BY <1>5, <1>7, <2>1, <2>2 DEF Ends
  <1> QED
    BY <1>7, <1>8 DEF Ends, RoundsOK

LEMMA MaintenanceEnds ==
    ASSUME Inv, RoundsOK, LegacyFallback \/ CheckStall \/ Restart \/ RestartBehind
    PROVE  \A b \in Goroutines : Ends(b)
  <1>1. /\ calls[Maint] # <<>> /\ Maint \in Goroutines
        /\ Head(calls[Maint])[1] \in {"legacy", "stall", "restart", "behind"}
    BY DEF LegacyFallback, CheckStall, Restart, RestartBehind, At, Goroutines
  <1>2. CASE CheckStall
    <2>1. Head(calls[Maint])[1] = "stall"
      BY <1>2 DEF CheckStall, At
    <2>2. Return(Maint) \/ StopSync(Maint, << <<"restart">> >>)
      BY <1>2 DEF CheckStall
    <2> QED
      BY <1>1, <2>1, <2>2, ReturnEnds, StopSyncEnds
  <1>3. CASE LegacyFallback \/ Restart \/ RestartBehind
    <2>1. Head(calls[Maint])[1] \in {"legacy", "restart", "behind"}
      BY <1>3 DEF LegacyFallback, Restart, RestartBehind, At
    <2>2. Return(Maint) \/ \E i \in 1 .. Len(Peers) : StartSync(Maint, Peers[i])
      BY <1>3 DEF LegacyFallback, Restart, RestartBehind, StartBehind
    <2>3. \A i \in 1 .. Len(Peers) : Peers[i] \in STRING
      BY SyncAssumption DEF SyncAssumption
    <2> QED
      BY <1>1, <2>1, <2>2, <2>3, ReturnEnds, StartSyncEnds
  <1> QED
    BY <1>2, <1>3

LEMMA StepEnds ==
    ASSUME Inv, RoundsOK, [Next]_vars
    PROVE  \A b \in Goroutines : Ends(b)
  <1>1. ASSUME NEW a \in Goroutines, Step(a)
        PROVE  \A b \in Goroutines : Ends(b)
    BY <1>1, CallEnds, AlignEnds, LaunchEnds DEF Step
  <1>2. CASE Maintenance
    BY <1>2, TickEnds, MaintenanceEnds DEF Maintenance
  <1>3. CASE Network \/ UNCHANGED vars
    <2>1. calls' = calls
      BY <1>3 DEF Network, NewBlock, ConsensusLost, ConsensusFound, HandleInventoryAnnouncement,
                  vars
    <2> QED
      BY <2>1 DEF Ends, RoundsOK
  <1> QED
    BY <1>1, <1>2, <1>3, SessionEnds DEF Next

LEMMA InitRounds == ASSUME Init PROVE RoundsOK
  <1> DEFINE u == <<"update">>
             o == <<"bootstrapped">>
             t == <<u, o>>
  <1>1. /\ Cost("update") = 6 /\ Cost("bootstrapped") = 10
        /\ Room("update") = 1 /\ Room("bootstrapped") = 1
    BY DEF Cost, Room
  <1>2. u[1] = "update" /\ o[1] = "bootstrapped"
    OBVIOUS
  <1>3. \A a \in Goroutines : calls[a] = t \/ calls[a] = <<>>
    BY DEF Init
  <1> HIDE DEF u, o
  <1>4. Len(t) = 2 /\ t[1] = u /\ t[2] = o
    OBVIOUS
  <1> HIDE DEF t
  <1>5. Shallow(t) /\ Shallow(<<>>)
    <2>1. \A i \in 1 .. 2 : 2 - i + 1 + Room(t[i][1]) <= 5
      <3>1. \A i \in 1 .. 2 : i = 1 \/ i = 2
        OBVIOUS
      <3> QED
        BY <1>1, <1>2, <1>4, <3>1
    <2> QED
      BY <1>4, <2>1 DEF Shallow, MaxDepth
  <1>6. Left(t) = 16
    <2>1. CostAt(t, 1) = 6 /\ CostAt(t, 2) = 10 /\ CostAt(t, 3) = 0 /\ CostAt(t, 4) = 0
          /\ CostAt(t, 5) = 0
      BY <1>1, <1>2, <1>4 DEF CostAt
    <2> QED
      BY <2>1 DEF Left
  <1>7. Left(<<>>) = 0
    <2>1. \A i \in Nat : CostAt(<<>>, i) = 0
      BY DEF CostAt
    <2>2. CostAt(<<>>, 1) = 0 /\ CostAt(<<>>, 2) = 0 /\ CostAt(<<>>, 3) = 0 /\ CostAt(<<>>, 4) = 0
          /\ CostAt(<<>>, 5) = 0
      BY <2>1
    <2> QED
      BY <2>2 DEF Left
  <1> QED
    BY <1>3, <1>5, <1>6, <1>7 DEF RoundsOK, MaxRound

LEMMA RoundsAlways == Spec => [](Inv /\ RoundsOK)
  <1>1. Init => Inv /\ RoundsOK
    BY InitInv, InitRounds
  <1>2. Inv /\ RoundsOK /\ [Next]_vars => (Inv /\ RoundsOK)'
    BY StepInv, StepEnds DEF RoundsOK, Ends
  <1> QED
    BY <1>1, <1>2, PTL DEF Spec

\* updateConsensusState, Transition, its callback, ensureSyncAlignment and
\* stopSync call each other, but never nest: no goroutine is ever more than five
\* calls deep, however the others change the state in between.
THEOREM CallsStayShallow ==
    Spec => [](\A a \in Goroutines : Len(calls[a]) <= MaxDepth)
  <1>1. ASSUME Inv, RoundsOK, NEW a \in Goroutines
        PROVE  Len(calls[a]) <= MaxDepth
    <2>1. CASE calls[a] = <<>>
      BY <2>1 DEF MaxDepth
    <2>2. CASE calls[a] # <<>>
      <3>1. calls[a] \in Seq(Frame) /\ Len(calls[a]) \in Nat \ {0}
        BY <1>1, <2>2, NextFrame DEF Inv
      <3>2. calls[a][1] \in Frame
        BY <3>1
      <3>3. Room(calls[a][1][1]) \in 0 .. 2
        BY <3>2, Costs
      <3>4. Len(calls[a]) - 1 + 1 + Room(calls[a][1][1]) <= MaxDepth
        BY <1>1, <3>1 DEF RoundsOK, Shallow
      <3> QED
        BY <3>1, <3>3, <3>4 DEF MaxDepth
    <2> QED
      BY <2>1, <2>2
  <1>2. Inv /\ RoundsOK => \A a \in Goroutines : Len(calls[a]) <= MaxDepth
    BY <1>1
  <1> QED
    BY <1>2, RoundsAlways, PTL

\* Every step a goroutine takes brings the end of its round nearer, and nothing
\* that others do puts it off: between two rounds of its loop, or two ticks, a
\* session or the maintenance goroutine takes at most MaxRound steps, however
\* often the state machine changes its mind.
THEOREM RoundsEnd ==
    Spec => [][\A a \in Goroutines :
                 /\ Left(calls[a]) \in 0 .. MaxRound
                 /\ \/ calls[a] \in {<<>>, calls'[a]} \/ At(a, "loop")'
                    \/ Left(calls'[a]) < Left(calls[a])]_vars
  <1>1. ASSUME Inv, RoundsOK, [Next]_vars, NEW a \in Goroutines
        PROVE  /\ Left(calls[a]) \in 0 .. MaxRound
               /\ \/ calls[a] \in {<<>>, calls'[a]} \/ At(a, "loop")'
                  \/ Left(calls'[a]) < Left(calls[a])
    <2>1. Left(calls[a]) \in Nat /\ Left(calls[a]) <= MaxRound
      BY <1>1, LeftNat DEF RoundsOK, Inv, CallsOK
    <2> QED
      BY <1>1, <2>1, StepEnds DEF Ends, MaxRound
  <1> DEFINE A == \A a \in Goroutines :
                    /\ Left(calls[a]) \in 0 .. MaxRound
                    /\ \/ calls[a] \in {<<>>, calls'[a]} \/ At(a, "loop")'
                       \/ Left(calls'[a]) < Left(calls[a])
  <1>2. Inv /\ RoundsOK /\ [Next]_vars => A
    BY <1>1
  <1> HIDE DEF A
  <1>3. Spec => [][A]_vars
    BY <1>2, RoundsAlways, PTL DEF Spec
  <1> QED
    BY <1>3 DEF A
=============================================================================
