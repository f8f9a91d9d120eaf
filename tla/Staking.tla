------------------------------ MODULE Staking ------------------------------
(***************************************************************************)
(* When the node stakes: the wallet's lock, its auto-lock timer, the       *)
(* setting staking.enabled and the start and stop of the staking worker.   *)
(*                                                                         *)
(* walletpassphrase, walletlock, the settings and the shutdown run on      *)
(* goroutines of their own; so do the auto-lock timer and the wallet's     *)
(* callback after an unlock.  They meet in three places: the wallet's      *)
(* RWMutex, the atomic flag stakingActive and the pointer stakingWorker.   *)
(* setgenerate, which starts and stops past the setting, is left out, and  *)
(* so are keys and passphrases, of which only right and wrong is kept.     *)
(***************************************************************************)
EXTENDS Integers, FiniteSets

CONSTANTS
    Goroutines,     \* bound: calls, callbacks and timers at one time
    Workers,        \* bound: StakingWorker objects at one time
    MaxCalls,       \* bound: calls made by the user
    NoWorker        \* stakingWorker is nil

ASSUME BoundsAssumption == MaxCalls \in Nat
ASSUME NilAssumption == NoWorker \notin Workers

VARIABLES
    encrypted, unlocked, stakingOnly,   \* fields of the Wallet
    unlockTime,     \* whether unlockTime is set
    timer,          \* an auto-lock runs that autoLockCancel would stop
    enabled,        \* staking.enabled
    active,         \* stakingActive
    slot,           \* pos.stakingWorker
    worker,         \* StakingWorkers: loop position, running, stopCh closed
    pc, job,        \* position and locals of each goroutine
    down,           \* ProofOfStake.Stop has returned; the storage closes next
    panicked,       \* a goroutine has panicked, and with it the process
    calls,          \* number of calls so far
    raced,          \* history: two calls that start or stop staking overlapped,
                    \* or one began after the shutdown
    forgot,         \* history: a wrong passphrase cancelled the auto-lock
    silent          \* history: the wallet was last locked without the callback

wallet == <<encrypted, unlocked, stakingOnly, unlockTime, timer, forgot, silent>>
engine == <<active, slot, worker>>
env == <<enabled, down, panicked, calls>>
vars == <<wallet, engine, env, pc, job, raced>>

\* Steps at which a goroutine waits for the wallet's mutex as a writer, and the
\* steps of StartStaking, StopStaking and of the code that is about to call them.
WriterSteps == {"unlock", "lock", "restore", "change", "encrypt", "notify"}
StartSteps == {"onUnlock", "begin", "cas", "check", "create", "run"}
StopSteps == {"load", "store", "fetch", "stop", "await", "clear"}
ControlSteps == StartSteps \cup StopSteps
Steps == {"idle"} \cup WriterSteps \cup ControlSteps

Jobs == [right : BOOLEAN, timed : BOOLEAN, only : BOOLEAN, final : BOOLEAN,
         worker : Workers \cup {NoWorker}]
NoJob == [right |-> FALSE, timed |-> FALSE, only |-> FALSE, final |-> FALSE,
          worker |-> NoWorker]

NewWorkerMutNoChannel == [at |-> "new", running |-> FALSE, closed |-> NoWorker]

NewWorker == [at |-> "new", running |-> FALSE, closed |-> FALSE]
WorkerStates == [at : {"new", "loop", "found", "signing", "submit", "done"},
                 running : BOOLEAN, closed : BOOLEAN]

TypeOK ==
    /\ encrypted \in BOOLEAN /\ unlocked \in BOOLEAN /\ stakingOnly \in BOOLEAN
    /\ unlockTime \in BOOLEAN /\ timer \in BOOLEAN
    /\ forgot \in BOOLEAN /\ silent \in BOOLEAN
    /\ enabled \in BOOLEAN /\ active \in BOOLEAN
    /\ slot \in Workers \cup {NoWorker}
    /\ worker \in [Workers -> WorkerStates]
    /\ pc \in [Goroutines -> Steps]
    /\ job \in [Goroutines -> Jobs]
    /\ down \in BOOLEAN /\ panicked \in BOOLEAN /\ raced \in BOOLEAN
    /\ calls \in 0 .. MaxCalls

\* Start-up phase 5b calls StartStaking when staking is enabled.
Init ==
    /\ encrypted \in BOOLEAN /\ unlocked = FALSE /\ stakingOnly = FALSE
    /\ unlockTime = FALSE /\ timer = FALSE
    /\ forgot = FALSE /\ silent = FALSE
    /\ enabled \in BOOLEAN
    /\ active = FALSE /\ slot = NoWorker
    /\ worker = [k \in Workers |-> NewWorker]
    /\ \E g \in Goroutines :
        pc = [h \in Goroutines |-> IF h = g /\ enabled THEN "begin" ELSE "idle"]
    /\ job = [g \in Goroutines |-> NoJob]
    /\ down = FALSE /\ panicked = FALSE
    /\ calls = 0 /\ raced = FALSE

-----------------------------------------------------------------------------
(* The wallet's RWMutex.  Its critical sections are single steps but for   *)
(* one: CreateCoinstakeTx holds the read lock and takes it once more.      *)

IsLocked == encrypted /\ ~unlocked

Readers == {k \in Workers : worker[k].at = "signing"}

\* A waiting writer keeps new readers out.
WriterWaits ==
    \/ \E g \in Goroutines : pc[g] \in WriterSteps
    \/ \E k \in Workers : worker[k].at = "submit"

CanRLockMutCallbackUnderLock ==
    ~WriterWaits /\ \A g \in Goroutines : pc[g] \notin {"store", "fetch", "stop", "await"}

CanRLock == ~WriterWaits
CanLock == Readers = {}

Goto(g, step) == pc' = [pc EXCEPT ![g] = step]

\* The goroutine's call is over; a shutdown goes on to close the storage.
Return(g) ==
    /\ Goto(g, "idle")
    /\ job' = [job EXCEPT ![g] = NoJob]
    /\ down' = (down \/ job[g].final)

\* A call that starts or stops staking begins, perhaps while another is at it.
Controlling == \E g \in Goroutines : pc[g] \in ControlSteps
BeginControl == raced' = (raced \/ Controlling \/ down)

-----------------------------------------------------------------------------
(* Calls.                                                                  *)

NewCall(g) ==
    /\ ~panicked /\ ~down /\ calls < MaxCalls
    /\ pc[g] = "idle"
    /\ calls' = calls + 1

\* RPC and GUI calls on the wallet, and the block processor's NotifyBlocks,
\* arrive at the wallet's mutex.
CallWallet(g, step) ==
    /\ NewCall(g)
    /\ Goto(g, step)
    /\ IF step = "unlock"
       THEN \E right, timed, only \in BOOLEAN :
               job' = [job EXCEPT ![g] = [NoJob EXCEPT !.right = right, !.timed = timed,
                                                       !.only = only]]
       ELSE UNCHANGED job
    /\ UNCHANGED <<wallet, engine, enabled, down, panicked, raced>>

SetEnabledMutNoHandler(g, value) ==
    /\ NewCall(g)
    /\ enabled' = value
    /\ BeginControl
    /\ UNCHANGED <<wallet, engine, down, panicked, pc, job>>

\* ConfigManager.Set stores the value under its lock and calls the subscriber
\* after it, whether the value has changed or not.
SetEnabled(g, value) ==
    /\ NewCall(g)
    /\ enabled' = value
    /\ Goto(g, IF value THEN "begin" ELSE "load")
    /\ BeginControl
    /\ UNCHANGED <<wallet, engine, down, panicked, job>>

\* ProofOfStake.Stop.  The node waits for it before it closes the storage (for a
\* limited time, which is not modelled).
Shutdown(g) ==
    /\ NewCall(g)
    /\ \A h \in Goroutines : ~job[h].final
    /\ Goto(g, "load")
    /\ job' = [job EXCEPT ![g] = [NoJob EXCEPT !.final = TRUE]]
    /\ BeginControl
    /\ UNCHANGED <<wallet, engine, enabled, down, panicked>>

-----------------------------------------------------------------------------
(* The wallet under its write lock.                                        *)

UnlockMutNotArmed(g) ==
    /\ pc[g] = "unlock" /\ CanLock
    /\ IF ~encrypted \/ (unlocked /\ stakingOnly /\ job[g].only) \/ ~job[g].right
       THEN Return(g) /\ UNCHANGED <<wallet, raced>>
       ELSE /\ unlocked' = TRUE /\ stakingOnly' = job[g].only
            /\ unlockTime' = job[g].timed
            /\ forgot' = FALSE /\ silent' = FALSE
            /\ timer' = FALSE
            /\ Goto(g, "onUnlock")
            /\ job' = [job EXCEPT ![g] = NoJob]
            /\ BeginControl
            /\ UNCHANGED <<encrypted, down>>
    /\ UNCHANGED <<engine, enabled, panicked, calls>>

\* Unlock.  The pending auto-lock is cancelled before the passphrase is tried.
\* The callback runs on a goroutine of its own, here the caller's, which is done.
Unlock(g) ==
    /\ pc[g] = "unlock" /\ CanLock
    /\ IF ~encrypted \/ (unlocked /\ stakingOnly /\ job[g].only)
       THEN Return(g) /\ UNCHANGED <<wallet, raced>>
       ELSE IF ~job[g].right
       THEN /\ timer' = FALSE
            /\ forgot' = (forgot \/ (unlocked /\ unlockTime))
            /\ Return(g)
            /\ UNCHANGED <<encrypted, unlocked, stakingOnly, unlockTime, silent, raced>>
       ELSE /\ unlocked' = TRUE /\ stakingOnly' = job[g].only
            /\ unlockTime' = job[g].timed
            /\ forgot' = FALSE /\ silent' = FALSE
            /\ job' = [job EXCEPT ![g] = NoJob]
            /\ timer' = job[g].timed
            /\ Goto(g, "onUnlock")
            /\ BeginControl
            /\ UNCHANGED <<encrypted, down>>
    /\ UNCHANGED <<engine, enabled, panicked, calls>>

\* time.After fires: the auto-lock's goroutine calls Lock, and no cancel stops
\* it any more.
AutoLockFires(g) ==
    /\ ~panicked
    /\ timer /\ pc[g] = "idle"
    /\ timer' = FALSE
    /\ Goto(g, "lock")
    /\ UNCHANGED <<encrypted, unlocked, stakingOnly, unlockTime, forgot, silent, engine,
                   env, job, raced>>

\* Lock and clearSecretsLocked; the callback, StopStaking, comes after the
\* mutex is released.
Lock(g) ==
    /\ pc[g] = "lock" /\ CanLock
    /\ IF encrypted /\ unlocked
       THEN /\ unlocked' = FALSE /\ stakingOnly' = FALSE /\ unlockTime' = FALSE
            /\ timer' = FALSE /\ forgot' = FALSE /\ silent' = FALSE
            /\ Goto(g, "load")
            /\ BeginControl
            /\ UNCHANGED <<encrypted, job, down>>
       ELSE Return(g) /\ UNCHANGED <<wallet, raced>>
    /\ UNCHANGED <<engine, enabled, panicked, calls>>

RestoreToStakingOnly(g) ==
    /\ pc[g] = "restore" /\ CanLock
    /\ IF encrypted /\ unlocked /\ ~stakingOnly
       THEN /\ stakingOnly' = TRUE /\ unlockTime' = FALSE
            /\ timer' = FALSE /\ forgot' = FALSE
            /\ UNCHANGED <<encrypted, unlocked, silent>>
       ELSE UNCHANGED wallet
    /\ Goto(g, "idle")
    /\ UNCHANGED <<engine, env, job, raced>>

\* Right or wrong, the wallet is locked afterwards; neither the timer nor the
\* lock callback is touched.
ChangePassphrase(g) ==
    /\ pc[g] = "change" /\ CanLock
    /\ Goto(g, "idle")
    /\ IF encrypted
       THEN unlocked' = FALSE /\ stakingOnly' = FALSE /\ silent' = (silent \/ unlocked)
       ELSE UNCHANGED <<unlocked, stakingOnly, silent>>
    /\ UNCHANGED <<encrypted, unlockTime, timer, forgot, engine, env, job, raced>>

EncryptWallet(g) ==
    /\ pc[g] = "encrypt" /\ CanLock
    /\ Goto(g, "idle")
    /\ IF encrypted THEN UNCHANGED <<encrypted, unlocked, silent>>
       ELSE encrypted' = TRUE /\ unlocked' = FALSE /\ silent' = TRUE
    /\ UNCHANGED <<stakingOnly, unlockTime, timer, forgot, engine, env, job, raced>>

NotifyBlocks(g) ==
    /\ pc[g] = "notify" /\ CanLock
    /\ Goto(g, "idle")
    /\ UNCHANGED <<wallet, engine, env, job, raced>>

-----------------------------------------------------------------------------
(* StartStaking.                                                           *)

\* onUnlockCallback looks at the setting.
OnUnlock(g) ==
    /\ pc[g] = "onUnlock"
    /\ Goto(g, IF enabled THEN "cas" ELSE "idle")
    /\ UNCHANGED <<wallet, engine, env, job, raced>>

\* The settings' subscriber and Node.StartStaking look at the wallet.
BeginStaking(g) ==
    /\ pc[g] = "begin" /\ CanRLock
    /\ Goto(g, IF IsLocked THEN "idle" ELSE "cas")
    /\ UNCHANGED <<wallet, engine, env, job, raced>>

CompareAndSwap(g) ==
    /\ pc[g] = "cas"
    /\ active' = TRUE
    /\ Goto(g, IF active THEN "idle" ELSE "check")
    /\ UNCHANGED <<wallet, slot, worker, env, job, raced>>

CheckUnlocked(g) ==
    /\ pc[g] = "check" /\ CanRLock
    /\ Goto(g, IF IsLocked THEN "idle" ELSE "create")
    /\ active' = (active /\ ~IsLocked)
    /\ UNCHANGED <<wallet, slot, worker, env, job, raced>>

\* An object that nothing refers to any more is made anew.
Unused(k) ==
    /\ worker[k].at \in {"new", "done"} /\ slot # k
    /\ \A g \in Goroutines : job[g].worker # k

CreateWorker(g) ==
    /\ pc[g] = "create"
    /\ \E k \in Workers :
        /\ Unused(k)
        /\ slot' = k
        /\ worker' = [worker EXCEPT ![k] = NewWorker]
    /\ Goto(g, "run")
    /\ UNCHANGED <<wallet, active, env, job, raced>>

\* StakingWorker.Start on whatever stakingWorker is by now, without pos.mu.
RunWorker(g) ==
    /\ pc[g] = "run"
    /\ Goto(g, "idle")
    /\ IF slot = NoWorker
       THEN panicked' = TRUE /\ UNCHANGED engine
       ELSE /\ UNCHANGED <<panicked, slot>>
            /\ IF worker[slot].running
               THEN active' = FALSE /\ UNCHANGED worker
               ELSE /\ worker' = [worker EXCEPT ![slot] =
                                     [at |-> "loop", running |-> TRUE, closed |-> FALSE]]
                    /\ UNCHANGED active
    /\ UNCHANGED <<wallet, enabled, down, calls, job, raced>>

-----------------------------------------------------------------------------
(* StopStaking.                                                            *)

LoadActive(g) ==
    /\ pc[g] = "load"
    /\ IF active THEN Goto(g, "store") /\ UNCHANGED <<job, down>> ELSE Return(g)
    /\ UNCHANGED <<wallet, engine, enabled, panicked, calls, raced>>

StoreInactive(g) ==
    /\ pc[g] = "store"
    /\ active' = FALSE
    /\ Goto(g, "fetch")
    /\ UNCHANGED <<wallet, slot, worker, env, job, raced>>

FetchWorker(g) ==
    /\ pc[g] = "fetch"
    /\ job' = [job EXCEPT ![g].worker = slot]
    /\ Goto(g, IF slot = NoWorker THEN "clear" ELSE "stop")
    /\ UNCHANGED <<wallet, engine, env, raced>>

\* StakingWorker.Stop closes stopCh, for the second time if another call has
\* closed it and still waits.
StopWorker(g) ==
    LET k == job[g].worker
    IN  /\ pc[g] = "stop"
        /\ Goto(g, IF worker[k].running THEN "await" ELSE "clear")
        /\ panicked' = (worker[k].running /\ worker[k].closed)
        /\ worker' = [worker EXCEPT ![k].closed = @ \/ worker[k].running]
        /\ UNCHANGED <<wallet, active, slot, enabled, down, calls, job, raced>>

AwaitWorkerMutNoWait(g) ==
    /\ pc[g] = "await"
    /\ worker' = [worker EXCEPT ![job[g].worker].running = FALSE]
    /\ Goto(g, "clear")
    /\ UNCHANGED <<wallet, active, slot, env, job, raced>>

\* <-doneCh.
AwaitWorker(g) ==
    /\ pc[g] = "await"
    /\ worker[job[g].worker].at = "done"
    /\ worker' = [worker EXCEPT ![job[g].worker].running = FALSE]
    /\ Goto(g, "clear")
    /\ UNCHANGED <<wallet, active, slot, env, job, raced>>

ClearWorker(g) ==
    /\ pc[g] = "clear"
    /\ slot' = NoWorker
    /\ Return(g)
    /\ UNCHANGED <<wallet, active, worker, enabled, panicked, calls, raced>>

-----------------------------------------------------------------------------
(* The worker's goroutine.                                                 *)

At(k, from, to) ==
    /\ worker[k].at = from
    /\ worker' = [worker EXCEPT ![k].at = to]
    /\ UNCHANGED <<wallet, active, slot, env, pc, job, raced>>

\* tryStake: canStake reads the wallet's lock; a kernel is found.
FindKernel(k) == CanRLock /\ ~IsLocked /\ At(k, "loop", "found")

\* CreateCoinstakeTx and SignCoinstakeTx take the read lock, and IsLocked takes
\* it again before anything is signed.
TakeReadLock(k) == CanRLock /\ At(k, "found", "signing")
SignCoinstake(k) ==
    /\ CanRLock
    /\ \/ At(k, "signing", "loop")     \* the wallet is locked, or the block too early
       \/ ~IsLocked /\ At(k, "signing", "submit")

\* ProcessBlock ends in the wallet's NotifyBlocks.
SubmitBlock(k) == CanLock /\ At(k, "submit", "loop")

\* stopCh is closed, or the shutdown has cancelled the engine's context.
WorkerStops(k) == (worker[k].closed \/ down) /\ At(k, "loop", "done")

WorkerStep(k) ==
    ~panicked /\ \/ FindKernel(k) \/ TakeReadLock(k) \/ SignCoinstake(k)
                 \/ SubmitBlock(k) \/ WorkerStops(k)

Step(g) ==
    /\ ~panicked
    /\ \/ Unlock(g) \/ Lock(g) \/ RestoreToStakingOnly(g) \/ ChangePassphrase(g)
       \/ EncryptWallet(g) \/ NotifyBlocks(g)
       \/ OnUnlock(g) \/ BeginStaking(g) \/ CompareAndSwap(g) \/ CheckUnlocked(g)
       \/ CreateWorker(g) \/ RunWorker(g)
       \/ LoadActive(g) \/ StoreInactive(g) \/ FetchWorker(g) \/ StopWorker(g)
       \/ AwaitWorker(g) \/ ClearWorker(g)

Next ==
    \/ \E g \in Goroutines :
        \/ \E step \in WriterSteps : CallWallet(g, step)
        \/ \E value \in BOOLEAN : SetEnabled(g, value)
        \/ Shutdown(g)
        \/ AutoLockFires(g)
        \/ Step(g)
    \/ \E k \in Workers : WorkerStep(k)

Spec == Init /\ [][Next]_vars

-----------------------------------------------------------------------------
(* Properties.                                                             *)

Alive(k) == worker[k].at \notin {"new", "done"}

\* StartStaking and StopStaking keep stakingActive, stakingWorker and the worker
\* goroutines together as long as no two calls overlap: there is at most one
\* worker, it is the one StopStaking can reach, the flag says whether it is
\* there, nothing panics, and after the engine's Stop no worker is left that
\* could use the closed storage.
EngineConsistent ==
    ~raced =>
        /\ ~panicked
        /\ \A k \in Workers : Alive(k) => slot = k
        /\ ~Controlling => (active <=> \E k \in Workers : Alive(k))
        /\ down => \A k \in Workers : ~Alive(k)

\* When no call is in progress and none have overlapped, the node stakes exactly
\* if the setting and the wallet allow it, although the setting's subscriber
\* looks at the wallet and the wallet's callback at the setting, each after its
\* own change.  Only a wallet locked by ChangePassphrase or EncryptWallet, which
\* do not call back, leaves the engine active.
StakingFollowsSettings ==
    ~raced /\ ~Controlling /\ ~down =>
        /\ active => enabled
        /\ active /\ IsLocked => silent
        /\ enabled /\ ~IsLocked => active

\* A wallet that is unlocked for a limited time has a timer that will lock it
\* again, however the unlock was renewed, restored or the passphrase changed
\* meanwhile; only a renewal with a wrong passphrase leaves it without.
AutoLockPending ==
    unlocked /\ unlockTime /\ ~forgot =>
        timer \/ \E g \in Goroutines : pc[g] = "lock"

\* The worker holds the wallet's read lock and asks for it again behind a waiting
\* writer: neither goes on.
Stuck == Readers # {} /\ WriterWaits

\* What a goroutine in a call may have to wait for: the wallet's mutex, a fresh
\* object (which the heap always has) and doneCh.
Waits(g) ==
    \/ pc[g] \in WriterSteps /\ ~CanLock
    \/ pc[g] \in {"begin", "check"} /\ ~CanRLock
    \/ pc[g] = "create" /\ \A k \in Workers : ~Unused(k)
    \/ pc[g] = "await" /\ worker[job[g].worker].at # "done"

\* A worker may go on: it ends, reads the wallet or submits its block.
MayGo(k) ==
    \/ worker[k].at = "loop" /\ (worker[k].closed \/ down \/ (CanRLock /\ ~IsLocked))
    \/ worker[k].at \in {"found", "signing"} /\ CanRLock
    \/ worker[k].at = "submit" /\ CanLock

\* While a call is in progress some goroutine can go on, whoever waits for whom:
\* Lock's callback waits for the worker and the worker for the wallet's mutex.
\* The only way to end up all waiting is the worker's second read lock.
NoDeadlock ==
    (\E g \in Goroutines : pc[g] # "idle") =>
        \/ Stuck \/ panicked
        \/ \E g \in Goroutines : pc[g] # "idle" /\ ~Waits(g)
        \/ \E k \in Workers : MayGo(k)
=============================================================================
