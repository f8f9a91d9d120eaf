--------------------------- MODULE Staking_proofs ---------------------------
(***************************************************************************)
(* Staking, proved for every number of goroutines, workers and calls: the  *)
(* type invariant, the auto-lock of a wallet unlocked for a limited time,  *)
(* and the agreement of flag, pointer and worker.                          *)
(***************************************************************************)
EXTENDS Staking, FiniteSetTheorems, TLAPS

\* The worker that StopStaking would reach is there and nobody has stopped it.
Running ==
    /\ slot \in Workers /\ Alive(slot)
    /\ worker[slot].running /\ ~worker[slot].closed

\* Between two calls the flag says whether there is a worker.
Settled == IF active THEN Running ELSE slot = NoWorker

OnlySlot == \A k \in Workers : Alive(k) => slot = k

\* What the one call in progress has done so far.
Phase(g) ==
    /\ pc[g] \in {"onUnlock", "begin", "cas", "load"} => Settled
    /\ pc[g] \in {"check", "create"} => active /\ slot = NoWorker
    /\ pc[g] = "run" => active /\ slot \in Workers /\ worker[slot] = NewWorker
    /\ pc[g] = "store" => active /\ Running
    /\ pc[g] = "fetch" => ~active /\ Running
    /\ pc[g] = "stop" => ~active /\ Running /\ job[g].worker = slot
    /\ pc[g] = "await" => ~active /\ slot \in Workers /\ job[g].worker = slot
    /\ pc[g] = "clear" => ~active /\ \A k \in Workers : ~Alive(k)

\* The shutdown is a StopStaking all the way.
FinalStops == \A g \in Goroutines : job[g].final => pc[g] \in StopSteps

OneAtATime ==
    \A g, h \in Goroutines : pc[g] \in ControlSteps /\ pc[h] \in ControlSteps => g = h

Disciplined ==
    /\ ~panicked
    /\ OnlySlot
    /\ OneAtATime
    /\ ~Controlling => Settled
    /\ \A g \in Goroutines : Phase(g)
    /\ down => ~Controlling /\ ~active

EngineInv == FinalStops /\ (~raced => Disciplined)

\* Only an encrypted wallet is unlocked.
AutoLockInv == (unlocked => encrypted) /\ AutoLockPending

-----------------------------------------------------------------------------
(* Types.                                                                  *)

WalletTyped ==
    /\ encrypted \in BOOLEAN /\ unlocked \in BOOLEAN /\ stakingOnly \in BOOLEAN
    /\ unlockTime \in BOOLEAN /\ timer \in BOOLEAN
    /\ forgot \in BOOLEAN /\ silent \in BOOLEAN

LEMMA InitType == Init => TypeOK
<1> SUFFICES ASSUME Init PROVE TypeOK
  OBVIOUS
<1>1. pc \in [Goroutines -> Steps]
  BY DEF Init, Steps, ControlSteps, StartSteps
<1>2. job \in [Goroutines -> Jobs]
  BY DEF Init, Jobs, NoJob
<1>3. worker \in [Workers -> WorkerStates]
  BY DEF Init, WorkerStates, NewWorker
<1>4. calls \in 0 .. MaxCalls
  BY BoundsAssumption DEF Init
<1> QED BY <1>1, <1>2, <1>3, <1>4 DEF Init, TypeOK

LEMMA GotoType ==
  ASSUME TypeOK, NEW g \in Goroutines, NEW step \in Steps, Goto(g, step)
  PROVE  pc' \in [Goroutines -> Steps]
BY DEF TypeOK, Goto

LEMMA NewCallType ==
  ASSUME TypeOK, NEW g \in Goroutines, NewCall(g)
  PROVE  calls' \in 0 .. MaxCalls
BY BoundsAssumption DEF NewCall, TypeOK

LEMMA ReturnType ==
  ASSUME TypeOK, NEW g \in Goroutines, Return(g)
  PROVE  /\ pc' \in [Goroutines -> Steps]
         /\ job' \in [Goroutines -> Jobs]
         /\ down' \in BOOLEAN
<1>1. pc' \in [Goroutines -> Steps]
  BY DEF TypeOK, Return, Goto, Steps
<1>2. job' \in [Goroutines -> Jobs]
  BY DEF TypeOK, Return, Jobs, NoJob
<1>3. down' \in BOOLEAN
  BY DEF TypeOK, Return
<1> QED BY <1>1, <1>2, <1>3

LEMMA CallType ==
  ASSUME TypeOK, NEW g \in Goroutines,
         \/ \E step \in WriterSteps : CallWallet(g, step)
         \/ \E value \in BOOLEAN : SetEnabled(g, value)
         \/ Shutdown(g)
         \/ AutoLockFires(g)
  PROVE  TypeOK'
<1>1. ASSUME NEW step \in WriterSteps, CallWallet(g, step) PROVE TypeOK'
  <2>1. step \in Steps
    BY DEF Steps
  <2>2. pc' \in [Goroutines -> Steps]
    <3>1. Goto(g, step)
      BY <1>1 DEF CallWallet
    <3> QED BY <2>1, <3>1, GotoType
  <2>3. job' \in [Goroutines -> Jobs]
    <3>1. CASE step = "unlock"
      <4>1. PICK right, timed, only \in BOOLEAN :
               job' = [job EXCEPT ![g] = [NoJob EXCEPT !.right = right, !.timed = timed,
                                                       !.only = only]]
        BY <1>1, <3>1 DEF CallWallet
      <4>2. [NoJob EXCEPT !.right = right, !.timed = timed, !.only = only] \in Jobs
        BY DEF Jobs, NoJob
      <4> QED BY <4>1, <4>2 DEF TypeOK
    <3>2. CASE step # "unlock"
      BY <1>1, <3>2 DEF CallWallet, TypeOK
    <3> QED BY <3>1, <3>2
  <2>4. calls' \in 0 .. MaxCalls
    BY <1>1, NewCallType DEF CallWallet
  <2>5. UNCHANGED <<wallet, engine, enabled, down, panicked, raced>>
    BY <1>1 DEF CallWallet
  <2> QED BY <2>2, <2>3, <2>4, <2>5 DEF TypeOK, wallet, engine
<1>2. ASSUME NEW value \in BOOLEAN, SetEnabled(g, value) PROVE TypeOK'
  <2>1. pc' \in [Goroutines -> Steps]
    <3>1. "begin" \in Steps /\ "load" \in Steps
      BY DEF Steps, ControlSteps, StartSteps, StopSteps
    <3>2. Goto(g, IF value THEN "begin" ELSE "load")
      BY <1>2 DEF SetEnabled
    <3> QED BY <3>1, <3>2, GotoType
  <2>2. calls' \in 0 .. MaxCalls
    BY <1>2, NewCallType DEF SetEnabled
  <2> QED BY <1>2, <2>1, <2>2 DEF SetEnabled, BeginControl, TypeOK, wallet, engine
<1>3. CASE Shutdown(g)
  <2>1. pc' \in [Goroutines -> Steps]
    <3>1. "load" \in Steps
      BY DEF Steps, ControlSteps, StopSteps
    <3>2. Goto(g, "load")
      BY <1>3 DEF Shutdown
    <3> QED BY <3>1, <3>2, GotoType
  <2>2. calls' \in 0 .. MaxCalls
    BY <1>3, NewCallType DEF Shutdown
  <2>3. job' \in [Goroutines -> Jobs]
    BY <1>3 DEF Shutdown, TypeOK, Jobs, NoJob
  <2> QED BY <1>3, <2>1, <2>2, <2>3 DEF Shutdown, BeginControl, TypeOK, wallet, engine
<1>4. CASE AutoLockFires(g)
  <2>1. pc' \in [Goroutines -> Steps]
    <3>1. "lock" \in Steps
      BY DEF Steps, WriterSteps
    <3>2. Goto(g, "lock")
      BY <1>4 DEF AutoLockFires
    <3> QED BY <3>1, <3>2, GotoType
  <2> QED BY <1>4, <2>1 DEF AutoLockFires, TypeOK, wallet, engine, env
<1> QED BY <1>1, <1>2, <1>3, <1>4

LEMMA WalletType ==
  ASSUME TypeOK, NEW g \in Goroutines,
         \/ Unlock(g) \/ Lock(g) \/ RestoreToStakingOnly(g) \/ ChangePassphrase(g)
         \/ EncryptWallet(g) \/ NotifyBlocks(g)
  PROVE  TypeOK'
<1>1. CASE Unlock(g)
  <2>3. WalletTyped' /\ raced' \in BOOLEAN
    <3>1. job[g].timed \in BOOLEAN /\ job[g].only \in BOOLEAN
      BY DEF TypeOK, Jobs
    <3>2. WalletTyped'
      BY <1>1, <3>1 DEF Unlock, TypeOK, WalletTyped, wallet
    <3>3. raced' \in BOOLEAN
      BY <1>1 DEF Unlock, TypeOK, BeginControl
    <3> QED BY <3>2, <3>3
  <2>1. CASE Return(g)
    <3>1. /\ pc' \in [Goroutines -> Steps]
          /\ job' \in [Goroutines -> Jobs]
          /\ down' \in BOOLEAN
      BY <2>1, ReturnType
    <3> QED BY <1>1, <2>3, <3>1 DEF Unlock, TypeOK, WalletTyped, engine
  <2>2. CASE /\ Goto(g, "onUnlock")
             /\ job' = [job EXCEPT ![g] = NoJob]
             /\ down' = down
    <3>1. pc' \in [Goroutines -> Steps]
      BY <2>2 DEF TypeOK, Goto, Steps, ControlSteps, StartSteps
    <3>2. job' \in [Goroutines -> Jobs]
      BY <2>2 DEF TypeOK, Jobs, NoJob
    <3> QED BY <1>1, <2>2, <2>3, <3>1, <3>2 DEF Unlock, TypeOK, WalletTyped, engine
  <2> QED BY <1>1, <2>1, <2>2 DEF Unlock
<1>2. CASE Lock(g)
  <2>3. WalletTyped' /\ raced' \in BOOLEAN
    BY <1>2 DEF Lock, TypeOK, WalletTyped, wallet, BeginControl
  <2>1. CASE Return(g)
    <3>1. /\ pc' \in [Goroutines -> Steps]
          /\ job' \in [Goroutines -> Jobs]
          /\ down' \in BOOLEAN
      BY <2>1, ReturnType
    <3> QED BY <1>2, <2>3, <3>1 DEF Lock, TypeOK, WalletTyped, engine
  <2>2. CASE Goto(g, "load") /\ UNCHANGED <<job, down>>
    <3>1. pc' \in [Goroutines -> Steps]
      BY <2>2 DEF TypeOK, Goto, Steps, ControlSteps, StopSteps
    <3> QED BY <1>2, <2>2, <2>3, <3>1 DEF Lock, TypeOK, WalletTyped, engine
  <2> QED BY <1>2, <2>1, <2>2 DEF Lock
<1>3. "idle" \in Steps
  BY DEF Steps
<1>4. CASE RestoreToStakingOnly(g)
  <2>1. pc' \in [Goroutines -> Steps]
    BY <1>3, <1>4, GotoType DEF RestoreToStakingOnly
  <2>2. WalletTyped'
    BY <1>4 DEF RestoreToStakingOnly, TypeOK, WalletTyped, wallet
  <2>3. UNCHANGED <<engine, env, job, raced>>
    BY <1>4 DEF RestoreToStakingOnly
  <2> QED BY <2>1, <2>2, <2>3 DEF TypeOK, WalletTyped, engine, env
<1>5. CASE ChangePassphrase(g)
  <2>1. pc' \in [Goroutines -> Steps]
    BY <1>3, <1>5, GotoType DEF ChangePassphrase
  <2>2. WalletTyped'
    BY <1>5 DEF ChangePassphrase, TypeOK, WalletTyped, wallet
  <2>3. UNCHANGED <<engine, env, job, raced>>
    BY <1>5 DEF ChangePassphrase
  <2> QED BY <2>1, <2>2, <2>3 DEF TypeOK, WalletTyped, engine, env
<1>6. CASE EncryptWallet(g)
  <2>1. pc' \in [Goroutines -> Steps]
    BY <1>3, <1>6, GotoType DEF EncryptWallet
  <2>2. WalletTyped'
    BY <1>6 DEF EncryptWallet, TypeOK, WalletTyped, wallet
  <2>3. UNCHANGED <<engine, env, job, raced>>
    BY <1>6 DEF EncryptWallet
  <2> QED BY <2>1, <2>2, <2>3 DEF TypeOK, WalletTyped, engine, env
<1>7. CASE NotifyBlocks(g)
  <2>1. pc' \in [Goroutines -> Steps]
    BY <1>3, <1>7, GotoType DEF NotifyBlocks
  <2>2. WalletTyped'
    BY <1>7 DEF NotifyBlocks, TypeOK, WalletTyped, wallet
  <2>3. UNCHANGED <<engine, env, job, raced>>
    BY <1>7 DEF NotifyBlocks
  <2> QED BY <2>1, <2>2, <2>3 DEF TypeOK, WalletTyped, engine, env
<1> QED BY <1>1, <1>2, <1>4, <1>5, <1>6, <1>7

LEMMA StartType ==
  ASSUME TypeOK, NEW g \in Goroutines,
         \/ OnUnlock(g) \/ BeginStaking(g) \/ CompareAndSwap(g) \/ CheckUnlocked(g)
         \/ CreateWorker(g) \/ RunWorker(g)
  PROVE  TypeOK'
<1>1. pc' \in [Goroutines -> Steps]
  BY DEF OnUnlock, BeginStaking, CompareAndSwap, CheckUnlocked, CreateWorker, RunWorker,
         Goto, TypeOK, Steps, ControlSteps, StartSteps
<1>2. CASE OnUnlock(g)
  BY <1>1, <1>2 DEF OnUnlock, TypeOK, wallet, engine, env
<1>5. CASE BeginStaking(g)
  BY <1>1, <1>5 DEF BeginStaking, TypeOK, wallet, engine, env
<1>6. CASE CompareAndSwap(g)
  BY <1>1, <1>6 DEF CompareAndSwap, TypeOK, wallet, env
<1>7. CASE CheckUnlocked(g)
  BY <1>1, <1>7 DEF CheckUnlocked, TypeOK, wallet, env
<1>3. CASE CreateWorker(g)
  BY <1>1, <1>3 DEF CreateWorker, NewWorker, WorkerStates, TypeOK, wallet, env
<1>4. CASE RunWorker(g)
  <2>1. worker' \in [Workers -> WorkerStates]
    <3> DEFINE started == [at |-> "loop", running |-> TRUE, closed |-> FALSE]
    <3>1. started \in WorkerStates
      BY DEF WorkerStates
    <3>2. worker' = worker \/ worker' = [worker EXCEPT ![slot] = started]
      BY <1>4 DEF RunWorker, engine
    <3> QED BY <3>1, <3>2 DEF TypeOK
  <2>2. slot' = slot /\ active' \in BOOLEAN /\ panicked' \in BOOLEAN
    BY <1>4 DEF RunWorker, TypeOK, engine
  <2> QED BY <1>1, <1>4, <2>1, <2>2 DEF RunWorker, TypeOK, wallet
<1> QED BY <1>2, <1>3, <1>4, <1>5, <1>6, <1>7

LEMMA StopType ==
  ASSUME TypeOK, NEW g \in Goroutines,
         \/ LoadActive(g) \/ StoreInactive(g) \/ FetchWorker(g) \/ StopWorker(g)
         \/ AwaitWorker(g) \/ ClearWorker(g)
  PROVE  TypeOK'
<1>1. CASE LoadActive(g)
  <2>1. /\ pc' \in [Goroutines -> Steps]
        /\ job' \in [Goroutines -> Jobs]
        /\ down' \in BOOLEAN
    BY <1>1, ReturnType DEF LoadActive, Goto, TypeOK, Steps, ControlSteps, StopSteps
  <2> QED BY <1>1, <2>1 DEF LoadActive, TypeOK, wallet, engine
<1>2. CASE StoreInactive(g)
  <2>1. pc' \in [Goroutines -> Steps]
    <3>1. "fetch" \in Steps
      BY DEF Steps, ControlSteps, StopSteps
    <3>2. Goto(g, "fetch")
      BY <1>2 DEF StoreInactive
    <3> QED BY <3>1, <3>2, GotoType
  <2> QED BY <1>2, <2>1 DEF StoreInactive, TypeOK, wallet, env
<1>3. CASE FetchWorker(g)
  <2>1. pc' \in [Goroutines -> Steps]
    <3>1. "clear" \in Steps /\ "stop" \in Steps
      BY DEF Steps, ControlSteps, StopSteps
    <3>2. Goto(g, IF slot = NoWorker THEN "clear" ELSE "stop")
      BY <1>3 DEF FetchWorker
    <3> QED BY <3>1, <3>2, GotoType
  <2>2. job' \in [Goroutines -> Jobs]
    BY <1>3 DEF FetchWorker, TypeOK, Jobs
  <2> QED BY <1>3, <2>1, <2>2 DEF FetchWorker, TypeOK, wallet, engine, env
<1>4. CASE StopWorker(g)
  <2>1. pc' \in [Goroutines -> Steps]
    <3>1. "await" \in Steps /\ "clear" \in Steps
      BY DEF Steps, ControlSteps, StopSteps
    <3>2. Goto(g, IF worker[job[g].worker].running THEN "await" ELSE "clear")
      BY <1>4 DEF StopWorker
    <3> QED BY <3>1, <3>2, GotoType
  <2>2. worker' \in [Workers -> WorkerStates]
    <3> DEFINE k == job[g].worker
    <3>1. worker' = [worker EXCEPT ![k].closed = @ \/ worker[k].running]
      BY <1>4 DEF StopWorker
    <3> HIDE DEF k
    <3> QED BY <3>1 DEF TypeOK, WorkerStates
  <2> QED BY <1>4, <2>1, <2>2 DEF StopWorker, TypeOK, wallet
<1>5. CASE AwaitWorker(g)
  <2>1. pc' \in [Goroutines -> Steps]
    <3>1. "clear" \in Steps
      BY DEF Steps, ControlSteps, StopSteps
    <3>2. Goto(g, "clear")
      BY <1>5 DEF AwaitWorker
    <3> QED BY <3>1, <3>2, GotoType
  <2>2. worker' \in [Workers -> WorkerStates]
    BY <1>5 DEF AwaitWorker, TypeOK, WorkerStates
  <2> QED BY <1>5, <2>1, <2>2 DEF AwaitWorker, TypeOK, wallet, env
<1>6. CASE ClearWorker(g)
  <2>1. /\ pc' \in [Goroutines -> Steps]
        /\ job' \in [Goroutines -> Jobs]
        /\ down' \in BOOLEAN
    BY <1>6, ReturnType DEF ClearWorker
  <2> QED BY <1>6, <2>1 DEF ClearWorker, TypeOK, wallet
<1> QED BY <1>1, <1>2, <1>3, <1>4, <1>5, <1>6

\* Every step of a worker is a step of its program counter.
LEMMA WorkerMoves ==
  ASSUME TypeOK, NEW k \in Workers, WorkerStep(k)
  PROVE  /\ worker' \in [Workers -> WorkerStates]
         /\ \A j \in Workers :
               /\ worker'[j].running = worker[j].running
               /\ worker'[j].closed = worker[j].closed
               /\ j # k => worker'[j] = worker[j]
         /\ Alive(k)
         /\ UNCHANGED <<wallet, active, slot, env, pc, job, raced>>
BY DEF WorkerStep, FindKernel, TakeReadLock, SignCoinstake, SubmitBlock, WorkerStops, At,
       Alive, TypeOK, WorkerStates

LEMMA NextType == TypeOK /\ [Next]_vars => TypeOK'
<1> SUFFICES ASSUME TypeOK, [Next]_vars PROVE TypeOK'
  OBVIOUS
<1>1. ASSUME NEW k \in Workers, WorkerStep(k) PROVE TypeOK'
  <2>1. /\ worker' \in [Workers -> WorkerStates]
        /\ UNCHANGED <<wallet, active, slot, env, pc, job, raced>>
    BY <1>1, WorkerMoves
  <2> QED BY <2>1 DEF TypeOK, wallet, env
<1>2. CASE UNCHANGED vars
  BY <1>2 DEF vars, TypeOK, wallet, engine, env
<1> QED BY <1>1, <1>2, CallType, WalletType, StartType, StopType DEF Next, Step

\* Every reachable state of wallet, engine and goroutines is well formed.
THEOREM StakingTypeCorrect == Spec => []TypeOK
BY InitType, NextType, PTL DEF Spec

-----------------------------------------------------------------------------
(* The auto-lock.  Lock does nothing to a wallet that is not encrypted, so *)
(* the invariant adds that such a wallet is never unlocked.                *)

LEMMA InitAutoLock == Init => AutoLockInv
BY DEF Init, AutoLockInv, AutoLockPending

LEMMA NextAutoLock == TypeOK /\ AutoLockInv /\ [Next]_vars => AutoLockInv'
<1> SUFFICES ASSUME TypeOK, AutoLockInv, [Next]_vars PROVE AutoLockInv'
  OBVIOUS
<1> USE DEF AutoLockInv, AutoLockPending
<1> DEFINE Kept ==
      /\ UNCHANGED <<encrypted, unlocked, unlockTime, forgot, timer>>
      /\ \A h \in Goroutines : pc[h] = "lock" => pc'[h] = "lock"
<1>1. ASSUME Kept PROVE AutoLockInv'
  BY <1>1
<1>2. CASE UNCHANGED vars
  BY <1>2 DEF vars, wallet
<1>3. ASSUME NEW k \in Workers, WorkerStep(k) PROVE AutoLockInv'
  BY <1>3, WorkerMoves DEF wallet
<1>4. ASSUME NEW g \in Goroutines,
             \/ \E step \in WriterSteps : CallWallet(g, step)
             \/ \E value \in BOOLEAN : SetEnabled(g, value)
             \/ Shutdown(g)
      PROVE  AutoLockInv'
  <2>1. UNCHANGED <<encrypted, unlocked, unlockTime, forgot, timer>>
    BY <1>4 DEF CallWallet, SetEnabled, Shutdown, wallet
  <2>2. \A h \in Goroutines : pc[h] = "lock" => pc'[h] = "lock"
    BY <1>4 DEF CallWallet, SetEnabled, Shutdown, NewCall, Goto, TypeOK
  <2> QED BY <1>1, <2>1, <2>2
<1>5. ASSUME NEW g \in Goroutines, AutoLockFires(g) PROVE AutoLockInv'
  <2>1. pc'[g] = "lock"
    BY <1>5 DEF AutoLockFires, Goto, TypeOK
  <2> QED BY <1>5, <2>1 DEF AutoLockFires
<1>6. ASSUME NEW g \in Goroutines, Unlock(g) PROVE AutoLockInv'
  <2>1. \A h \in Goroutines : pc[h] = "lock" => pc'[h] = "lock"
    BY <1>6 DEF Unlock, Return, Goto, TypeOK
  <2>2. CASE ~encrypted \/ (unlocked /\ stakingOnly /\ job[g].only)
    BY <1>6, <2>1, <2>2 DEF Unlock, wallet
  <2>3. CASE encrypted /\ ~(unlocked /\ stakingOnly /\ job[g].only) /\ ~job[g].right
    <3>1. UNCHANGED <<encrypted, unlocked, unlockTime>>
      BY <1>6, <2>3 DEF Unlock
    <3>2. forgot' = (forgot \/ (unlocked /\ unlockTime))
      BY <1>6, <2>3 DEF Unlock
    <3> QED BY <3>1, <3>2
  <2>4. CASE encrypted /\ ~(unlocked /\ stakingOnly /\ job[g].only) /\ job[g].right
    <3>1. encrypted' = encrypted /\ unlockTime' = job[g].timed /\ timer' = job[g].timed
      BY <1>6, <2>4 DEF Unlock
    <3> QED BY <2>4, <3>1
  <2> QED BY <2>2, <2>3, <2>4
<1>7. ASSUME NEW g \in Goroutines, Lock(g) PROVE AutoLockInv'
  <2>1. CASE encrypted /\ unlocked
    BY <1>7, <2>1 DEF Lock
  <2>2. CASE ~(encrypted /\ unlocked)
    BY <1>7, <2>2 DEF Lock, wallet
  <2> QED BY <2>1, <2>2
<1>8. ASSUME NEW g \in Goroutines,
             RestoreToStakingOnly(g) \/ ChangePassphrase(g) \/ EncryptWallet(g)
      PROVE  AutoLockInv'
  <2>1. \A h \in Goroutines : pc[h] = "lock" => pc'[h] = "lock"
    BY <1>8 DEF RestoreToStakingOnly, ChangePassphrase, EncryptWallet, Goto, TypeOK
  <2> QED BY <1>8, <2>1 DEF RestoreToStakingOnly, ChangePassphrase, EncryptWallet, wallet
<1>9. ASSUME NEW g \in Goroutines,
             \/ NotifyBlocks(g)
             \/ OnUnlock(g) \/ BeginStaking(g) \/ CompareAndSwap(g) \/ CheckUnlocked(g)
             \/ CreateWorker(g) \/ RunWorker(g)
             \/ LoadActive(g) \/ StoreInactive(g) \/ FetchWorker(g) \/ StopWorker(g)
             \/ AwaitWorker(g) \/ ClearWorker(g)
      PROVE  AutoLockInv'
  <2>1. UNCHANGED wallet
    BY <1>9 DEF NotifyBlocks, OnUnlock, BeginStaking, CompareAndSwap, CheckUnlocked, CreateWorker,
           RunWorker, LoadActive, StoreInactive, FetchWorker, StopWorker, AwaitWorker, ClearWorker
  <2>2. pc[g] # "lock" /\ \E step \in Steps : Goto(g, step)
    BY <1>9 DEF NotifyBlocks, OnUnlock, BeginStaking, CompareAndSwap, CheckUnlocked, CreateWorker,
           RunWorker, LoadActive, StoreInactive, FetchWorker, StopWorker, AwaitWorker, ClearWorker,
           Return, Steps, ControlSteps, StartSteps, StopSteps
  <2>3. \A h \in Goroutines : pc[h] = "lock" => pc'[h] = "lock"
    BY <2>2 DEF Goto, TypeOK
  <2> QED BY <1>1, <2>1, <2>3 DEF wallet
<1> QED BY <1>2, <1>3, <1>4, <1>5, <1>6, <1>7, <1>8, <1>9 DEF Next, Step

\* A wallet that Unlock has opened for a limited time is locked again: its timer
\* runs or has fired, whatever other goroutines do to the wallet meanwhile and
\* unless a wrong passphrase has cancelled it.
THEOREM TimedUnlockEnds == Spec => []AutoLockPending
<1>1. Init => TypeOK /\ AutoLockInv
  BY InitType, InitAutoLock
<1>2. TypeOK /\ AutoLockInv /\ [Next]_vars => (TypeOK /\ AutoLockInv)'
  BY NextType, NextAutoLock
<1>3. AutoLockInv => AutoLockPending
  BY DEF AutoLockInv
<1> QED BY <1>1, <1>2, <1>3, PTL DEF Spec

-----------------------------------------------------------------------------
(* Flag, pointer and worker.  While no two calls have overlapped, what     *)
(* holds of the three depends on how far the one call in progress is       *)
(* (Phase); a call in progress also keeps the shutdown from being over.    *)

LEMMA InitEngine == Init => EngineInv
<1> SUFFICES ASSUME Init PROVE EngineInv
  OBVIOUS
<1>1. \A k \in Workers : ~Alive(k)
  BY DEF Init, Alive, NewWorker
<1>2. ~active /\ slot = NoWorker /\ ~down /\ ~panicked
  BY DEF Init
<1>3. FinalStops
  BY DEF Init, FinalStops, NoJob
<1>4. PICK g \in Goroutines :
        pc = [h \in Goroutines |-> IF h = g /\ enabled THEN "begin" ELSE "idle"]
  BY DEF Init
<1>5. \A h \in Goroutines : pc[h] = "idle" \/ (h = g /\ pc[h] = "begin")
  BY <1>4
<1>6. OneAtATime
  BY <1>5 DEF OneAtATime, ControlSteps, StartSteps, StopSteps
<1>7. \A h \in Goroutines : Phase(h)
  BY <1>2, <1>5 DEF Phase, Settled
<1> QED BY <1>1, <1>2, <1>3, <1>6, <1>7 DEF EngineInv, Disciplined, OnlySlot, Settled

\* A step that touches neither the engine nor a call in progress.
LEMMA Frame ==
  ASSUME Disciplined, UNCHANGED <<engine, down, panicked>>,
         \A h \in Goroutines :
            pc[h] \in ControlSteps \/ pc'[h] \in ControlSteps =>
                pc'[h] = pc[h] /\ job'[h] = job[h]
  PROVE  Disciplined'
<1>1. \A k \in Workers : Alive(k)' <=> Alive(k)
  BY DEF Alive, engine
<1>2. Settled' <=> Settled
  BY DEF Settled, Running, Alive, engine
<1>3. Controlling' <=> Controlling
  BY DEF Controlling
<1>4. OneAtATime'
  BY DEF Disciplined, OneAtATime
<1>5. ASSUME NEW h \in Goroutines PROVE Phase(h)'
  <2>1. CASE pc'[h] \in ControlSteps
    <3>1. Phase(h) /\ pc'[h] = pc[h] /\ job'[h] = job[h]
      BY <2>1 DEF Disciplined
    <3>2. Running' <=> Running
      BY DEF Running, Alive, engine
    <3> QED BY <1>1, <1>2, <3>1, <3>2 DEF Phase, engine
  <2>2. CASE pc'[h] \notin ControlSteps
    BY <2>2 DEF Phase, ControlSteps, StartSteps, StopSteps
  <2> QED BY <2>1, <2>2
<1> QED BY <1>1, <1>2, <1>3, <1>4, <1>5 DEF Disciplined, OnlySlot, engine

\* A call begins where none is in progress.
LEMMA Enter ==
  ASSUME TypeOK, Disciplined, ~Controlling, ~down, UNCHANGED <<engine, down, panicked>>,
         NEW g \in Goroutines, NEW step \in {"onUnlock", "begin", "load"}, Goto(g, step)
  PROVE  Disciplined'
<1>1. pc'[g] = step /\ \A h \in Goroutines : h # g => pc'[h] = pc[h] /\ pc[h] \notin ControlSteps
  BY DEF TypeOK, Goto, Controlling
<1>2. Settled'
  BY DEF Disciplined, Settled, Running, Alive, engine
<1>3. OnlySlot'
  BY DEF Disciplined, OnlySlot, Alive, engine
<1>4. OneAtATime'
  BY <1>1 DEF OneAtATime
<1>5. ASSUME NEW h \in Goroutines PROVE Phase(h)'
  BY <1>1, <1>2 DEF Phase, ControlSteps, StartSteps, StopSteps
<1>6. ~panicked' /\ ~down'
  BY DEF Disciplined
<1>7. Controlling'
  BY <1>1 DEF Controlling, ControlSteps, StartSteps, StopSteps
<1> QED BY <1>2, <1>3, <1>4, <1>5, <1>6, <1>7 DEF Disciplined

\* The call in progress makes a step.
LEMMA Advance ==
  ASSUME TypeOK, Disciplined, NEW g \in Goroutines, pc[g] \in ControlSteps,
         NEW step, Goto(g, step),
         ~panicked', OnlySlot',
         step \in ControlSteps => Phase(g)' /\ ~down',
         step \notin ControlSteps => Settled' /\ (down' => ~active')
  PROVE  Disciplined'
<1>1. pc'[g] = step /\ \A h \in Goroutines : h # g => pc'[h] = pc[h] /\ pc[h] \notin ControlSteps
  BY DEF TypeOK, Goto, Disciplined, OneAtATime
<1>2. OneAtATime'
  BY <1>1 DEF OneAtATime
<1>3. Controlling' <=> step \in ControlSteps
  BY <1>1 DEF Controlling
<1>4. ASSUME NEW h \in Goroutines PROVE Phase(h)'
  <2>1. CASE h = g /\ step \in ControlSteps
    BY <2>1
  <2>2. CASE ~(h = g /\ step \in ControlSteps)
    <3>1. pc'[h] \notin ControlSteps
      BY <1>1, <2>2
    <3> QED BY <3>1 DEF Phase, ControlSteps, StartSteps, StopSteps
  <2> QED BY <2>1, <2>2
<1> QED BY <1>2, <1>3, <1>4 DEF Disciplined

\* Steps before, or after, a call that starts or stops staking.
LEMMA OutsideKeeps ==
  ASSUME TypeOK, EngineInv, NEW g \in Goroutines,
         \/ \E step \in WriterSteps : CallWallet(g, step)
         \/ AutoLockFires(g) \/ RestoreToStakingOnly(g) \/ ChangePassphrase(g)
         \/ EncryptWallet(g) \/ NotifyBlocks(g)
  PROVE  EngineInv'
<1>1. UNCHANGED <<engine, down, panicked, raced>>
  BY DEF CallWallet, AutoLockFires, RestoreToStakingOnly, ChangePassphrase, EncryptWallet,
         NotifyBlocks, env
<1>2. PICK step \in WriterSteps \cup {"idle"} : Goto(g, step)
  BY DEF CallWallet, AutoLockFires, RestoreToStakingOnly, ChangePassphrase, EncryptWallet,
         NotifyBlocks, WriterSteps
<1>3. pc[g] \in WriterSteps \cup {"idle"}
  BY DEF CallWallet, NewCall, AutoLockFires, RestoreToStakingOnly, ChangePassphrase,
         EncryptWallet, NotifyBlocks, WriterSteps
<1>4. \A h \in Goroutines : h # g => pc'[h] = pc[h] /\ job'[h] = job[h]
  BY <1>2 DEF TypeOK, Goto, CallWallet, AutoLockFires, RestoreToStakingOnly, ChangePassphrase,
         EncryptWallet, NotifyBlocks
<1>5. pc[g] \notin ControlSteps /\ pc'[g] \notin ControlSteps
  BY <1>2, <1>3 DEF TypeOK, Goto, WriterSteps, ControlSteps, StartSteps, StopSteps
<1>6. ~job[g].final
  BY <1>5 DEF EngineInv, FinalStops, ControlSteps
<1>7. ~job'[g].final
  <2>1. job' = job \/ \E right, timed, only \in BOOLEAN :
          job' = [job EXCEPT ![g] = [NoJob EXCEPT !.right = right, !.timed = timed, !.only = only]]
    BY DEF CallWallet, AutoLockFires, RestoreToStakingOnly, ChangePassphrase, EncryptWallet,
           NotifyBlocks
  <2> QED BY <1>6, <2>1 DEF TypeOK, NoJob
<1>8. FinalStops'
  BY <1>4, <1>7 DEF EngineInv, FinalStops
<1>9. ASSUME ~raced PROVE Disciplined'
  BY <1>1, <1>4, <1>5, <1>9, Frame DEF EngineInv
<1> QED BY <1>1, <1>8, <1>9 DEF EngineInv

\* A call outside StopStaking returns: it is not the shutdown.
LEMMA ReturnsEarly ==
  ASSUME TypeOK, EngineInv, NEW g \in Goroutines, pc[g] \in WriterSteps, Return(g),
         UNCHANGED <<engine, panicked, raced>>
  PROVE  EngineInv'
<1>1. pc[g] \notin ControlSteps /\ pc'[g] \notin ControlSteps
  BY DEF TypeOK, Return, Goto, WriterSteps, ControlSteps, StartSteps, StopSteps
<1>2. \A h \in Goroutines : h # g => pc'[h] = pc[h] /\ job'[h] = job[h]
  BY DEF TypeOK, Return, Goto
<1>3. ~job[g].final /\ ~job'[g].final
  BY <1>1 DEF TypeOK, EngineInv, FinalStops, ControlSteps, Return, NoJob
<1>4. down' = down
  BY <1>3 DEF Return, TypeOK
<1>5. FinalStops'
  BY <1>2, <1>3 DEF EngineInv, FinalStops
<1>6. ASSUME ~raced PROVE Disciplined'
  BY <1>1, <1>2, <1>4, <1>6, Frame DEF EngineInv
<1> QED BY <1>5, <1>6 DEF EngineInv

\* Steps with which a call that starts or stops staking begins.
LEMMA EnterKeeps ==
  ASSUME TypeOK, EngineInv, NEW g \in Goroutines,
         NEW step \in {"onUnlock", "begin", "load"}, Goto(g, step), BeginControl,
         pc[g] \notin StopSteps, UNCHANGED <<engine, down, panicked>>,
         \/ job' = job
         \/ job' = [job EXCEPT ![g] = NoJob]
         \/ step = "load" /\ job' = [job EXCEPT ![g] = [NoJob EXCEPT !.final = TRUE]]
  PROVE  EngineInv'
<1>1. pc'[g] = step /\ \A h \in Goroutines : h # g => pc'[h] = pc[h] /\ job'[h] = job[h]
  BY DEF TypeOK, Goto
<1>2. job'[g].final => step \in StopSteps
  <2>1. ~job[g].final
    BY DEF EngineInv, FinalStops
  <2> QED BY <2>1 DEF TypeOK, NoJob, StopSteps
<1>3. FinalStops'
  BY <1>1, <1>2 DEF EngineInv, FinalStops
<1>4. ASSUME ~raced' PROVE Disciplined'
  <2>1. ~raced /\ ~Controlling /\ ~down
    BY <1>4 DEF BeginControl
  <2> QED BY <2>1, Enter DEF EngineInv
<1> QED BY <1>3, <1>4 DEF EngineInv

LEMMA BeginKeeps ==
  ASSUME TypeOK, EngineInv, NEW g \in Goroutines,
         \/ \E value \in BOOLEAN : SetEnabled(g, value)
         \/ Shutdown(g) \/ Unlock(g) \/ Lock(g)
  PROVE  EngineInv'
<1>1. ASSUME NEW value \in BOOLEAN, SetEnabled(g, value) PROVE EngineInv'
  <2>1. pc[g] \notin StopSteps
    BY <1>1 DEF SetEnabled, NewCall, StopSteps
  <2>2. CASE value
    BY <1>1, <2>1, <2>2, EnterKeeps DEF SetEnabled
  <2>3. CASE ~value
    BY <1>1, <2>1, <2>3, EnterKeeps DEF SetEnabled
  <2> QED BY <2>2, <2>3
<1>2. CASE Shutdown(g)
  <2>1. pc[g] \notin StopSteps
    BY <1>2 DEF Shutdown, NewCall, StopSteps
  <2> QED BY <1>2, <2>1, EnterKeeps DEF Shutdown
<1>3. CASE Unlock(g)
  <2>1. pc[g] \in WriterSteps /\ pc[g] \notin StopSteps
    BY <1>3 DEF Unlock, WriterSteps, StopSteps
  <2>2. UNCHANGED <<engine, panicked>>
    BY <1>3 DEF Unlock
  <2>3. \/ Return(g) /\ raced' = raced
        \/ /\ Goto(g, "onUnlock") /\ BeginControl /\ down' = down
           /\ job' = [job EXCEPT ![g] = NoJob]
    BY <1>3 DEF Unlock
  <2> QED BY <2>1, <2>2, <2>3, ReturnsEarly, EnterKeeps
<1>4. CASE Lock(g)
  <2>1. pc[g] \in WriterSteps /\ pc[g] \notin StopSteps
    BY <1>4 DEF Lock, WriterSteps, StopSteps
  <2>2. UNCHANGED <<engine, panicked>>
    BY <1>4 DEF Lock
  <2>3. \/ Return(g) /\ raced' = raced
        \/ Goto(g, "load") /\ BeginControl /\ UNCHANGED <<job, down>>
    BY <1>4 DEF Lock
  <2> QED BY <2>1, <2>2, <2>3, ReturnsEarly, EnterKeeps
<1> QED BY <1>1, <1>2, <1>3, <1>4

\* A step inside StartStaking is not a step of the shutdown.
LEMMA StartFinal ==
  ASSUME TypeOK, EngineInv, NEW g \in Goroutines, pc[g] \in StartSteps, NEW step, Goto(g, step),
         job' = job
  PROVE  FinalStops'
<1>1. ~job[g].final
  BY DEF EngineInv, FinalStops, StartSteps, StopSteps
<1> QED BY <1>1 DEF EngineInv, FinalStops, TypeOK, Goto

LEMMA StartKeeps ==
  ASSUME TypeOK, EngineInv, NEW g \in Goroutines,
         \/ OnUnlock(g) \/ BeginStaking(g) \/ CompareAndSwap(g) \/ CheckUnlocked(g)
         \/ CreateWorker(g) \/ RunWorker(g)
  PROVE  EngineInv'
<1>1. pc[g] \in StartSteps /\ pc[g] \in ControlSteps
  BY DEF OnUnlock, BeginStaking, CompareAndSwap, CheckUnlocked, CreateWorker, RunWorker,
         ControlSteps, StartSteps
<1>2. PICK step : Goto(g, step)
  BY DEF OnUnlock, BeginStaking, CompareAndSwap, CheckUnlocked, CreateWorker, RunWorker
<1>3. UNCHANGED <<job, raced, down>>
  BY DEF OnUnlock, BeginStaking, CompareAndSwap, CheckUnlocked, CreateWorker, RunWorker, env
<1>4. FinalStops'
  BY <1>1, <1>2, <1>3, StartFinal
<1>5. SUFFICES ASSUME ~raced PROVE Disciplined'
  BY <1>3, <1>4 DEF EngineInv
<1>6. Disciplined
  BY <1>5 DEF EngineInv
<1>7. ~down /\ ~down'
  BY <1>1, <1>3, <1>6 DEF Disciplined, Controlling
<1>8. Phase(g) /\ OnlySlot /\ ~panicked
  BY <1>6 DEF Disciplined
<1>9. CASE OnUnlock(g) \/ BeginStaking(g)
  <2>1. UNCHANGED <<engine, panicked>> /\ Settled
    BY <1>8, <1>9 DEF OnUnlock, BeginStaking, Phase, env
  <2>2. Settled' /\ OnlySlot'
    BY <1>8, <2>1 DEF Settled, OnlySlot, Running, Alive, engine
  <2>3. PICK next \in {"cas", "idle"} : Goto(g, next)
    BY <1>9 DEF OnUnlock, BeginStaking
  <2>4. pc'[g] = next
    BY <2>3 DEF TypeOK, Goto
  <2>5. Phase(g)'
    BY <2>2, <2>4 DEF Phase
  <2> QED BY <1>1, <1>6, <1>7, <1>8, <2>1, <2>2, <2>3, <2>5, Advance
<1>10. CASE CompareAndSwap(g)
  <2>1. UNCHANGED <<slot, worker, panicked>> /\ active' /\ Settled
    BY <1>8, <1>10 DEF CompareAndSwap, Phase, env
  <2>2. OnlySlot'
    BY <1>8, <2>1 DEF OnlySlot, Alive
  <2>3. CASE active
    <3>1. Goto(g, "idle")
      BY <1>10, <2>3 DEF CompareAndSwap
    <3>2. Settled'
      BY <2>1, <2>3 DEF Settled, Running, Alive
    <3>3. "idle" \notin ControlSteps
      BY DEF ControlSteps, StartSteps, StopSteps
    <3> QED BY <1>1, <1>6, <1>7, <1>8, <2>1, <2>2, <3>1, <3>2, <3>3, Advance
  <2>4. CASE ~active
    <3>1. Goto(g, "check") /\ pc'[g] = "check"
      BY <1>10, <2>4 DEF CompareAndSwap, Goto, TypeOK
    <3>2. slot' = NoWorker
      BY <2>1, <2>4 DEF Settled
    <3>3. Phase(g)'
      BY <2>1, <3>1, <3>2 DEF Phase
    <3>4. "check" \in ControlSteps
      BY DEF ControlSteps, StartSteps
    <3> QED BY <1>1, <1>6, <1>7, <1>8, <2>1, <2>2, <3>1, <3>3, <3>4, Advance
  <2> QED BY <2>3, <2>4
<1>11. CASE CheckUnlocked(g)
  <2>1. UNCHANGED <<slot, worker, panicked>> /\ active /\ slot = NoWorker
    BY <1>8, <1>11 DEF CheckUnlocked, Phase, env
  <2>2. OnlySlot'
    BY <1>8, <2>1 DEF OnlySlot, Alive
  <2>3. CASE IsLocked
    <3>1. Goto(g, "idle") /\ ~active'
      BY <1>11, <2>3 DEF CheckUnlocked
    <3>2. Settled'
      BY <2>1, <3>1 DEF Settled
    <3>3. "idle" \notin ControlSteps
      BY DEF ControlSteps, StartSteps, StopSteps
    <3> QED BY <1>1, <1>6, <1>7, <1>8, <2>1, <2>2, <3>1, <3>2, <3>3, Advance
  <2>4. CASE ~IsLocked
    <3>1. Goto(g, "create") /\ pc'[g] = "create" /\ active'
      BY <1>11, <2>1, <2>4 DEF CheckUnlocked, Goto, TypeOK
    <3>2. Phase(g)'
      BY <2>1, <3>1 DEF Phase
    <3>3. "create" \in ControlSteps
      BY DEF ControlSteps, StartSteps
    <3> QED BY <1>1, <1>6, <1>7, <1>8, <2>1, <2>2, <3>1, <3>2, <3>3, Advance
  <2> QED BY <2>3, <2>4
<1>12. CASE CreateWorker(g)
  <2>1. UNCHANGED <<active, panicked>> /\ active /\ slot = NoWorker
    BY <1>8, <1>12 DEF CreateWorker, Phase, env
  <2>2. PICK k \in Workers : slot' = k /\ worker' = [worker EXCEPT ![k] = NewWorker]
    BY <1>12 DEF CreateWorker
  <2>3. \A j \in Workers : ~Alive(j)
    BY <1>8, <2>1, NilAssumption DEF OnlySlot
  <2>4. OnlySlot'
    BY <2>2, <2>3 DEF OnlySlot, Alive, NewWorker, TypeOK
  <2>5. Goto(g, "run") /\ pc'[g] = "run"
    BY <1>12 DEF CreateWorker, Goto, TypeOK
  <2>6. Phase(g)'
    BY <2>1, <2>2, <2>5 DEF Phase, TypeOK
  <2>7. "run" \in ControlSteps
    BY DEF ControlSteps, StartSteps
  <2> QED BY <1>1, <1>6, <1>7, <1>8, <2>1, <2>4, <2>5, <2>6, <2>7, Advance
<1>13. CASE RunWorker(g)
  <2>1. active /\ slot \in Workers /\ worker[slot] = NewWorker
    BY <1>8, <1>13 DEF RunWorker, Phase
  <2>2. /\ UNCHANGED <<panicked, slot, active>>
        /\ worker' = [worker EXCEPT ![slot] = [at |-> "loop", running |-> TRUE, closed |-> FALSE]]
    <3>1. slot # NoWorker /\ ~worker[slot].running
      BY <2>1, NilAssumption DEF NewWorker
    <3> QED BY <1>13, <3>1 DEF RunWorker
  <2>3. OnlySlot'
    BY <1>8, <2>1, <2>2 DEF OnlySlot, Alive, TypeOK
  <2>4. Settled'
    BY <2>1, <2>2 DEF Settled, Running, Alive, TypeOK
  <2>5. Goto(g, "idle")
    BY <1>13 DEF RunWorker
  <2>6. "idle" \notin ControlSteps
    BY DEF ControlSteps, StartSteps, StopSteps
  <2> QED BY <1>1, <1>6, <1>7, <1>8, <2>2, <2>3, <2>4, <2>5, <2>6, Advance
<1> QED BY <1>9, <1>10, <1>11, <1>12, <1>13

LEMMA StopKeeps ==
  ASSUME TypeOK, EngineInv, NEW g \in Goroutines,
         \/ LoadActive(g) \/ StoreInactive(g) \/ FetchWorker(g) \/ StopWorker(g)
         \/ AwaitWorker(g) \/ ClearWorker(g)
  PROVE  EngineInv'
<1>1. pc[g] \in StopSteps /\ pc[g] \in ControlSteps /\ raced' = raced
  BY DEF LoadActive, StoreInactive, FetchWorker, StopWorker, AwaitWorker, ClearWorker,
         ControlSteps, StopSteps
<1>2. \/ Return(g)
      \/ /\ \E step \in StopSteps : Goto(g, step)
         /\ \A h \in Goroutines : job'[h].final = job[h].final
         /\ down' = down
  <2>1. CASE LoadActive(g) \/ ClearWorker(g)
    BY <2>1 DEF LoadActive, ClearWorker, StopSteps
  <2>2. CASE StoreInactive(g)
    BY <2>2 DEF StoreInactive, StopSteps, env
  <2>3. CASE FetchWorker(g)
    BY <2>3 DEF FetchWorker, StopSteps, env, TypeOK, Jobs
  <2>4. CASE StopWorker(g)
    BY <2>4 DEF StopWorker, StopSteps
  <2>5. CASE AwaitWorker(g)
    BY <2>5 DEF AwaitWorker, StopSteps, env
  <2> QED BY <2>1, <2>2, <2>3, <2>4, <2>5
<1>3. FinalStops'
  <2>1. CASE Return(g)
    <3>1. ~job'[g].final
      BY <2>1 DEF Return, TypeOK, NoJob
    <3>2. \A h \in Goroutines : h # g => pc'[h] = pc[h] /\ job'[h] = job[h]
      BY <2>1 DEF Return, Goto, TypeOK
    <3> QED BY <3>1, <3>2 DEF EngineInv, FinalStops
  <2>2. CASE /\ \E step \in StopSteps : Goto(g, step)
             /\ \A h \in Goroutines : job'[h].final = job[h].final
    <3>1. pc'[g] \in StopSteps /\ \A h \in Goroutines : h # g => pc'[h] = pc[h]
      BY <2>2 DEF Goto, TypeOK
    <3> QED BY <2>2, <3>1 DEF EngineInv, FinalStops
  <2> QED BY <1>2, <2>1, <2>2
<1>4. SUFFICES ASSUME ~raced PROVE Disciplined'
  BY <1>1, <1>3 DEF EngineInv
<1>5. Disciplined
  BY <1>4 DEF EngineInv
<1>6. ~down
  BY <1>1, <1>5 DEF Disciplined, Controlling
<1>7. Phase(g) /\ OnlySlot /\ ~panicked
  BY <1>5 DEF Disciplined
<1>8. "idle" \notin ControlSteps
  BY DEF ControlSteps, StartSteps, StopSteps
<1>9. StopSteps \subseteq ControlSteps
  BY DEF ControlSteps
<1>10. CASE LoadActive(g)
  <2>1. UNCHANGED <<engine, panicked>> /\ Settled
    BY <1>7, <1>10 DEF LoadActive, Phase
  <2>2. Settled' /\ OnlySlot'
    BY <1>7, <2>1 DEF Settled, OnlySlot, Running, Alive, engine
  <2>3. CASE active
    <3>1. Goto(g, "store") /\ pc'[g] = "store" /\ down' = down
      BY <1>10, <2>3 DEF LoadActive, Goto, TypeOK
    <3>2. active' /\ Running'
      BY <2>1, <2>2, <2>3 DEF Settled, engine
    <3>3. Phase(g)'
      BY <3>1, <3>2 DEF Phase
    <3>4. "store" \in StopSteps
      BY DEF StopSteps
    <3> QED BY <1>1, <1>5, <1>6, <1>7, <1>9, <2>1, <2>2, <3>1, <3>3, <3>4, Advance
  <2>4. CASE ~active
    <3>1. Goto(g, "idle") /\ ~active'
      BY <1>10, <2>1, <2>4 DEF LoadActive, Return, engine
    <3> QED BY <1>1, <1>5, <1>7, <1>8, <2>1, <2>2, <3>1, Advance
  <2> QED BY <2>3, <2>4
<1>11. CASE StoreInactive(g)
  <2>1. UNCHANGED <<slot, worker, panicked, down>> /\ ~active' /\ Running
    BY <1>7, <1>11 DEF StoreInactive, Phase, env
  <2>2. Running' /\ OnlySlot'
    BY <1>7, <2>1 DEF OnlySlot, Running, Alive
  <2>3. Goto(g, "fetch") /\ pc'[g] = "fetch" /\ "fetch" \in StopSteps
    BY <1>11 DEF StoreInactive, Goto, TypeOK, StopSteps
  <2>4. Phase(g)'
    BY <2>1, <2>2, <2>3 DEF Phase
  <2> QED BY <1>1, <1>5, <1>6, <1>7, <1>9, <2>1, <2>2, <2>3, <2>4, Advance
<1>12. CASE FetchWorker(g)
  <2>1. UNCHANGED <<active, slot, worker, panicked, down>> /\ ~active /\ Running
    BY <1>7, <1>12 DEF FetchWorker, Phase, engine, env
  <2>2. Running' /\ OnlySlot'
    BY <1>7, <2>1 DEF OnlySlot, Running, Alive
  <2>3. job'[g].worker = slot
    BY <1>12 DEF FetchWorker, TypeOK, Jobs
  <2>4. slot # NoWorker
    BY <2>1, NilAssumption DEF Running
  <2>5. Goto(g, "stop") /\ pc'[g] = "stop" /\ "stop" \in StopSteps
    BY <1>12, <2>4 DEF FetchWorker, Goto, TypeOK, StopSteps
  <2>6. Phase(g)'
    BY <2>1, <2>2, <2>3, <2>5 DEF Phase
  <2> QED BY <1>1, <1>5, <1>6, <1>7, <1>9, <2>1, <2>2, <2>5, <2>6, Advance
<1>13. CASE StopWorker(g)
  <2>1. ~active /\ Running /\ job[g].worker = slot
    BY <1>7, <1>13 DEF StopWorker, Phase
  <2>2. UNCHANGED <<active, slot, job, down>>
    BY <1>13 DEF StopWorker
  <2>3. slot \in Workers /\ worker[slot].running /\ ~worker[slot].closed
    BY <2>1 DEF Running
  <2>4. ~panicked'
    BY <1>13, <2>1, <2>3 DEF StopWorker
  <2>5. \A j \in Workers : worker'[j].at = worker[j].at
    BY <1>13 DEF StopWorker, TypeOK, WorkerStates
  <2>6. OnlySlot'
    BY <1>7, <2>2, <2>5 DEF OnlySlot, Alive
  <2>7. Goto(g, "await") /\ pc'[g] = "await" /\ "await" \in StopSteps
    BY <1>13, <2>1, <2>3 DEF StopWorker, Goto, TypeOK, StopSteps
  <2>8. Phase(g)'
    BY <2>1, <2>2, <2>3, <2>7 DEF Phase
  <2> QED BY <1>1, <1>5, <1>6, <1>9, <2>2, <2>4, <2>6, <2>7, <2>8, Advance
<1>14. CASE AwaitWorker(g)
  <2>1. ~active /\ slot \in Workers /\ job[g].worker = slot
    BY <1>7, <1>14 DEF AwaitWorker, Phase
  <2>2. UNCHANGED <<active, slot, job, down, panicked>>
    BY <1>14 DEF AwaitWorker, env
  <2>3. \A j \in Workers : worker'[j].at = worker[j].at
    BY <1>14 DEF AwaitWorker, TypeOK, WorkerStates
  <2>4. \A j \in Workers : ~Alive(j)
    BY <1>7, <1>14, <2>1 DEF AwaitWorker, OnlySlot, Alive
  <2>5. \A j \in Workers : ~Alive(j)'
    BY <2>3, <2>4 DEF Alive
  <2>6. OnlySlot'
    BY <2>5 DEF OnlySlot
  <2>7. Goto(g, "clear") /\ pc'[g] = "clear" /\ "clear" \in StopSteps
    BY <1>14 DEF AwaitWorker, Goto, TypeOK, StopSteps
  <2>8. Phase(g)'
    BY <2>1, <2>2, <2>5, <2>7 DEF Phase
  <2> QED BY <1>1, <1>5, <1>6, <1>7, <1>9, <2>2, <2>6, <2>7, <2>8, Advance
<1>15. CASE ClearWorker(g)
  <2>1. ~active /\ \A j \in Workers : ~Alive(j)
    BY <1>7, <1>15 DEF ClearWorker, Phase
  <2>2. UNCHANGED <<active, worker, panicked>> /\ slot' = NoWorker /\ Goto(g, "idle")
    BY <1>15 DEF ClearWorker, Return
  <2>3. OnlySlot' /\ Settled' /\ ~active'
    BY <2>1, <2>2 DEF OnlySlot, Alive, Settled
  <2> QED BY <1>1, <1>5, <1>7, <1>8, <2>2, <2>3, Advance
<1> QED BY <1>10, <1>11, <1>12, <1>13, <1>14, <1>15

\* The worker's own steps.  It ends only when it has been told to stop, which
\* happens in no phase but that of the call that waits for it.
LEMMA WorkerKeeps ==
  ASSUME TypeOK, EngineInv, NEW k \in Workers, WorkerStep(k)
  PROVE  EngineInv'
<1>1. /\ \A j \in Workers :
            /\ worker'[j].running = worker[j].running
            /\ worker'[j].closed = worker[j].closed
            /\ j # k => worker'[j] = worker[j]
      /\ Alive(k)
      /\ UNCHANGED <<active, slot, panicked, down, pc, job, raced>>
  BY WorkerMoves DEF env
<1>2. FinalStops'
  BY <1>1 DEF EngineInv, FinalStops
<1>3. SUFFICES ASSUME ~raced PROVE Disciplined'
  BY <1>1, <1>2 DEF EngineInv
<1>4. Disciplined
  BY <1>3 DEF EngineInv
<1>5. slot = k /\ ~down
  <2>1. slot = k
    BY <1>1, <1>4 DEF Disciplined, OnlySlot
  <2>2. ~(down /\ slot = k)
    BY <1>4, NilAssumption DEF Disciplined, Settled
  <2> QED BY <2>1, <2>2
<1>6. \A j \in Workers : Alive(j)' => Alive(j)
  BY <1>1 DEF Alive
<1>7. ~worker[k].closed => Alive(k)'
  BY <1>5 DEF WorkerStep, FindKernel, TakeReadLock, SignCoinstake, SubmitBlock, WorkerStops, At,
         Alive, TypeOK, WorkerStates
<1>8. Running => Running'
  BY <1>1, <1>5, <1>7 DEF Running
<1>9. Settled => Settled'
  BY <1>1, <1>8 DEF Settled
<1>10. OnlySlot'
  BY <1>1, <1>4, <1>6 DEF Disciplined, OnlySlot
<1>11. ASSUME NEW g \in Goroutines PROVE Phase(g)'
  <2>1. Phase(g)
    BY <1>4 DEF Disciplined
  <2>2. pc[g] # "run"
    BY <1>1, <1>5, <2>1 DEF Phase, Alive, NewWorker
  <2> QED BY <1>1, <1>6, <1>8, <1>9, <2>1, <2>2 DEF Phase
<1>12. (Controlling' <=> Controlling) /\ OneAtATime'
  BY <1>1, <1>4 DEF Controlling, OneAtATime, Disciplined
<1> QED BY <1>1, <1>4, <1>9, <1>10, <1>11, <1>12 DEF Disciplined

LEMMA NextEngine == TypeOK /\ EngineInv /\ [Next]_vars => EngineInv'
<1> SUFFICES ASSUME TypeOK, EngineInv, [Next]_vars PROVE EngineInv'
  OBVIOUS
<1>1. CASE UNCHANGED vars
  <2>1. UNCHANGED <<engine, down, panicked, raced, pc, job>>
    BY <1>1 DEF vars, env
  <2>2. ~raced => Disciplined'
    BY <2>1, Frame DEF EngineInv
  <2> QED BY <2>1, <2>2 DEF EngineInv, FinalStops
<1> QED BY <1>1, OutsideKeeps, BeginKeeps, StartKeeps, StopKeeps, WorkerKeeps DEF Next, Step

LEMMA EngineInvConsistent == TypeOK /\ EngineInv => EngineConsistent
<1> SUFFICES ASSUME TypeOK, EngineInv, ~raced PROVE EngineConsistent
  BY DEF EngineConsistent
<1>1. Disciplined
  BY DEF EngineInv
<1>2. ~active /\ Settled => \A k \in Workers : ~Alive(k)
  BY <1>1, NilAssumption DEF Disciplined, OnlySlot, Settled
<1>3. active /\ Settled => \E k \in Workers : Alive(k)
  BY DEF Settled, Running
<1> QED BY <1>1, <1>2, <1>3 DEF EngineConsistent, Disciplined, OnlySlot, TypeOK

\* Calls of StartStaking and StopStaking that do not overlap, made by any number
\* of goroutines in any order and with the worker running in between, never
\* panic, never leave a second worker or one that cannot be stopped, and leave
\* none when the engine has been shut down.
THEOREM EngineAlwaysConsistent == Spec => []EngineConsistent
<1>1. Init => TypeOK /\ EngineInv
  BY InitType, InitEngine
<1>2. TypeOK /\ EngineInv /\ [Next]_vars => (TypeOK /\ EngineInv)'
  BY NextType, NextEngine
<1> QED BY <1>1, <1>2, EngineInvConsistent, PTL DEF Spec

-----------------------------------------------------------------------------
(* The engine against the setting and the wallet.  The wallet can still be *)
(* locked silently under a call in progress; setting and unlocks cannot    *)
(* change without a second call.                                           *)

Stopping == \E g \in Goroutines : pc[g] \in StopSteps
Checking == \E g \in Goroutines : pc[g] = "check"

\* Why the one call in progress is made, or what it has found out.
Reason(g) ==
    /\ pc[g] \in StartSteps \ {"onUnlock"} => enabled
    /\ pc[g] \in {"create", "run"} => (IsLocked => silent)
    /\ pc[g] \in StopSteps => ~enabled \/ IsLocked \/ job[g].final

Justified ==
    /\ ~Stopping => (active => enabled)
    /\ ~Stopping /\ ~Checking => (active /\ IsLocked => silent)
    /\ ~Controlling => (enabled /\ ~IsLocked => active)
    /\ \A g \in Goroutines : Reason(g)

SettingsInv == ~raced /\ ~down => Justified

LEMMA InitSettings == Init => SettingsInv
<1> SUFFICES ASSUME Init PROVE Justified
  BY DEF SettingsInv
<1>1. PICK g \in Goroutines :
        pc = [h \in Goroutines |-> IF h = g /\ enabled THEN "begin" ELSE "idle"]
  BY DEF Init
<1>2. \A h \in Goroutines : pc[h] = "idle" \/ (pc[h] = "begin" /\ enabled)
  BY <1>1
<1>3. enabled => pc[g] = "begin"
  BY <1>1
<1>4. ~active
  BY DEF Init
<1>5. \A h \in Goroutines : Reason(h)
  BY <1>2 DEF Reason, StartSteps, StopSteps
<1>6. enabled => Controlling
  BY <1>3 DEF Controlling, ControlSteps, StartSteps
<1> QED BY <1>4, <1>5, <1>6 DEF Justified

\* A step that touches no call in progress and locks the wallet silently if at
\* all.
LEMMA FrameSettings ==
  ASSUME Justified, UNCHANGED <<active, enabled>>,
         IsLocked => IsLocked', IsLocked' => IsLocked \/ silent', silent => silent',
         \A h \in Goroutines :
            pc[h] \in ControlSteps \/ pc'[h] \in ControlSteps =>
                pc'[h] = pc[h] /\ job'[h] = job[h]
  PROVE  Justified'
<1>1. /\ Stopping' <=> Stopping
      /\ Checking' <=> Checking
      /\ Controlling' <=> Controlling
  BY DEF Stopping, Checking, Controlling, ControlSteps, StartSteps
<1>2. ASSUME NEW h \in Goroutines PROVE Reason(h)'
  <2>1. CASE pc'[h] \in ControlSteps
    <3>1. Reason(h) /\ pc'[h] = pc[h] /\ job'[h] = job[h]
      BY <2>1 DEF Justified
    <3> QED BY <3>1 DEF Reason
  <2>2. CASE pc'[h] \notin ControlSteps
    BY <2>2 DEF Reason, ControlSteps, StartSteps, StopSteps
  <2> QED BY <2>1, <2>2
<1> QED BY <1>1, <1>2 DEF Justified

\* The call in progress, or a call where none was in progress, takes a step.
LEMMA AloneSettings ==
  ASSUME TypeOK, NEW g \in Goroutines, NEW step, Goto(g, step),
         \A h \in Goroutines : h # g => pc[h] \notin ControlSteps,
         step \notin StopSteps => (active' => enabled'),
         step \notin StopSteps \cup {"check"} => (active' /\ IsLocked' => silent'),
         step \notin ControlSteps => (enabled' /\ ~IsLocked' => active'),
         Reason(g)'
  PROVE  Justified'
<1>1. pc'[g] = step /\ \A h \in Goroutines : h # g => pc'[h] \notin ControlSteps
  BY DEF TypeOK, Goto
<1>2. /\ Stopping' <=> step \in StopSteps
      /\ Checking' <=> step = "check"
      /\ Controlling' <=> step \in ControlSteps
  BY <1>1 DEF Stopping, Checking, Controlling, ControlSteps, StartSteps
<1>3. ASSUME NEW h \in Goroutines PROVE Reason(h)'
  BY <1>1 DEF Reason, ControlSteps, StartSteps, StopSteps
<1> QED BY <1>2, <1>3 DEF Justified

LEMMA OutsideSettings ==
  ASSUME TypeOK, SettingsInv, NEW g \in Goroutines,
         \/ \E step \in WriterSteps : CallWallet(g, step)
         \/ AutoLockFires(g) \/ RestoreToStakingOnly(g) \/ ChangePassphrase(g)
         \/ EncryptWallet(g) \/ NotifyBlocks(g)
  PROVE  SettingsInv'
<1>1. UNCHANGED <<active, enabled, down, raced>>
  BY DEF CallWallet, AutoLockFires, RestoreToStakingOnly, ChangePassphrase, EncryptWallet,
         NotifyBlocks, env, engine
<1>2. PICK step \in WriterSteps \cup {"idle"} : Goto(g, step)
  BY DEF CallWallet, AutoLockFires, RestoreToStakingOnly, ChangePassphrase, EncryptWallet,
         NotifyBlocks, WriterSteps
<1>3. pc[g] \in WriterSteps \cup {"idle"}
  BY DEF CallWallet, NewCall, AutoLockFires, RestoreToStakingOnly, ChangePassphrase,
         EncryptWallet, NotifyBlocks, WriterSteps
<1>4. \A h \in Goroutines : h # g => pc'[h] = pc[h] /\ job'[h] = job[h]
  BY <1>2 DEF TypeOK, Goto, CallWallet, AutoLockFires, RestoreToStakingOnly, ChangePassphrase,
         EncryptWallet, NotifyBlocks
<1>5. pc[g] \notin ControlSteps /\ pc'[g] \notin ControlSteps
  BY <1>2, <1>3 DEF TypeOK, Goto, WriterSteps, ControlSteps, StartSteps, StopSteps
<1>6. /\ IsLocked => IsLocked'
      /\ IsLocked' => IsLocked \/ silent'
      /\ silent => silent'
  <2>1. CASE \E s \in WriterSteps : CallWallet(g, s)
    <3>1. UNCHANGED wallet
      BY <2>1 DEF CallWallet
    <3> QED BY <3>1 DEF IsLocked, wallet
  <2>2. CASE AutoLockFires(g) \/ NotifyBlocks(g)
    BY <2>2 DEF AutoLockFires, NotifyBlocks, IsLocked, wallet
  <2>3. CASE RestoreToStakingOnly(g)
    BY <2>3 DEF RestoreToStakingOnly, IsLocked, wallet
  <2>4. CASE ChangePassphrase(g)
    BY <2>4 DEF ChangePassphrase, IsLocked
  <2>5. CASE EncryptWallet(g)
    BY <2>5 DEF EncryptWallet, IsLocked
  <2> QED BY <2>1, <2>2, <2>3, <2>4, <2>5
<1>7. ASSUME ~raced, ~down PROVE Justified'
  BY <1>1, <1>4, <1>5, <1>6, <1>7, FrameSettings DEF SettingsInv
<1> QED BY <1>1, <1>7 DEF SettingsInv

LEMMA BeginSettings ==
  ASSUME TypeOK, EngineInv, SettingsInv, NEW g \in Goroutines,
         \/ \E value \in BOOLEAN : SetEnabled(g, value)
         \/ Shutdown(g) \/ Unlock(g) \/ Lock(g)
  PROVE  SettingsInv'
<1>1. SUFFICES ASSUME ~raced', ~down' PROVE Justified'
  BY DEF SettingsInv
<1>2. ~raced /\ ~down
  BY <1>1 DEF SetEnabled, Shutdown, Unlock, Lock, BeginControl, Return
<1>3. Justified
  BY <1>2 DEF SettingsInv
<1>4. ASSUME BeginControl
      PROVE  /\ \A h \in Goroutines : pc[h] \notin ControlSteps
             /\ active => enabled
             /\ active /\ IsLocked => silent
  <2>1. ~Controlling
    BY <1>1, <1>4 DEF BeginControl
  <2>2. \A h \in Goroutines : pc[h] \notin ControlSteps
    BY <2>1 DEF Controlling
  <2>3. ~Stopping /\ ~Checking
    BY <2>2 DEF Stopping, Checking, ControlSteps, StartSteps
  <2> QED BY <1>3, <2>2, <2>3 DEF Justified
<1>5. {"onUnlock", "begin", "load"} \subseteq ControlSteps /\ "load" \in StopSteps
  BY DEF ControlSteps, StartSteps, StopSteps
<1>6. ASSUME NEW value \in BOOLEAN, SetEnabled(g, value) PROVE Justified'
  <2>1. BeginControl /\ UNCHANGED <<active, wallet>> /\ enabled' = value
    BY <1>6 DEF SetEnabled, engine
  <2>2. IsLocked' = IsLocked /\ silent' = silent
    BY <2>1 DEF IsLocked, wallet
  <2>3. CASE value
    <3>1. Goto(g, "begin") /\ pc'[g] = "begin"
      BY <1>6, <2>3 DEF SetEnabled, Goto, TypeOK
    <3>2. Reason(g)'
      BY <2>1, <2>3, <3>1 DEF Reason, StopSteps
    <3> QED BY <1>4, <1>5, <2>1, <2>2, <2>3, <3>1, <3>2, AloneSettings
  <2>4. CASE ~value
    <3>1. Goto(g, "load") /\ pc'[g] = "load"
      BY <1>6, <2>4 DEF SetEnabled, Goto, TypeOK
    <3>2. Reason(g)'
      BY <2>1, <2>4, <3>1 DEF Reason, StartSteps
    <3> QED BY <1>4, <1>5, <2>1, <3>1, <3>2, AloneSettings
  <2> QED BY <2>3, <2>4
<1>7. CASE Shutdown(g)
  <2>1. BeginControl /\ Goto(g, "load") /\ pc'[g] = "load" /\ job'[g].final
    BY <1>7 DEF Shutdown, Goto, TypeOK, NoJob
  <2>2. Reason(g)'
    BY <2>1 DEF Reason, StartSteps
  <2> QED BY <1>4, <1>5, <2>1, <2>2, AloneSettings
<1>8. ASSUME Return(g), pc[g] \in WriterSteps, UNCHANGED <<active, enabled, silent>>,
             IsLocked' <=> IsLocked
      PROVE  Justified'
  <2>1. pc[g] \notin ControlSteps /\ pc'[g] \notin ControlSteps
    BY <1>8 DEF TypeOK, Return, Goto, WriterSteps, ControlSteps, StartSteps, StopSteps
  <2>2. \A h \in Goroutines : h # g => pc'[h] = pc[h] /\ job'[h] = job[h]
    BY <1>8 DEF TypeOK, Return, Goto
  <2> QED BY <1>3, <1>8, <2>1, <2>2, FrameSettings
<1>9. CASE Unlock(g)
  <2>1. UNCHANGED <<active, enabled>> /\ pc[g] \in WriterSteps
    BY <1>9 DEF Unlock, engine, WriterSteps
  <2>2. \/ Return(g) /\ UNCHANGED <<encrypted, unlocked, silent>>
        \/ Goto(g, "onUnlock") /\ BeginControl /\ unlocked'
    BY <1>9 DEF Unlock, wallet
  <2>3. CASE Return(g) /\ UNCHANGED <<encrypted, unlocked, silent>>
    BY <1>8, <2>1, <2>3 DEF IsLocked
  <2>4. CASE Goto(g, "onUnlock") /\ BeginControl /\ unlocked'
    <3>1. pc'[g] = "onUnlock" /\ ~IsLocked'
      BY <2>4 DEF Goto, TypeOK, IsLocked
    <3>2. Reason(g)'
      BY <3>1 DEF Reason, StopSteps
    <3> QED BY <1>4, <1>5, <2>1, <2>4, <3>1, <3>2, AloneSettings
  <2> QED BY <2>2, <2>3, <2>4
<1>10. CASE Lock(g)
  <2>1. UNCHANGED <<active, enabled>> /\ pc[g] \in WriterSteps
    BY <1>10 DEF Lock, engine, WriterSteps
  <2>2. \/ Return(g) /\ UNCHANGED <<encrypted, unlocked, silent>>
        \/ Goto(g, "load") /\ BeginControl /\ encrypted' /\ ~unlocked'
    BY <1>10 DEF Lock, wallet
  <2>3. CASE Return(g) /\ UNCHANGED <<encrypted, unlocked, silent>>
    BY <1>8, <2>1, <2>3 DEF IsLocked
  <2>4. CASE Goto(g, "load") /\ BeginControl /\ encrypted' /\ ~unlocked'
    <3>1. pc'[g] = "load" /\ IsLocked'
      BY <2>4 DEF Goto, TypeOK, IsLocked
    <3>2. Reason(g)'
      BY <3>1 DEF Reason, StartSteps
    <3> QED BY <1>4, <1>5, <2>4, <3>2, AloneSettings
  <2> QED BY <2>2, <2>3, <2>4
<1> QED BY <1>6, <1>7, <1>9, <1>10

LEMMA StartSettings ==
  ASSUME TypeOK, EngineInv, SettingsInv, NEW g \in Goroutines,
         \/ OnUnlock(g) \/ BeginStaking(g) \/ CompareAndSwap(g) \/ CheckUnlocked(g)
         \/ CreateWorker(g) \/ RunWorker(g)
  PROVE  SettingsInv'
<1>1. pc[g] \in StartSteps /\ UNCHANGED <<wallet, enabled, job, raced, down>>
  BY DEF OnUnlock, BeginStaking, CompareAndSwap, CheckUnlocked, CreateWorker, RunWorker, env,
         StartSteps
<1>2. SUFFICES ASSUME ~raced, ~down PROVE Justified'
  BY <1>1 DEF SettingsInv
<1>3. Justified /\ Disciplined
  BY <1>2 DEF SettingsInv, EngineInv
<1>4. \A h \in Goroutines : h # g => pc[h] \notin ControlSteps
  BY <1>1, <1>3 DEF Disciplined, OneAtATime, ControlSteps
<1>5. ~Stopping /\ (Checking => pc[g] = "check")
  BY <1>1, <1>4 DEF Stopping, Checking, ControlSteps, StartSteps, StopSteps
<1>6. /\ active => enabled
      /\ pc[g] # "check" => (active /\ IsLocked => silent)
      /\ Reason(g) /\ Phase(g)
  BY <1>3, <1>5 DEF Justified, Disciplined
<1>7. (IsLocked' <=> IsLocked) /\ (silent' <=> silent) /\ (enabled' <=> enabled)
  BY <1>1 DEF IsLocked, wallet
<1>8. ASSUME NEW step \in {"idle", "cas", "check", "create", "run"}, Goto(g, step),
             step # "idle" => enabled,
             step \in {"create", "run"} => (IsLocked => silent),
             active' => enabled,
             step # "check" => (active' /\ IsLocked => silent),
             step = "idle" => (enabled /\ ~IsLocked => active')
      PROVE  Justified'
  <2>1. pc'[g] = step
    BY <1>8 DEF Goto, TypeOK
  <2>2. Reason(g)'
    BY <1>7, <1>8, <2>1 DEF Reason, StartSteps, StopSteps
  <2>3. step # "idle" => step \in ControlSteps
    BY DEF ControlSteps, StartSteps
  <2> QED BY <1>4, <1>7, <1>8, <2>2, <2>3, AloneSettings
<1>9. CASE OnUnlock(g)
  <2>1. active' = active /\ Goto(g, IF enabled THEN "cas" ELSE "idle") /\ pc[g] = "onUnlock"
    BY <1>9 DEF OnUnlock, engine
  <2> QED BY <1>6, <1>8, <2>1
<1>10. CASE BeginStaking(g)
  <2>1. active' = active /\ Goto(g, IF IsLocked THEN "idle" ELSE "cas") /\ pc[g] = "begin"
    BY <1>10 DEF BeginStaking, engine
  <2>2. enabled
    BY <1>6, <2>1 DEF Reason, StartSteps
  <2> QED BY <1>6, <1>8, <2>1, <2>2
<1>11. CASE CompareAndSwap(g)
  <2>1. active' /\ Goto(g, IF active THEN "idle" ELSE "check") /\ pc[g] = "cas"
    BY <1>11 DEF CompareAndSwap
  <2>2. enabled
    BY <1>6, <2>1 DEF Reason, StartSteps
  <2> QED BY <1>6, <1>8, <2>1, <2>2
<1>12. CASE CheckUnlocked(g)
  <2>1. /\ active' <=> active /\ ~IsLocked
        /\ Goto(g, IF IsLocked THEN "idle" ELSE "create") /\ pc[g] = "check"
    BY <1>12 DEF CheckUnlocked
  <2>2. enabled /\ active
    BY <1>6, <2>1 DEF Reason, Phase, StartSteps
  <2> QED BY <1>8, <2>1, <2>2
<1>13. CASE CreateWorker(g)
  <2>1. active' = active /\ Goto(g, "run") /\ pc[g] = "create"
    BY <1>13 DEF CreateWorker
  <2>2. enabled /\ (IsLocked => silent)
    BY <1>6, <2>1 DEF Reason, StartSteps
  <2> QED BY <1>8, <2>1, <2>2
<1>14. CASE RunWorker(g)
  <2>1. Goto(g, "idle") /\ pc[g] = "run"
    BY <1>14 DEF RunWorker
  <2>2. enabled /\ (IsLocked => silent) /\ active /\ slot \in Workers /\ ~worker[slot].running
    BY <1>6, <2>1 DEF Reason, Phase, StartSteps, NewWorker
  <2>3. active' = active
    BY <1>14, <2>2, NilAssumption DEF RunWorker
  <2> QED BY <1>8, <2>1, <2>2, <2>3
<1> QED BY <1>9, <1>10, <1>11, <1>12, <1>13, <1>14

LEMMA StopSettings ==
  ASSUME TypeOK, EngineInv, SettingsInv, NEW g \in Goroutines,
         \/ LoadActive(g) \/ StoreInactive(g) \/ FetchWorker(g) \/ StopWorker(g)
         \/ AwaitWorker(g) \/ ClearWorker(g)
  PROVE  SettingsInv'
<1>1. pc[g] \in StopSteps /\ UNCHANGED <<wallet, enabled, raced>>
  BY DEF LoadActive, StoreInactive, FetchWorker, StopWorker, AwaitWorker, ClearWorker, env,
         StopSteps
<1>2. SUFFICES ASSUME ~raced, ~down' PROVE Justified'
  BY <1>1 DEF SettingsInv
<1>3. ~down
  BY <1>2 DEF LoadActive, StoreInactive, FetchWorker, StopWorker, AwaitWorker, ClearWorker, env,
         Return
<1>4. Justified /\ Disciplined
  BY <1>2, <1>3 DEF SettingsInv, EngineInv
<1>5. \A h \in Goroutines : h # g => pc[h] \notin ControlSteps
  BY <1>1, <1>4 DEF Disciplined, OneAtATime, ControlSteps
<1>6. Phase(g) /\ (~enabled \/ IsLocked \/ job[g].final)
  BY <1>1, <1>4 DEF Justified, Reason, Disciplined
<1>7. (IsLocked' <=> IsLocked) /\ (enabled' <=> enabled)
  BY <1>1 DEF IsLocked, wallet
<1>8. ASSUME Return(g), ~active' PROVE Justified'
  <2>1. ~job[g].final
    BY <1>2, <1>8 DEF Return
  <2>2. Goto(g, "idle") /\ pc'[g] = "idle"
    BY <1>8 DEF Return, Goto, TypeOK
  <2>3. Reason(g)'
    BY <2>2 DEF Reason, StartSteps, StopSteps
  <2> QED BY <1>5, <1>6, <1>7, <1>8, <2>1, <2>2, <2>3, AloneSettings
<1>9. ASSUME NEW step \in StopSteps, Goto(g, step), job'[g].final = job[g].final
      PROVE  Justified'
  <2>1. pc'[g] = step
    BY <1>9 DEF Goto, TypeOK
  <2>2. Reason(g)'
    BY <1>6, <1>7, <1>9, <2>1 DEF Reason, StartSteps, StopSteps
  <2> QED BY <1>5, <1>9, <2>2, AloneSettings DEF ControlSteps
<1>10. CASE LoadActive(g)
  <2>1. CASE active
    BY <1>9, <1>10, <2>1 DEF LoadActive, StopSteps
  <2>2. CASE ~active
    BY <1>8, <1>10, <2>2 DEF LoadActive, engine
  <2> QED BY <2>1, <2>2
<1>11. CASE StoreInactive(g)
  BY <1>9, <1>11 DEF StoreInactive, StopSteps
<1>12. CASE FetchWorker(g)
  <2>1. job'[g].final = job[g].final
    BY <1>12 DEF FetchWorker, TypeOK, Jobs
  <2> QED BY <1>9, <1>12, <2>1 DEF FetchWorker, StopSteps
<1>13. CASE StopWorker(g)
  BY <1>9, <1>13 DEF StopWorker, StopSteps
<1>14. CASE AwaitWorker(g)
  BY <1>9, <1>14 DEF AwaitWorker, StopSteps
<1>15. CASE ClearWorker(g)
  <2>1. Return(g) /\ ~active'
    BY <1>6, <1>15 DEF ClearWorker, Phase
  <2> QED BY <1>8, <2>1
<1> QED BY <1>10, <1>11, <1>12, <1>13, <1>14, <1>15

LEMMA NextSettings ==
  TypeOK /\ EngineInv /\ SettingsInv /\ [Next]_vars => SettingsInv'
<1> SUFFICES ASSUME TypeOK, EngineInv, SettingsInv, [Next]_vars PROVE SettingsInv'
  OBVIOUS
<1>1. ASSUME UNCHANGED <<wallet, active, enabled, down, raced, pc, job>> PROVE SettingsInv'
  <2>1. (IsLocked' <=> IsLocked) /\ silent' = silent
    BY <1>1 DEF IsLocked, wallet
  <2> QED BY <1>1, <2>1, FrameSettings DEF SettingsInv
<1>2. CASE UNCHANGED vars
  BY <1>1, <1>2 DEF vars, engine, env
<1>3. ASSUME NEW k \in Workers, WorkerStep(k) PROVE SettingsInv'
  BY <1>1, <1>3, WorkerMoves DEF env
<1> QED BY <1>2, <1>3, OutsideSettings, BeginSettings, StartSettings, StopSettings DEF Next, Step

\* Once all calls have returned, and if none overlapped, the node stakes exactly
\* when staking.enabled and the wallet's lock say so, however settings changes,
\* unlocks, locks, expiring timers and silent locks have alternated.
THEOREM StakingAlwaysFollowsSettings == Spec => []StakingFollowsSettings
<1>1. Init => TypeOK /\ EngineInv /\ SettingsInv
  BY InitType, InitEngine, InitSettings
<1>2. TypeOK /\ EngineInv /\ SettingsInv /\ [Next]_vars => (TypeOK /\ EngineInv /\ SettingsInv)'
  BY NextType, NextEngine, NextSettings
<1>3. SettingsInv => StakingFollowsSettings
  <2> SUFFICES ASSUME Justified, ~Controlling
               PROVE  /\ active => enabled
                      /\ active /\ IsLocked => silent
                      /\ enabled /\ ~IsLocked => active
    BY DEF SettingsInv, StakingFollowsSettings
  <2>1. ~Stopping /\ ~Checking
    BY DEF Stopping, Checking, Controlling, ControlSteps, StartSteps
  <2> QED BY <2>1 DEF Justified
<1> QED BY <1>1, <1>2, <1>3, PTL DEF Spec

-----------------------------------------------------------------------------
(* Who waits for whom.  Here nothing is assumed of how calls overlap.      *)

\* A started worker keeps its goroutine until somebody has waited for its end.
Tended ==
    \A k \in Workers :
        /\ worker[k].running => worker[k].at # "new"
        /\ Alive(k) => worker[k].running

\* Whoever waits for a worker waits for one that has been told to stop,
Awaits(g) ==
    /\ pc[g] \in {"stop", "await"} => job[g].worker \in Workers
    /\ pc[g] = "await" => worker[job[g].worker].running /\ worker[job[g].worker].closed

\* and nobody else waits for it: a second close of stopCh would have panicked.
AwaitsAlone ==
    \A g, h \in Goroutines :
        pc[g] = "await" /\ pc[h] = "await" /\ job[g].worker = job[h].worker => g = h

Waiting == Tended /\ AwaitsAlone /\ \A g \in Goroutines : Awaits(g)

\* So far only so many workers have been started.
Started == {k \in Workers : worker[k].at # "new"}

WaitInv == IsFiniteSet(Started) /\ (~panicked => Waiting)

LEMMA InitWait == Init => WaitInv
<1> SUFFICES ASSUME Init PROVE WaitInv
  OBVIOUS
<1>1. Started = {}
  BY DEF Init, Started, NewWorker
<1>2. Tended
  BY DEF Init, Tended, Alive, NewWorker
<1>3. \A g \in Goroutines : pc[g] \notin {"stop", "await"}
  BY DEF Init
<1> QED BY <1>1, <1>2, <1>3, FS_EmptySet DEF WaitInv, Waiting, Awaits, AwaitsAlone

\* A step at which no worker is started, told to stop or forgotten, and nobody
\* begins to wait.
LEMMA FrameWait ==
  ASSUME WaitInv, panicked => panicked',
         \A k \in Workers :
            /\ worker'[k].running = worker[k].running
            /\ worker'[k].closed = worker[k].closed
            /\ worker'[k].at = "new" <=> worker[k].at = "new"
            /\ Alive(k)' => Alive(k),
         \A h \in Goroutines :
            pc'[h] \in {"stop", "await"} => pc'[h] = pc[h] /\ job'[h].worker = job[h].worker
  PROVE  WaitInv'
<1>1. Started' = Started
  BY DEF Started
<1>2. ASSUME Waiting PROVE Waiting'
  <2>1. Tended'
    BY <1>2 DEF Waiting, Tended
  <2>2. ASSUME NEW g \in Goroutines PROVE Awaits(g)'
    <3>1. Awaits(g)
      BY <1>2 DEF Waiting
    <3> QED BY <3>1 DEF Awaits
  <2>3. AwaitsAlone'
    BY <1>2 DEF Waiting, AwaitsAlone
  <2> QED BY <2>1, <2>2, <2>3 DEF Waiting
<1> QED BY <1>1, <1>2 DEF WaitInv

LEMMA OtherWait ==
  ASSUME TypeOK, WaitInv, NEW g \in Goroutines, ~panicked,
         UNCHANGED worker,
         \A h \in Goroutines : h # g => pc'[h] = pc[h] /\ job'[h] = job[h],
         pc'[g] \notin {"stop", "await"}
  PROVE  WaitInv'
<1>1. \A k \in Workers : Alive(k)' => Alive(k)
  BY DEF Alive
<1> QED BY <1>1, FrameWait

\* Calls, the wallet's steps and those of StartStaking and StopStaking that do
\* not touch a worker.
LEMMA CallsWait ==
  ASSUME TypeOK, WaitInv, NEW g \in Goroutines, ~panicked,
         \/ \E step \in WriterSteps : CallWallet(g, step)
         \/ \E value \in BOOLEAN : SetEnabled(g, value)
         \/ Shutdown(g) \/ AutoLockFires(g)
         \/ Unlock(g) \/ Lock(g) \/ RestoreToStakingOnly(g) \/ ChangePassphrase(g)
         \/ EncryptWallet(g) \/ NotifyBlocks(g)
         \/ OnUnlock(g) \/ BeginStaking(g) \/ CompareAndSwap(g) \/ CheckUnlocked(g)
         \/ LoadActive(g) \/ StoreInactive(g) \/ ClearWorker(g)
  PROVE  WaitInv'
<1>1. UNCHANGED worker
  BY DEF CallWallet, SetEnabled, Shutdown, AutoLockFires, Unlock, Lock, RestoreToStakingOnly,
         ChangePassphrase, EncryptWallet, NotifyBlocks, OnUnlock, BeginStaking, CompareAndSwap,
         CheckUnlocked, LoadActive, StoreInactive, ClearWorker, engine
<1>2. PICK step \in Steps \ {"stop", "await"} : Goto(g, step)
  BY DEF CallWallet, SetEnabled, Shutdown, AutoLockFires, Unlock, Lock, RestoreToStakingOnly,
         ChangePassphrase, EncryptWallet, NotifyBlocks, OnUnlock, BeginStaking, CompareAndSwap,
         CheckUnlocked, LoadActive, StoreInactive, ClearWorker, Return,
         Steps, WriterSteps, ControlSteps, StartSteps, StopSteps
<1>3. \A h \in Goroutines : h # g => pc'[h] = pc[h]
  BY <1>2 DEF Goto, TypeOK
<1>4. \A h \in Goroutines : h # g => job'[h] = job[h]
  <2>1. CASE \/ \E entry \in WriterSteps : CallWallet(g, entry)
             \/ Shutdown(g) \/ Unlock(g) \/ Lock(g)
    BY <2>1 DEF CallWallet, Shutdown, Unlock, Lock, Return, TypeOK
  <2>2. CASE \/ \E value \in BOOLEAN : SetEnabled(g, value)
             \/ AutoLockFires(g)
             \/ RestoreToStakingOnly(g) \/ ChangePassphrase(g)
             \/ EncryptWallet(g) \/ NotifyBlocks(g)
    BY <2>2 DEF SetEnabled, AutoLockFires, RestoreToStakingOnly, ChangePassphrase, EncryptWallet,
                NotifyBlocks
  <2>3. CASE \/ OnUnlock(g) \/ BeginStaking(g) \/ CompareAndSwap(g) \/ CheckUnlocked(g)
             \/ LoadActive(g) \/ StoreInactive(g) \/ ClearWorker(g)
    BY <2>3 DEF OnUnlock, BeginStaking, CompareAndSwap, CheckUnlocked, LoadActive, StoreInactive,
                ClearWorker, Return, TypeOK
  <2> QED BY <2>1, <2>2, <2>3
<1>5. pc'[g] \notin {"stop", "await"}
  BY <1>2 DEF Goto, TypeOK
<1> QED BY <1>1, <1>3, <1>4, <1>5, OtherWait

\* A worker object is made only where nobody refers to it.
LEMMA CreateWait ==
  ASSUME TypeOK, WaitInv, NEW g \in Goroutines, ~panicked, CreateWorker(g)
  PROVE  WaitInv'
<1>1. PICK k \in Workers : Unused(k) /\ worker' = [worker EXCEPT ![k] = NewWorker]
  BY DEF CreateWorker
<1>2. \A j \in Workers : worker'[j] = IF j = k THEN NewWorker ELSE worker[j]
  BY <1>1 DEF TypeOK
<1>3. \A h \in Goroutines : pc'[h] = IF h = g THEN "run" ELSE pc[h]
  BY DEF CreateWorker, Goto, TypeOK
<1>4. job' = job /\ \A h \in Goroutines : job[h].worker # k
  BY <1>1 DEF CreateWorker, Unused
<1>5. Started' \in SUBSET Started
  BY <1>2 DEF Started, NewWorker
<1>6. Tended'
  BY <1>2 DEF WaitInv, Waiting, Tended, Alive, NewWorker
<1>7. ASSUME NEW h \in Goroutines PROVE Awaits(h)'
  <2>1. Awaits(h)
    BY DEF WaitInv, Waiting
  <2> QED BY <1>2, <1>3, <1>4, <2>1 DEF Awaits
<1>8. AwaitsAlone'
  BY <1>3, <1>4 DEF WaitInv, Waiting, AwaitsAlone
<1>9. IsFiniteSet(Started')
  BY <1>5, FS_Subset DEF WaitInv
<1> QED BY <1>6, <1>7, <1>8, <1>9 DEF WaitInv, Waiting

\* A worker that is started was not running, so nobody waits for it.
LEMMA RunWait ==
  ASSUME TypeOK, WaitInv, NEW g \in Goroutines, ~panicked, RunWorker(g)
  PROVE  WaitInv'
<1>1. \A h \in Goroutines : pc'[h] = IF h = g THEN "idle" ELSE pc[h]
  BY DEF RunWorker, Goto, TypeOK
<1>2. job' = job
  BY DEF RunWorker
<1>3. CASE worker' = worker
  BY <1>1, <1>2, <1>3, OtherWait
<1>4. CASE worker' # worker
  <2> DEFINE looping == [at |-> "loop", running |-> TRUE, closed |-> FALSE]
  <2>1. slot \in Workers /\ ~worker[slot].running /\ worker' = [worker EXCEPT ![slot] = looping]
    BY <1>4 DEF RunWorker, engine, TypeOK
  <2>2. \A j \in Workers : worker'[j] = IF j = slot THEN looping ELSE worker[j]
    BY <2>1 DEF TypeOK
  <2>3. Started' \in SUBSET (Started \cup {slot})
    BY <2>2 DEF Started
  <2>4. IsFiniteSet(Started')
    <3>1. IsFiniteSet(Started \cup {slot})
      BY FS_AddElement DEF WaitInv
    <3> QED BY <2>3, <3>1, FS_Subset
  <2>5. Tended'
    BY <2>2 DEF WaitInv, Waiting, Tended, Alive
  <2>6. ASSUME NEW h \in Goroutines PROVE Awaits(h)'
    <3>1. Awaits(h)
      BY DEF WaitInv, Waiting
    <3> QED BY <1>1, <1>2, <2>1, <2>2, <3>1 DEF Awaits
  <2>7. AwaitsAlone'
    BY <1>1, <1>2 DEF WaitInv, Waiting, AwaitsAlone
  <2> QED BY <2>4, <2>5, <2>6, <2>7 DEF WaitInv, Waiting
<1> QED BY <1>3, <1>4

LEMMA StopWait ==
  ASSUME TypeOK, WaitInv, NEW g \in Goroutines, ~panicked,
         FetchWorker(g) \/ StopWorker(g) \/ AwaitWorker(g)
  PROVE  WaitInv'
<1>1. Waiting /\ Awaits(g)
  BY DEF WaitInv, Waiting
<1>2. CASE FetchWorker(g)
  <2>1. /\ \A h \in Goroutines : h # g => pc'[h] = pc[h] /\ job'[h] = job[h]
        /\ job'[g].worker = slot
        /\ pc'[g] = IF slot = NoWorker THEN "clear" ELSE "stop"
        /\ worker' = worker
    BY <1>2 DEF FetchWorker, Goto, TypeOK, Jobs, engine
  <2>2. Started' = Started
    BY <2>1 DEF Started
  <2>3. Tended'
    BY <1>1, <2>1 DEF Waiting, Tended, Alive
  <2>4. ASSUME NEW h \in Goroutines PROVE Awaits(h)'
    <3>1. Awaits(h) /\ slot \in Workers \cup {NoWorker}
      BY <1>1 DEF Waiting, TypeOK
    <3> QED BY <2>1, <3>1 DEF Awaits
  <2>5. AwaitsAlone'
    BY <1>1, <2>1 DEF Waiting, AwaitsAlone
  <2> QED BY <2>2, <2>3, <2>4, <2>5 DEF WaitInv, Waiting
<1>3. CASE StopWorker(g)
  <2> DEFINE k == job[g].worker
  <2>1. k \in Workers /\ job' = job
    BY <1>1, <1>3 DEF StopWorker, Awaits
  <2>2. /\ \A h \in Goroutines :
              pc'[h] = IF h # g THEN pc[h] ELSE IF worker[k].running THEN "await" ELSE "clear"
        /\ panicked' = (worker[k].running /\ worker[k].closed)
    BY <1>3 DEF StopWorker, Goto, TypeOK
  <2>3. /\ \A j \in Workers :
              /\ worker'[j].at = worker[j].at /\ worker'[j].running = worker[j].running
              /\ j # k => worker'[j].closed = worker[j].closed
        /\ worker'[k].closed = (worker[k].closed \/ worker[k].running)
    BY <1>3, <2>1 DEF StopWorker, TypeOK, WorkerStates
  <2>4. Started' = Started
    BY <2>3 DEF Started
  <2>5. SUFFICES ASSUME ~panicked' PROVE Waiting'
    BY <2>4 DEF WaitInv
  <2>6. Tended'
    BY <1>1, <2>3 DEF Waiting, Tended, Alive
  <2>7. ASSUME NEW h \in Goroutines PROVE Awaits(h)'
    <3>1. Awaits(h)
      BY <1>1 DEF Waiting
    <3>2. CASE h = g
      BY <2>1, <2>2, <2>3, <3>2 DEF Awaits
    <3>3. CASE h # g
      <4>1. pc'[h] = pc[h] /\ job'[h] = job[h]
        BY <2>1, <2>2, <3>3
      <4>2. pc[h] = "await" => worker'[job[h].worker].running /\ worker'[job[h].worker].closed
        <5> SUFFICES ASSUME pc[h] = "await"
                     PROVE  worker'[job[h].worker].running /\ worker'[job[h].worker].closed
          OBVIOUS
        <5>1. job[h].worker \in Workers /\ worker[job[h].worker].running
              /\ worker[job[h].worker].closed
          BY <3>1 DEF Awaits
        <5> QED BY <2>3, <5>1
      <4> QED BY <3>1, <4>1, <4>2 DEF Awaits
    <3> QED BY <3>2, <3>3
  <2>8. ASSUME NEW h \in Goroutines, h # g, pc[h] = "await", job[h].worker = k
        PROVE  pc'[g] # "await"
    <3>1. worker[k].running /\ worker[k].closed
      BY <1>1, <2>8 DEF Waiting, Awaits
    <3> QED BY <2>2, <2>5, <3>1
  <2>9. AwaitsAlone'
    BY <1>1, <2>1, <2>2, <2>8 DEF Waiting, AwaitsAlone
  <2> QED BY <2>6, <2>7, <2>9 DEF Waiting
<1>4. CASE AwaitWorker(g)
  <2> DEFINE k == job[g].worker
  <2>1. k \in Workers /\ job' = job /\ worker[k].at = "done" /\ pc[g] = "await"
    BY <1>1, <1>4 DEF AwaitWorker, Awaits
  <2>2. \A h \in Goroutines : pc'[h] = IF h = g THEN "clear" ELSE pc[h]
    BY <1>4 DEF AwaitWorker, Goto, TypeOK
  <2>3. \A j \in Workers :
           /\ worker'[j].at = worker[j].at /\ worker'[j].closed = worker[j].closed
           /\ j # k => worker'[j] = worker[j]
           /\ j = k => ~worker'[j].running
    BY <1>4, <2>1 DEF AwaitWorker, TypeOK, WorkerStates
  <2>4. Started' = Started
    BY <2>3 DEF Started
  <2>5. Tended'
    BY <1>1, <2>1, <2>3 DEF Waiting, Tended, Alive
  <2>6. ASSUME NEW h \in Goroutines PROVE Awaits(h)'
    <3>1. Awaits(h)
      BY <1>1 DEF Waiting
    <3>2. h # g /\ pc[h] = "await" => job[h].worker # k
      BY <1>1, <2>1 DEF Waiting, AwaitsAlone
    <3> QED BY <2>1, <2>2, <2>3, <3>1, <3>2 DEF Awaits
  <2>7. AwaitsAlone'
    BY <1>1, <2>1, <2>2 DEF Waiting, AwaitsAlone
  <2> QED BY <2>4, <2>5, <2>6, <2>7 DEF WaitInv, Waiting
<1> QED BY <1>2, <1>3, <1>4

LEMMA NextWait == TypeOK /\ WaitInv /\ [Next]_vars => WaitInv'
<1> SUFFICES ASSUME TypeOK, WaitInv, [Next]_vars PROVE WaitInv'
  OBVIOUS
<1>1. CASE UNCHANGED vars
  <2>1. UNCHANGED <<worker, pc, job, panicked>>
    BY <1>1 DEF vars, engine, env
  <2>2. \A k \in Workers : Alive(k)' => Alive(k)
    BY <2>1 DEF Alive
  <2> QED BY <2>1, <2>2, FrameWait
<1>2. ASSUME NEW k \in Workers, WorkerStep(k) PROVE WaitInv'
  <2>1. /\ \A j \in Workers :
              /\ worker'[j].running = worker[j].running
              /\ worker'[j].closed = worker[j].closed
              /\ j # k => worker'[j] = worker[j]
        /\ Alive(k)
        /\ UNCHANGED <<panicked, pc, job>>
    BY <1>2, WorkerMoves DEF env
  <2>2. worker'[k].at # "new" /\ worker[k].at # "new"
    BY <1>2 DEF WorkerStep, FindKernel, TakeReadLock, SignCoinstake, SubmitBlock, WorkerStops, At,
                TypeOK, WorkerStates
  <2>3. \A j \in Workers : Alive(j)' => Alive(j)
    BY <2>1 DEF Alive
  <2> QED BY <2>1, <2>2, <2>3, FrameWait
<1>3. ASSUME NEW g \in Goroutines,
             \/ \E step \in WriterSteps : CallWallet(g, step)
             \/ \E value \in BOOLEAN : SetEnabled(g, value)
             \/ Shutdown(g) \/ AutoLockFires(g) \/ Step(g)
      PROVE  WaitInv'
  <2>1. ~panicked
    BY <1>3 DEF CallWallet, SetEnabled, Shutdown, NewCall, AutoLockFires, Step
  <2> QED BY <1>3, <2>1, CallsWait, CreateWait, RunWait, StopWait DEF Step
<1> QED BY <1>1, <1>2, <1>3 DEF Next

\* The heap: with only so many goroutines there is always an object that nothing
\* refers to.
LEMMA AlwaysAnUnused ==
  ASSUME TypeOK, WaitInv, IsFiniteSet(Goroutines), ~IsFiniteSet(Workers)
  PROVE  \E k \in Workers : Unused(k)
<1> DEFINE held == {job[g].worker : g \in Goroutines}
           refer == [g \in Goroutines |-> job[g].worker]
<1>1. IsFiniteSet(held)
  <2>1. refer \in Surjection(Goroutines, held)
    BY DEF Surjection
  <2> QED BY <2>1, FS_Surjection
<1>2. IsFiniteSet((Started \cup held) \cup {slot})
  BY <1>1, FS_Union, FS_AddElement DEF WaitInv
<1>3. PICK k \in Workers : k \notin (Started \cup held) \cup {slot}
  <2>1. ~(Workers \in SUBSET ((Started \cup held) \cup {slot}))
    BY <1>2, FS_Subset
  <2> QED BY <2>1
<1>4. worker[k].at = "new" /\ slot # k
  BY <1>3 DEF Started
<1>5. \A g \in Goroutines : job[g].worker # k
  BY <1>3
<1> QED BY <1>4, <1>5 DEF Unused

\* Behind a waiting call there is one that can go on: the worker for whose end it
\* waits, the reader that keeps it from the mutex or, if there is no reader, the
\* writer that keeps the others from reading.
LEMMA SomebodyGoes ==
  ASSUME TypeOK, WaitInv, IsFiniteSet(Goroutines), ~IsFiniteSet(Workers)
  PROVE  NoDeadlock
<1> SUFFICES ASSUME NEW g \in Goroutines, pc[g] # "idle", Waits(g), ~Stuck, ~panicked
             PROVE  \/ \E h \in Goroutines : pc[h] # "idle" /\ ~Waits(h)
                    \/ \E k \in Workers : MayGo(k)
  BY DEF NoDeadlock
<1>1. CASE WriterWaits
  <2>1. CanLock
    BY <1>1 DEF Stuck, CanLock
  <2>2. CASE \E h \in Goroutines : pc[h] \in WriterSteps
    <3>1. PICK h \in Goroutines : pc[h] \in WriterSteps
      BY <2>2
    <3>2. pc[h] # "idle" /\ ~Waits(h)
      BY <2>1, <3>1 DEF Waits, WriterSteps
    <3> QED BY <3>2
  <2>3. CASE \E k \in Workers : worker[k].at = "submit"
    BY <2>1, <2>3 DEF MayGo
  <2> QED BY <1>1, <2>2, <2>3 DEF WriterWaits
<1>2. CASE Readers # {}
  <2>1. PICK k \in Workers : worker[k].at = "signing"
    BY <1>2 DEF Readers
  <2>2. CanRLock
    BY <1>2 DEF Stuck, CanRLock
  <2> QED BY <2>1, <2>2 DEF MayGo
<1>3. CASE CanRLock /\ CanLock
  <2>1. pc[g] # "create"
    BY <1>3, AlwaysAnUnused DEF Waits
  <2>2. pc[g] = "await" /\ worker[job[g].worker].at # "done"
    BY <1>3, <2>1 DEF Waits
  <2> DEFINE k == job[g].worker
  <2>3. k \in Workers /\ worker[k].closed /\ worker[k].at # "new"
    BY <2>2 DEF WaitInv, Waiting, Awaits, Tended
  <2>4. worker[k].at \in {"loop", "found", "signing", "submit"}
    BY <2>2, <2>3 DEF TypeOK, WorkerStates
  <2>5. MayGo(k)
    BY <1>3, <2>3, <2>4 DEF MayGo
  <2> QED BY <2>3, <2>5
<1> QED BY <1>1, <1>2, <1>3 DEF CanRLock, CanLock

\* However calls, callbacks, timers and workers interleave, overlapping ones
\* included, they never end up all waiting, except for the worker's second read
\* lock behind a waiting writer.  Any finite number of goroutines, and a heap on
\* which there is always room for another worker.
THEOREM NeverAllWait ==
  ASSUME IsFiniteSet(Goroutines), ~IsFiniteSet(Workers)
  PROVE  Spec => []NoDeadlock
<1>1. Init => TypeOK /\ WaitInv
  BY InitType, InitWait
<1>2. TypeOK /\ WaitInv /\ [Next]_vars => (TypeOK /\ WaitInv)'
  BY NextType, NextWait
<1>3. TypeOK /\ WaitInv => NoDeadlock
  BY SomebodyGoes
<1> QED BY <1>1, <1>2, <1>3, PTL DEF Spec

\* Nobody but a worker itself moves its goroutine.
LEMMA OnlyItselfMoves ==
  ASSUME TypeOK, WaitInv, NEW k \in Workers, Alive(k), Next, ~WorkerStep(k)
  PROVE  worker'[k].at = worker[k].at
<1>1. ASSUME ~panicked PROVE worker[k].running /\ worker[k].at \notin {"new", "done"}
  BY <1>1 DEF Alive, WaitInv, Waiting, Tended
<1>2. ASSUME NEW j \in Workers, WorkerStep(j) PROVE worker'[k].at = worker[k].at
  BY <1>2, WorkerMoves
<1>3. ASSUME NEW g \in Goroutines, Step(g) PROVE worker'[k].at = worker[k].at
  <2> ~panicked
    BY <1>3 DEF Step
  <2>1. CASE CreateWorker(g)
    <3>1. PICK j \in Workers : Unused(j) /\ worker' = [worker EXCEPT ![j] = NewWorker]
      BY <2>1 DEF CreateWorker
    <3>2. j # k
      BY <1>1, <3>1 DEF Unused
    <3> QED BY <1>1, <3>1, <3>2 DEF TypeOK
  <2>2. CASE RunWorker(g)
    <3>1. \/ worker' = worker
          \/ /\ slot \in Workers /\ ~worker[slot].running
             /\ worker' = [worker EXCEPT ![slot] =
                              [at |-> "loop", running |-> TRUE, closed |-> FALSE]]
      BY <2>2 DEF RunWorker, engine, TypeOK
    <3> QED BY <1>1, <3>1 DEF TypeOK
  <2>3. CASE StopWorker(g)
    BY <1>1, <2>3 DEF StopWorker, TypeOK, WorkerStates
  <2>4. CASE AwaitWorker(g)
    BY <1>1, <2>4 DEF AwaitWorker, TypeOK, WorkerStates
  <2>5. CASE ~(CreateWorker(g) \/ RunWorker(g) \/ StopWorker(g) \/ AwaitWorker(g))
    <3>1. worker' = worker
      BY <1>3, <2>5 DEF Step, Unlock, Lock, RestoreToStakingOnly, ChangePassphrase, EncryptWallet,
        NotifyBlocks, OnUnlock, BeginStaking, CompareAndSwap, CheckUnlocked, LoadActive,
        StoreInactive, FetchWorker, ClearWorker, engine
    <3> QED BY <1>1, <3>1
  <2> QED BY <2>1, <2>2, <2>3, <2>4, <2>5
<1>4. ASSUME NEW g \in Goroutines,
             \/ \E step \in WriterSteps : CallWallet(g, step)
             \/ \E value \in BOOLEAN : SetEnabled(g, value)
             \/ Shutdown(g) \/ AutoLockFires(g)
      PROVE  worker'[k].at = worker[k].at
  BY <1>1, <1>4 DEF CallWallet, SetEnabled, Shutdown, AutoLockFires, engine
<1> QED BY <1>2, <1>3, <1>4 DEF Next

\* A reader that waits behind a writer stays where it is, and so does the writer,
\* which waits for that reader.
LEMMA StuckStays == TypeOK /\ WaitInv /\ Stuck /\ [Next]_vars => Stuck'
<1> SUFFICES ASSUME TypeOK, WaitInv, Stuck, [Next]_vars PROVE Stuck'
  OBVIOUS
<1>1. ~CanRLock /\ ~CanLock
  BY DEF Stuck, CanRLock, CanLock
<1>2. CASE UNCHANGED vars
  BY <1>2 DEF vars, engine, Stuck, Readers, WriterWaits
<1>3. CASE Next
  <2>1. ASSUME NEW k \in Workers, worker[k].at \in {"signing", "submit"}
        PROVE  worker'[k].at = worker[k].at
    <3>1. ~WorkerStep(k)
      BY <1>1, <2>1 DEF WorkerStep, FindKernel, TakeReadLock, SignCoinstake, SubmitBlock,
                        WorkerStops, At
    <3> QED BY <1>3, <2>1, <3>1, OnlyItselfMoves DEF Alive
  <2>2. ASSUME NEW h \in Goroutines, pc[h] \in WriterSteps PROVE pc'[h] = pc[h]
    <3>1. ASSUME NEW g \in Goroutines, Step(g) PROVE g # h
      BY <1>1, <2>2, <3>1 DEF Step, Unlock, Lock, RestoreToStakingOnly, ChangePassphrase,
         EncryptWallet, NotifyBlocks, OnUnlock, BeginStaking, CompareAndSwap, CheckUnlocked,
         CreateWorker, RunWorker, LoadActive, StoreInactive, FetchWorker, StopWorker, AwaitWorker,
         ClearWorker, WriterSteps
    <3>2. ASSUME NEW g \in Goroutines, Step(g) PROVE pc'[h] = pc[h]
      BY <3>1, <3>2 DEF Step, Unlock, Lock, RestoreToStakingOnly, ChangePassphrase,
         EncryptWallet, NotifyBlocks, OnUnlock, BeginStaking, CompareAndSwap, CheckUnlocked,
         CreateWorker, RunWorker, LoadActive, StoreInactive, FetchWorker, StopWorker, AwaitWorker,
         ClearWorker, Return, Goto, TypeOK
    <3>3. ASSUME NEW g \in Goroutines,
                 \/ \E step \in WriterSteps : CallWallet(g, step)
                 \/ \E value \in BOOLEAN : SetEnabled(g, value)
                 \/ Shutdown(g) \/ AutoLockFires(g)
          PROVE  pc'[h] = pc[h]
      BY <2>2, <3>3 DEF CallWallet, SetEnabled, Shutdown, AutoLockFires, NewCall, Goto, TypeOK,
                        WriterSteps
    <3>4. ASSUME NEW k \in Workers, WorkerStep(k) PROVE pc'[h] = pc[h]
      BY <3>4, WorkerMoves
    <3> QED BY <1>3, <3>2, <3>3, <3>4 DEF Next
  <2>3. Readers' # {}
    BY <2>1 DEF Stuck, Readers
  <2>4. WriterWaits'
    BY <2>1, <2>2 DEF Stuck, WriterWaits
  <2> QED BY <2>3, <2>4 DEF Stuck
<1> QED BY <1>2, <1>3

\* The worker's second read lock behind a waiting writer is no delay but the end:
\* no call, timer or worker takes the node out of it.
THEOREM StuckForEver == Spec => [][Stuck => Stuck']_vars
<1>1. Init => TypeOK /\ WaitInv
  BY InitType, InitWait
<1>2. TypeOK /\ WaitInv /\ [Next]_vars => (TypeOK /\ WaitInv)'
  BY NextType, NextWait
<1>3. TypeOK /\ WaitInv /\ [Next]_vars => [Stuck => Stuck']_vars
  BY StuckStays
<1> QED BY <1>1, <1>2, <1>3, PTL DEF Spec
=============================================================================
