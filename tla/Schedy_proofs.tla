--------------------------- MODULE Schedy_proofs ----------------------------
(***************************************************************************)
(* The steps of Schedy preserve its invariant and are steps of TaskPool,   *)
(* whichever policy finds the tasks: what the theorems about SchedRR,      *)
(* SchedMLFQ and SchedCFS have in common.                                  *)
(***************************************************************************)
EXTENDS SchedyInvariant, DataTheorems

USE DEF TryLock, UnlockTask, ClearWorker, OnFinish, Fail, slotVars, mainVars,
        restVars

(* The steps of the main thread, under any policy.                         *)
MainStep == CoreMain \/ Reinit \/ \E t \in Tasks : MainSubmit(t)

-----------------------------------------------------------------------------
(* Types.                                                                  *)

LEMMA CoreTypePreserved ==
  ASSUME CoreTypeOK, NEW w \in Workers, CoreWorker(w)
  PROVE  CoreTypeOK'
<1> USE DEF CoreTypeOK, taskVars, workerVars, Step, ProgramPoints, OwnsCur,
            OnFiber, Submitting, Contexts, States
<1>1. CASE SwitchTo(w)
  BY <1>1 DEF SwitchTo
<1>2. CASE TaskYield(w)
  BY <1>2 DEF TaskYield, SwitchToScheduler
<1>3. CASE TaskExit(w)
  <2>1. finished' \in [Workers -> Nat]
    <3>1. \A v \in Workers : finished[v] + 1 \in Nat
      OBVIOUS
    <3>2. finished' = [finished EXCEPT ![worker[cur[w]]] = @ + 1]
      BY <1>3 DEF TaskExit
    <3>. QED  BY <3>1, <3>2
  <2>3. state' \in [Tasks -> States]
    BY <1>3 DEF TaskExit
  <2>2. /\ thread' \in [Tasks -> Contexts]
        /\ worker' \in [Tasks -> Workers \cup {NULL}]
        /\ pc' \in [Workers -> ProgramPoints]
    BY <1>3 DEF TaskExit, SwitchToScheduler
  <2>. QED  BY <1>3, <2>1, <2>2, <2>3 DEF TaskExit
<1>4. CASE TaskSubmit(w)
  BY <1>4, SchedyAssumption DEF TaskSubmit
<1>5. CASE SubmitTryLock(w)
  BY <1>5, SchedyAssumption DEF SubmitTryLock
<1>6. CASE SubmitFill(w)
  <2>1. /\ thread' \in [Tasks -> Contexts]
        /\ state' \in [Tasks -> States]
    BY <1>6 DEF SubmitFill, Fill
  <2>2. pc' \in [Workers -> ProgramPoints]
    BY <1>6 DEF SubmitFill, CallPolicy
  <2>. QED  BY <1>6, <2>1, <2>2 DEF SubmitFill
<1>7. CASE SubmitSkip(w)
  <2>1. idx' \in [Workers -> Nat]
    BY <1>7 DEF SubmitSkip
  <2>2. /\ lock' \in [Tasks -> Workers \cup {NULL}]
        /\ pc' \in [Workers -> ProgramPoints]
    BY <1>7 DEF SubmitSkip
  <2>. QED  BY <1>7, <2>1, <2>2 DEF SubmitSkip
<1>8. CASE SubmitRetry(w)
  BY <1>8 DEF SubmitRetry
<1>9. CASE Submitted(w)
  BY <1>9 DEF Submitted
<1>10. CASE Unlock(w)
  BY <1>10 DEF Unlock
<1>11. CASE ReleaseFinished(w)
  BY <1>11 DEF ReleaseFinished
<1>12. CASE ReleaseYielded(w)
  BY <1>12 DEF ReleaseYielded, CallPolicy
<1>. QED  BY <1>1, <1>2, <1>3, <1>4, <1>5, <1>6, <1>7, <1>8, <1>9, <1>10,
             <1>11, <1>12 DEF CoreWorker

LEMMA CoreMainTypePreserved ==
  ASSUME CoreTypeOK, MainStep
  PROVE  CoreTypeOK'
<1> USE SchedyAssumption
    DEF CoreTypeOK, taskVars, workerVars, Step, ProgramPoints, OwnsCur,
        Contexts, States
<1>1. CASE MainAbort
  BY <1>1 DEF MainAbort
<1>2. CASE Wait
  BY <1>2 DEF Wait
<1>3. CASE Destroy
  BY <1>3 DEF Destroy
<1>4. ASSUME NEW w \in Workers, StartWorker(w) PROVE CoreTypeOK'
  BY <1>4 DEF StartWorker
<1>5. CASE Reinit
  BY <1>5 DEF Reinit, Workers
<1>6. ASSUME NEW t \in Tasks, MainSubmit(t) PROVE CoreTypeOK'
  BY <1>6 DEF MainSubmit, Fill
<1>. QED  BY <1>1, <1>2, <1>3, <1>4, <1>5, <1>6 DEF MainStep, CoreMain

-----------------------------------------------------------------------------
(* Locks.                                                                  *)

LEMMA CoreLockInv ==
  ASSUME LockInv, NEW w \in Workers, CoreWorker(w)
  PROVE  LockInv'
<1> USE SchedyAssumption
    DEF LockInv, CoreTypeOK, taskVars, workerVars, Step, OwnsCur,
        OwnsSlot, OnFiber, Submitting
<1>0. CoreTypeOK'
  BY CoreTypePreserved
<1>1. CASE SwitchTo(w)
  <2>1. LocalsInv'
    BY <1>1 DEF SwitchTo, LocalsInv, MutualExclusion, Holds
  <2>2. MutualExclusion'
    BY <1>1 DEF SwitchTo, LocalsInv, MutualExclusion, Holds
  <2>. QED  BY <2>1, <2>2, <1>0
<1>2. CASE TaskYield(w)
  <2>1. LocalsInv'
    BY <1>2 DEF TaskYield, SwitchToScheduler, LocalsInv
  <2>2. MutualExclusion'
    BY <1>2 DEF TaskYield, SwitchToScheduler, LocalsInv, MutualExclusion, Holds
  <2>. QED  BY <2>1, <2>2, <1>0
<1>3. CASE TaskExit(w)
  <2>1. LocalsInv'
    BY <1>3 DEF TaskExit, SwitchToScheduler, LocalsInv
  <2>2. MutualExclusion'
    BY <1>3 DEF TaskExit, SwitchToScheduler, LocalsInv, MutualExclusion, Holds
  <2>. QED  BY <2>1, <2>2, <1>0
<1>4. CASE TaskSubmit(w)
  <2>1. LocalsInv'
    BY <1>4 DEF TaskSubmit, LocalsInv
  <2>2. MutualExclusion'
    BY <1>4 DEF TaskSubmit, LocalsInv, MutualExclusion, Holds
  <2>. QED  BY <2>1, <2>2, <1>0
<1>5. CASE SubmitTryLock(w)
  <2>1. LocalsInv'
    <3>1. idx[w] \in Tasks
      BY <1>5 DEF SubmitTryLock, Tasks
    <3>2. CASE lock[idx[w]] # NULL
      <4>1. idx[w] + 1 \in 0 .. LIMIT
        BY <3>1 DEF Tasks
      <4>2. /\ pc' = pc /\ cur' = cur /\ worker' = worker
            /\ idx' = [idx EXCEPT ![w] = idx[w] + 1]
            /\ pc[w] = "submit"
        BY <1>5, <3>2 DEF SubmitTryLock
      <4>. QED  BY <4>1, <4>2 DEF LocalsInv
    <3>3. CASE lock[idx[w]] = NULL
      <4>1. idx[w] # cur[w]
        BY <1>5, <3>1, <3>3 DEF SubmitTryLock, LocalsInv, MutualExclusion, Holds,
           Workers
      <4>. QED  BY <1>5, <3>1, <3>3, <4>1 DEF SubmitTryLock, LocalsInv
    <3>. QED  BY <3>2, <3>3
  <2>2. MutualExclusion'
    BY <1>5 DEF SubmitTryLock, LocalsInv, MutualExclusion, Holds
  <2>. QED  BY <2>1, <2>2, <1>0
<1>6. CASE SubmitFill(w)
  <2>1. LocalsInv'
    BY <1>6 DEF SubmitFill, Fill, CallPolicy, LocalsInv
  <2>2. MutualExclusion'
    BY <1>6 DEF SubmitFill, Fill, CallPolicy, LocalsInv, MutualExclusion, Holds
  <2>. QED  BY <2>1, <2>2, <1>0
<1>7. CASE SubmitSkip(w)
  <2>1. LocalsInv'
    BY <1>7 DEF SubmitSkip, LocalsInv, Tasks
  <2>2. MutualExclusion'
    BY <1>7 DEF SubmitSkip, LocalsInv, MutualExclusion, Holds
  <2>. QED  BY <2>1, <2>2, <1>0
<1>8. CASE SubmitRetry(w)
  <2>1. LocalsInv'
    BY <1>8 DEF SubmitRetry, LocalsInv
  <2>2. MutualExclusion'
    BY <1>8 DEF SubmitRetry, LocalsInv, MutualExclusion, Holds
  <2>. QED  BY <2>1, <2>2, <1>0
<1>9. CASE Submitted(w)
  <2>1. LocalsInv'
    BY <1>9 DEF Submitted, LocalsInv
  <2>2. MutualExclusion'
    BY <1>9 DEF Submitted, LocalsInv, MutualExclusion, Holds
  <2>. QED  BY <2>1, <2>2, <1>0
<1>10. CASE Unlock(w)
  <2>1. LocalsInv'
    BY <1>10 DEF Unlock, LocalsInv
  <2>2. MutualExclusion'
    BY <1>10 DEF Unlock, LocalsInv, MutualExclusion, Holds
  <2>. QED  BY <2>1, <2>2, <1>0
<1>11. CASE ReleaseFinished(w)
  <2>1. LocalsInv'
    BY <1>11 DEF ReleaseFinished, LocalsInv, MutualExclusion, Holds
  <2>2. MutualExclusion'
    BY <1>11 DEF ReleaseFinished, LocalsInv, MutualExclusion, Holds
  <2>. QED  BY <2>1, <2>2, <1>0
<1>12. CASE ReleaseYielded(w)
  <2>1. LocalsInv'
    BY <1>12 DEF ReleaseYielded, CallPolicy, LocalsInv, MutualExclusion, Holds
  <2>2. MutualExclusion'
    BY <1>12 DEF ReleaseYielded, CallPolicy, LocalsInv, MutualExclusion, Holds
  <2>. QED  BY <2>1, <2>2, <1>0
<1>. QED  BY <1>1, <1>2, <1>3, <1>4, <1>5, <1>6, <1>7, <1>8, <1>9, <1>10, <1>11, <1>12 DEF CoreWorker

LEMMA MainLockInv == ASSUME LockInv, MainStep PROVE LockInv'
<1> USE SchedyAssumption
    DEF LockInv, LocalsInv, MutualExclusion, Holds, taskVars, workerVars, Step,
        OwnsCur, OwnsSlot, OnFiber, Submitting
<1>1. CoreTypeOK'
  BY CoreMainTypePreserved
<1>2. CASE MainAbort \/ Wait \/ Destroy
  BY <1>1, <1>2 DEF MainAbort, Wait, Destroy
<1>3. ASSUME NEW w \in Workers, StartWorker(w) PROVE LockInv'
  BY <1>1, <1>3 DEF StartWorker, CoreTypeOK
<1>4. ASSUME NEW t \in Tasks, MainSubmit(t) PROVE LockInv'
  BY <1>1, <1>4 DEF MainSubmit, Fill
<1>5. CASE Reinit
  BY <1>1, <1>5 DEF Reinit
<1>. QED  BY <1>2, <1>3, <1>4, <1>5 DEF MainStep, CoreMain

-----------------------------------------------------------------------------
(* Slots and their contexts.                                               *)

LEMMA CoreStateInv ==
  ASSUME StateInv, NEW w \in Workers, CoreWorker(w)
  PROVE  StateInv'
<1> USE SchedyAssumption
    DEF StateInv, LockInv, LocalsInv, MutualExclusion, Holds, CoreTypeOK,
        taskVars, workerVars, Step, OwnsCur, OwnsSlot, OnFiber,
        Submitting, Resting
<1>0. LockInv'
  BY CoreLockInv DEF StateInv
<1>1. CASE SwitchTo(w)
  <2>1. SlotInv'
    BY <1>1 DEF SwitchTo, SlotInv, WorkerInv, IsReady
  <2>2. WorkerInv'
    BY <1>1 DEF SwitchTo, SlotInv, WorkerInv, IsReady, IsFree
  <2>3. MainInv'
    BY <1>1 DEF SwitchTo, MainInv
  <2>. QED  BY <2>1, <2>2, <2>3, <1>0
<1>2. CASE TaskYield(w)
  <2>1. SlotInv'
    BY <1>2 DEF TaskYield, SwitchToScheduler, SlotInv, WorkerInv, IsReady
  <2>2. WorkerInv'
    BY <1>2 DEF TaskYield, SwitchToScheduler, SlotInv, WorkerInv, IsReady, IsFree
  <2>3. MainInv'
    BY <1>2 DEF TaskYield, SwitchToScheduler, MainInv
  <2>. QED  BY <2>1, <2>2, <2>3, <1>0
<1>3. CASE TaskExit(w)
  <2>1. SlotInv'
    BY <1>3 DEF TaskExit, SwitchToScheduler, SlotInv, WorkerInv, IsReady
  <2>2. WorkerInv'
    BY <1>3 DEF TaskExit, SwitchToScheduler, SlotInv, WorkerInv, IsReady, IsFree
  <2>3. MainInv'
    BY <1>3 DEF TaskExit, SwitchToScheduler, MainInv
  <2>. QED  BY <2>1, <2>2, <2>3, <1>0
<1>4. CASE TaskSubmit(w)
  <2>1. SlotInv'
    BY <1>4 DEF TaskSubmit, SlotInv, WorkerInv, IsReady
  <2>2. WorkerInv'
    BY <1>4 DEF TaskSubmit, SlotInv, WorkerInv, IsReady, IsFree
  <2>3. MainInv'
    BY <1>4 DEF TaskSubmit, MainInv
  <2>. QED  BY <2>1, <2>2, <2>3, <1>0
<1>5. CASE SubmitTryLock(w)
  <2>1. SlotInv'
    BY <1>5 DEF SubmitTryLock, SlotInv, WorkerInv, IsReady
  <2>2. WorkerInv'
    <3>1. CASE lock[idx[w]] # NULL
      BY <1>5, <3>1 DEF SubmitTryLock, WorkerInv, IsReady
    <3>2. CASE lock[idx[w]] = NULL
      <4>1. Resting(idx[w])
        BY <1>5, <3>2 DEF SubmitTryLock, SlotInv, Tasks
      <4>. QED  BY <1>5, <3>2, <4>1 DEF SubmitTryLock, WorkerInv, IsReady
    <3>. QED  BY <3>1, <3>2
  <2>3. MainInv'
    BY <1>5 DEF SubmitTryLock, MainInv
  <2>. QED  BY <2>1, <2>2, <2>3, <1>0
<1>6. CASE SubmitFill(w)
  <2>1. SlotInv'
    BY <1>6 DEF SubmitFill, Fill, CallPolicy, SlotInv, WorkerInv, IsReady
  <2>2. WorkerInv'
    BY <1>6 DEF SubmitFill, Fill, CallPolicy, SlotInv, WorkerInv, IsReady, IsFree
  <2>3. MainInv'
    BY <1>6 DEF SubmitFill, Fill, CallPolicy, MainInv
  <2>. QED  BY <2>1, <2>2, <2>3, <1>0
<1>7. CASE SubmitSkip(w)
  <2>1. SlotInv'
    BY <1>7 DEF SubmitSkip, SlotInv, WorkerInv, IsReady
  <2>2. WorkerInv'
    BY <1>7 DEF SubmitSkip, SlotInv, WorkerInv, IsReady, IsFree
  <2>3. MainInv'
    BY <1>7 DEF SubmitSkip, MainInv
  <2>. QED  BY <2>1, <2>2, <2>3, <1>0
<1>8. CASE SubmitRetry(w)
  <2>1. SlotInv'
    BY <1>8 DEF SubmitRetry, SlotInv, WorkerInv, IsReady
  <2>2. WorkerInv'
    BY <1>8 DEF SubmitRetry, SlotInv, WorkerInv, IsReady, IsFree
  <2>3. MainInv'
    BY <1>8 DEF SubmitRetry, MainInv
  <2>. QED  BY <2>1, <2>2, <2>3, <1>0
<1>9. CASE Submitted(w)
  <2>1. SlotInv'
    BY <1>9 DEF Submitted, SlotInv, WorkerInv, IsReady
  <2>2. WorkerInv'
    BY <1>9 DEF Submitted, SlotInv, WorkerInv, IsReady, IsFree
  <2>3. MainInv'
    BY <1>9 DEF Submitted, MainInv
  <2>. QED  BY <2>1, <2>2, <2>3, <1>0
<1>10. CASE Unlock(w)
  <2>1. SlotInv'
    BY <1>10 DEF Unlock, SlotInv, WorkerInv, IsReady
  <2>2. WorkerInv'
    BY <1>10 DEF Unlock, SlotInv, WorkerInv, IsReady, IsFree
  <2>3. MainInv'
    BY <1>10 DEF Unlock, MainInv
  <2>. QED  BY <2>1, <2>2, <2>3, <1>0
<1>11. CASE ReleaseFinished(w)
  <2>1. SlotInv'
    BY <1>11 DEF ReleaseFinished, SlotInv, WorkerInv, IsReady
  <2>2. WorkerInv'
    BY <1>11 DEF ReleaseFinished, SlotInv, WorkerInv, IsReady, IsFree
  <2>3. MainInv'
    BY <1>11 DEF ReleaseFinished, MainInv
  <2>. QED  BY <2>1, <2>2, <2>3, <1>0
<1>12. CASE ReleaseYielded(w)
  <2>1. SlotInv'
    BY <1>12 DEF ReleaseYielded, CallPolicy, SlotInv, WorkerInv, IsReady
  <2>2. WorkerInv'
    BY <1>12 DEF ReleaseYielded, CallPolicy, SlotInv, WorkerInv, IsReady, IsFree
  <2>3. MainInv'
    BY <1>12 DEF ReleaseYielded, CallPolicy, MainInv
  <2>. QED  BY <2>1, <2>2, <2>3, <1>0
<1>. QED  BY <1>1, <1>2, <1>3, <1>4, <1>5, <1>6, <1>7, <1>8, <1>9, <1>10, <1>11, <1>12 DEF CoreWorker

LEMMA MainStateInv == ASSUME StateInv, MainStep PROVE StateInv'
<1> USE SchedyAssumption
    DEF StateInv, LockInv, CoreTypeOK, SlotInv, WorkerInv, MainInv, taskVars,
        workerVars, Step, OwnsCur, OwnsSlot, OnFiber, Submitting, Resting,
        IsReady
<1>1. LockInv'
  BY MainLockInv
<1>2. SlotInv' /\ WorkerInv' /\ MainInv'
  <2>1. CASE MainAbort \/ Wait
    BY <2>1 DEF MainAbort, Wait
  <2>2. CASE Destroy
    BY <2>2 DEF Destroy
  <2>3. ASSUME NEW w \in Workers, StartWorker(w)
        PROVE  SlotInv' /\ WorkerInv' /\ MainInv'
    BY <2>3 DEF StartWorker
  <2>4. ASSUME NEW t \in Tasks, MainSubmit(t)
        PROVE  SlotInv' /\ WorkerInv' /\ MainInv'
    BY <2>4 DEF MainSubmit, Fill, IsFree
  <2>5. CASE Reinit
    BY <2>5 DEF Reinit
  <2>. QED  BY <2>1, <2>2, <2>3, <2>4, <2>5 DEF MainStep, CoreMain
<1>. QED  BY <1>1, <1>2

LEMMA StutterStateInv == ASSUME StateInv, UNCHANGED coreVars PROVE StateInv'
BY DEF coreVars, taskVars, workerVars, StateInv, LockInv, CoreTypeOK, LocalsInv,
   MutualExclusion, Holds, SlotInv, WorkerInv, MainInv, Resting, IsReady

LEMMA InitStateInv == CoreInit => StateInv
<1> SUFFICES ASSUME CoreInit PROVE StateInv
  OBVIOUS
<1>1. CoreTypeOK
  BY SchedyAssumption DEF CoreInit, CoreTypeOK, Contexts, States,
     ProgramPoints, OwnsCur, OnFiber, Submitting, Tasks, Workers
<1>2. LocalsInv /\ MutualExclusion
  BY SchedyAssumption DEF CoreInit, LocalsInv, MutualExclusion, Holds, OwnsCur,
     OwnsSlot, OnFiber, Submitting, Workers, Tasks
<1>3. SlotInv /\ WorkerInv /\ MainInv
  BY SchedyAssumption DEF CoreInit, SlotInv, WorkerInv, MainInv, Resting,
     OwnsSlot, OnFiber, Submitting, Workers, Tasks
<1>. QED  BY <1>1, <1>2, <1>3 DEF StateInv, LockInv

LEMMA StateMeansReady == StateInv => SwitchTargetReady
BY DEF StateInv, WorkerInv, SlotInv, MainInv, SwitchTargetReady, IsReady,
   LockInv, LocalsInv, OwnsCur

LEMMA StateMeansPointers == StateInv => WorkerPointer
BY DEF StateInv, WorkerInv, SlotInv, WorkerPointer, LockInv, LocalsInv,
   CoreTypeOK

-----------------------------------------------------------------------------
(* The pool of tasks that a caller sees.                                   *)

LEMMA StutterRefines ==
  ASSUME state' = state, mpc' = mpc,
         \A t \in Tasks :
           state[t] \in {"RUNNING", "FINISHED"} => lock'[t] = lock[t]
  PROVE  UNCHANGED Pool!poolVars
BY DEF Pool!poolVars, PoolStatus, PoolRunner, PoolWaited

(* A slot changes its state, everything else stays.                        *)
LEMMA MoveRefines ==
  ASSUME CoreTypeOK, lock' = lock, mpc' = mpc,
         mpc \notin {"joined", "destroyed"},
         NEW t \in Tasks, NEW s \in States,
         state' = [state EXCEPT ![t] = s]
  PROVE  Pool!Move(t, PoolStatus[t], PoolStatus'[t], PoolRunner'[t])
BY DEF Pool!Move, PoolStatus, PoolRunner, PoolWaited, CoreTypeOK

LEMMA NotWaited ==
  ASSUME StateInv, NEW w \in Workers, pc[w] # "exited"
  PROVE  mpc \notin {"joined", "destroyed"}
BY DEF StateInv, MainInv

LEMMA CoreRefines ==
  ASSUME StateInv, NEW w \in Workers, CoreWorker(w)
  PROVE  Pool!Operate \/ UNCHANGED Pool!poolVars
<1> DEFINE t == cur[w]
<1> USE DEF Step, States
<1>1. CASE SwitchTo(w)
  <2>1. /\ t \in Tasks /\ state[t] = "RUNNABLE" /\ lock[t] = w
        /\ pc[w] = "switch"
    BY <1>1 DEF SwitchTo, StateInv, LockInv, LocalsInv, MutualExclusion,
       Holds, OwnsCur, WorkerInv, IsReady
  <2>2. \A s \in Tasks : PoolRunner[s] # w
    <3> SUFFICES ASSUME NEW s \in Tasks, PoolRunner[s] = w PROVE FALSE
      OBVIOUS
    <3>1. ~Resting(s) /\ lock[s] = w
      BY SchedyAssumption DEF PoolRunner, Resting
    <3>. QED  BY <2>1, <3>1 DEF StateInv, SlotInv, OnFiber, Submitting
  <2>3. Pool!Move(t, PoolStatus[t], PoolStatus'[t], PoolRunner'[t])
    BY <1>1, <2>1, MoveRefines, NotWaited DEF SwitchTo, StateInv, LockInv
  <2>4. /\ PoolStatus[t] = "ready" /\ PoolStatus'[t] = "running"
        /\ PoolRunner'[t] = w
    BY <1>1, <2>1
    DEF SwitchTo, PoolStatus, PoolRunner, StateInv, LockInv, CoreTypeOK
  <2>5. Pool!Start(t, w)
    BY <2>2, <2>3, <2>4 DEF Pool!Start
  <2>. QED  BY <2>1, <2>5 DEF Pool!Operate
<1>2. CASE TaskYield(w)
  BY <1>2, StutterRefines DEF TaskYield
<1>3. CASE TaskExit(w)
  <2>1. t \in Tasks /\ state[t] = "RUNNING"
    BY <1>3 DEF TaskExit, StateInv, LockInv, LocalsInv, WorkerInv, OwnsCur,
       OnFiber
  <2>2. state' = [state EXCEPT ![t] = "FINISHED"] /\ lock' = lock /\ mpc' = mpc
    BY <1>3 DEF TaskExit
  <2>3. PoolStatus' = PoolStatus /\ PoolRunner' = PoolRunner
    BY <2>1, <2>2
    DEF PoolStatus, PoolRunner, StateInv, LockInv, CoreTypeOK
  <2>. QED  BY <2>2, <2>3 DEF Pool!poolVars, PoolWaited
<1>4. CASE TaskSubmit(w) \/ SubmitRetry(w)
  BY <1>4, StutterRefines DEF TaskSubmit, SubmitRetry, taskVars
<1>5. CASE SubmitTryLock(w)
  <2>1. state' = state /\ mpc' = mpc
    BY <1>5 DEF SubmitTryLock
  <2>2. ASSUME NEW s \in Tasks, state[s] \in {"RUNNING", "FINISHED"}
        PROVE  lock'[s] = lock[s]
    BY <1>5, <2>2, SchedyAssumption
    DEF SubmitTryLock, StateInv, LockInv, CoreTypeOK, SlotInv, Resting
  <2>. QED  BY <2>1, <2>2, StutterRefines
<1>6. CASE SubmitFill(w)
  <2>1. /\ idx[w] \in Tasks /\ state[idx[w]] = "ZOMBIE" /\ pc[w] = "fill"
    BY <1>6 DEF SubmitFill, StateInv, LockInv, LocalsInv, WorkerInv, OwnsSlot,
       Resting, IsFree, SlotInv, MainInv
  <2>2. Pool!Move(idx[w], PoolStatus[idx[w]], PoolStatus'[idx[w]],
                  PoolRunner'[idx[w]])
    BY <1>6, <2>1, MoveRefines, NotWaited
    DEF SubmitFill, Fill, StateInv, LockInv
  <2>3. /\ PoolStatus[idx[w]] = "idle" /\ PoolStatus'[idx[w]] = "ready"
        /\ PoolRunner'[idx[w]] = NULL
    BY <1>6, <2>1
    DEF SubmitFill, Fill, PoolStatus, PoolRunner, StateInv, LockInv, CoreTypeOK
  <2>. QED  BY <2>1, <2>2, <2>3 DEF Pool!Operate, Pool!Submit
<1>7. CASE SubmitSkip(w) \/ Submitted(w)
  <2>1. state' = state /\ mpc' = mpc /\ lock' = [lock EXCEPT ![idx[w]] = NULL]
    BY <1>7 DEF SubmitSkip, Submitted
  <2>2. Resting(idx[w])
    BY <1>7 DEF SubmitSkip, Submitted, StateInv, WorkerInv, OwnsSlot
  <2>. QED  BY <2>1, <2>2, StutterRefines
       DEF Resting, StateInv, LockInv, CoreTypeOK
<1>8. CASE Unlock(w)
  <2>1. state' = state /\ mpc' = mpc /\ lock' = [lock EXCEPT ![t] = NULL]
    BY <1>8 DEF Unlock
  <2>2. Resting(t)
    BY <1>8 DEF Unlock, StateInv, WorkerInv
  <2>. QED  BY <2>1, <2>2, StutterRefines
       DEF Resting, StateInv, LockInv, CoreTypeOK
<1>9. CASE ReleaseFinished(w) \/ ReleaseYielded(w)
  <2>1. /\ t \in Tasks /\ state[t] \in {"RUNNING", "FINISHED"}
        /\ pc[w] = "release"
    BY <1>9 DEF ReleaseFinished, ReleaseYielded, StateInv, LockInv, LocalsInv,
       WorkerInv, OwnsCur
  <2>2. PICK s \in {"RUNNABLE", "ZOMBIE"} :
          state' = [state EXCEPT ![t] = s] /\ lock' = lock /\ mpc' = mpc
    BY <1>9 DEF ReleaseFinished, ReleaseYielded
  <2>3. Pool!Move(t, PoolStatus[t], PoolStatus'[t], PoolRunner'[t])
    BY <2>1, <2>2, MoveRefines, NotWaited DEF StateInv, LockInv
  <2>4. /\ PoolStatus[t] = "running" /\ PoolStatus'[t] \in {"ready", "idle"}
        /\ PoolRunner'[t] = NULL
    BY <2>1, <2>2
    DEF PoolStatus, PoolRunner, StateInv, LockInv, CoreTypeOK
  <2>. QED  BY <2>1, <2>3, <2>4
       DEF Pool!Operate, Pool!Yield, Pool!Finish
<1>. QED  BY <1>1, <1>2, <1>3, <1>4, <1>5, <1>6, <1>7, <1>8, <1>9
          DEF CoreWorker

(* Neither Wait nor Reinit: those close and reopen the pool.               *)
LEMMA MainRefines ==
  ASSUME StateInv, NEW t \in Tasks, MainSubmit(t)
  PROVE  Pool!Operate
<1>1. state[t] = "ZOMBIE" /\ mpc = "submit"
  BY SchedyAssumption
  DEF MainSubmit, IsFree, StateInv, SlotInv, MainInv, Resting, OnFiber,
      Submitting, LockInv, CoreTypeOK, States
<1>2. Pool!Move(t, PoolStatus[t], PoolStatus'[t], PoolRunner'[t])
  BY <1>1, MoveRefines DEF MainSubmit, Fill, StateInv, LockInv, States
<1>3. /\ PoolStatus[t] = "idle" /\ PoolStatus'[t] = "ready"
      /\ PoolRunner'[t] = NULL
  BY <1>1
  DEF MainSubmit, Fill, PoolStatus, PoolRunner, StateInv, LockInv, CoreTypeOK
<1>. QED  BY <1>2, <1>3 DEF Pool!Operate, Pool!Submit

LEMMA QuietMainRefines ==
  ASSUME CoreMain, ~Wait
  PROVE  UNCHANGED Pool!poolVars
<1>1. CASE MainAbort \/ \E w \in Workers : StartWorker(w)
  BY <1>1 DEF MainAbort, StartWorker, Pool!poolVars, PoolStatus, PoolRunner,
     PoolWaited, taskVars
<1>2. CASE Destroy
  BY <1>2 DEF Destroy, Pool!poolVars, PoolStatus, PoolRunner, PoolWaited
<1>. QED  BY <1>1, <1>2 DEF CoreMain

LEMMA IdleRefines ==
  ASSUME UNCHANGED coreVars PROVE UNCHANGED Pool!poolVars
BY DEF coreVars, taskVars, Pool!poolVars, PoolStatus, PoolRunner, PoolWaited

LEMMA InitRefines == CoreInit => Pool!Init
BY DEF CoreInit, Pool!Init, PoolStatus, PoolRunner, PoolWaited

-----------------------------------------------------------------------------
(* The count of submissions.                                               *)

Looking == {w \in Workers : pc[w] \in {"submit", "fill", "abort"}}
Live == {t \in Tasks : state[t] \in {"RUNNABLE", "RUNNING"}}
Counted == Cardinality(Looking) + Cardinality(Live) + SumFunction(finished)

LEMMA FiniteParts ==
  /\ IsFiniteSet(Workers) /\ IsFiniteSet(Tasks)
  /\ IsFiniteSet(Looking) /\ Cardinality(Looking) \in Nat
  /\ IsFiniteSet(Live) /\ Cardinality(Live) \in Nat
<1>1. IsFiniteSet(Workers) /\ IsFiniteSet(Tasks)
  BY FS_Interval, SchedyAssumption DEF Workers, Tasks
<1>2. Looking \in SUBSET Workers /\ Live \in SUBSET Tasks
  BY DEF Looking, Live
<1>3. IsFiniteSet(Looking) /\ IsFiniteSet(Live)
  BY <1>1, <1>2, FS_Subset
<1>. QED  BY <1>1, <1>3, FS_CardinalityType

LEMMA FinishedSum == CoreTypeOK => SumFunction(finished) \in Int
<1>. SUFFICES ASSUME CoreTypeOK PROVE SumFunction(finished) \in Int
  OBVIOUS
<1>1. finished \in [Workers -> Int]
  BY DEF CoreTypeOK
<1>. QED  BY <1>1, FiniteParts, SumType

(* A step of the core moves a submission on, or counts it.                 *)
LEMMA CoreConserves ==
  ASSUME StateInv, Conservation, NEW w \in Workers, CoreWorker(w)
  PROVE  Conservation'
<1>. SUFFICES ASSUME mpc # "abort" PROVE submitted' = Counted'
  <2>1. mpc' = mpc
    BY DEF CoreWorker, SwitchTo, TaskYield, TaskExit, TaskSubmit, SubmitTryLock,
           SubmitFill, SubmitSkip, SubmitRetry, Submitted, Unlock, ReleaseFinished,
           ReleaseYielded
  <2>. QED  BY <2>1 DEF Conservation, Counted, Looking, Live
<1>1. submitted = Counted /\ SumFunction(finished) \in Int
  BY FinishedSum DEF Conservation, Counted, Looking, Live, StateInv, LockInv
<1>2. /\ LockInv /\ CoreTypeOK /\ LocalsInv /\ SlotInv /\ WorkerInv /\ MainInv
      /\ submitted \in Nat
  BY SchedyAssumption DEF StateInv, LockInv, CoreTypeOK
<1>. USE DEF Step, OwnsCur, OnFiber, Submitting, OwnsSlot
<1>3. ASSUME Looking' = Looking, Live' = Live, UNCHANGED <<finished, submitted>>
      PROVE  submitted' = Counted'
  BY <1>1, <1>3 DEF Counted
<1>4. CASE SwitchTo(w)
  <2>1. Looking' = Looking
    BY <1>2, <1>4 DEF SwitchTo, Looking, CoreTypeOK
  <2>2. Live' = Live
    BY <1>2, <1>4 DEF SwitchTo, Live, CoreTypeOK, WorkerInv, IsReady, LocalsInv
  <2>. QED  BY <1>3, <1>4, <2>1, <2>2 DEF SwitchTo
<1>5. CASE TaskYield(w)
  <2>1. Looking' = Looking
    BY <1>2, <1>5 DEF TaskYield, SwitchToScheduler, Looking, CoreTypeOK, LocalsInv
  <2>2. Live' = Live
    BY <1>5 DEF TaskYield, Live
  <2>. QED  BY <1>3, <1>5, <2>1, <2>2 DEF TaskYield
<1>6. CASE TaskExit(w)
  <2>1. /\ worker[cur[w]] = w /\ cur[w] \in Tasks /\ cur[w] \in Live
    BY <1>2, <1>6 DEF TaskExit, LocalsInv, WorkerInv, Live
  <2>2. Looking' = Looking
    BY <1>2, <1>6, <2>1 DEF TaskExit, SwitchToScheduler, Looking, CoreTypeOK
  <2>3. Live' = Live \ {cur[w]}
    BY <1>2, <1>6, <2>1 DEF TaskExit, Live, CoreTypeOK
  <2>4. Cardinality(Live') = Cardinality(Live) - 1
    BY <2>1, <2>3, FiniteParts, FS_RemoveElement
  <2>5. SumFunction(finished') = SumFunction(finished) + 1
    <3>1. finished' = [finished EXCEPT ![w] = finished[w] + 1]
      BY <1>6, <2>1 DEF TaskExit
    <3>2. finished \in [Workers -> Int] /\ finished[w] \in Int /\ finished[w] + 1 \in Int
      BY <1>2 DEF CoreTypeOK
    <3>3. SumFunction(finished') = SumFunction(finished) - finished[w] + (finished[w] + 1)
      BY <3>1, <3>2, FiniteParts, SumExcept
    <3>. QED  BY <1>1, <3>2, <3>3
  <2>6. submitted' = submitted
    BY <1>6 DEF TaskExit
  <2>. QED  BY <1>1, <2>2, <2>4, <2>5, <2>6, FiniteParts DEF Counted
<1>7. CASE TaskSubmit(w)
  <2>1. Looking' = Looking \cup {w} /\ w \notin Looking
    BY <1>2, <1>7 DEF TaskSubmit, Looking, CoreTypeOK
  <2>2. Cardinality(Looking') = Cardinality(Looking) + 1
    BY <2>1, FiniteParts, FS_AddElement
  <2>3. Live' = Live /\ finished' = finished /\ submitted' = submitted + 1
    BY <1>7 DEF TaskSubmit, Live, taskVars
  <2>. QED  BY <1>1, <2>2, <2>3, FiniteParts DEF Counted
<1>8. CASE SubmitTryLock(w)
  <2>1. Looking' = Looking
    BY <1>2, <1>8 DEF SubmitTryLock, Looking, CoreTypeOK
  <2>2. Live' = Live
    BY <1>8 DEF SubmitTryLock, Live
  <2>. QED  BY <1>3, <1>8, <2>1, <2>2 DEF SubmitTryLock
<1>9. CASE SubmitFill(w)
  <2>1. idx[w] \in Tasks /\ Resting(idx[w]) /\ mpc # "destroyed"
    BY <1>2, <1>9 DEF SubmitFill, LocalsInv, WorkerInv, MainInv
  <2>2. idx[w] \notin Live
    BY <1>2, <1>9, <2>1 DEF SubmitFill, Live, IsFree, SlotInv, Resting
  <2>3. Live' = Live \cup {idx[w]}
    BY <1>2, <1>9, <2>1 DEF SubmitFill, Live, Fill, CoreTypeOK
  <2>4. Looking' = Looking \ {w} /\ w \in Looking
    BY <1>2, <1>9 DEF SubmitFill, Looking, CoreTypeOK, CallPolicy
  <2>5. Cardinality(Live') = Cardinality(Live) + 1
    BY <2>2, <2>3, FiniteParts, FS_AddElement
  <2>6. Cardinality(Looking') = Cardinality(Looking) - 1
    BY <2>4, FiniteParts, FS_RemoveElement
  <2>7. finished' = finished /\ submitted' = submitted
    BY <1>9 DEF SubmitFill
  <2>. QED  BY <1>1, <2>5, <2>6, <2>7, FiniteParts DEF Counted
<1>10. CASE SubmitSkip(w)
  <2>1. Looking' = Looking
    BY <1>2, <1>10 DEF SubmitSkip, Looking, CoreTypeOK
  <2>. QED  BY <1>3, <1>10, <2>1 DEF SubmitSkip, Live
<1>11. CASE SubmitRetry(w)
  <2>1. Looking' = Looking
    BY <1>2, <1>11 DEF SubmitRetry, Looking, CoreTypeOK
  <2>. QED  BY <1>3, <1>11, <2>1 DEF SubmitRetry, Live, taskVars
<1>12. CASE Submitted(w)
  <2>1. Looking' = Looking
    BY <1>2, <1>12 DEF Submitted, Looking, CoreTypeOK
  <2>. QED  BY <1>3, <1>12, <2>1 DEF Submitted, Live
<1>13. CASE Unlock(w)
  <2>1. Looking' = Looking
    BY <1>2, <1>13 DEF Unlock, Looking, CoreTypeOK
  <2>. QED  BY <1>3, <1>13, <2>1 DEF Unlock, Live
<1>14. CASE ReleaseFinished(w)
  <2>1. Looking' = Looking
    BY <1>2, <1>14 DEF ReleaseFinished, Looking, CoreTypeOK
  <2>2. Live' = Live
    BY <1>2, <1>14 DEF ReleaseFinished, Live, CoreTypeOK, LocalsInv
  <2>. QED  BY <1>3, <1>14, <2>1, <2>2 DEF ReleaseFinished
<1>15. CASE ReleaseYielded(w)
  <2>1. Looking' = Looking
    BY <1>2, <1>15 DEF ReleaseYielded, Looking, CoreTypeOK, CallPolicy
  <2>2. Live' = Live
    BY <1>2, <1>15 DEF ReleaseYielded, Live, CoreTypeOK, LocalsInv
  <2>. QED  BY <1>3, <1>15, <2>1, <2>2 DEF ReleaseYielded
<1>. QED  BY <1>4, <1>5, <1>6, <1>7, <1>8, <1>9, <1>10, <1>11, <1>12, <1>13, <1>14,
             <1>15 DEF CoreWorker

LEMMA MainConserves ==
  ASSUME StateInv, Conservation, mpc # "abort", MainStep
  PROVE  Conservation'
<1>. SUFFICES ASSUME mpc' # "abort" PROVE submitted' = Counted'
  BY DEF Conservation, Counted, Looking, Live
<1>1. submitted = Counted /\ SumFunction(finished) \in Int
  BY FinishedSum DEF Conservation, Counted, Looking, Live, StateInv, LockInv
<1>2. /\ LockInv /\ CoreTypeOK /\ LocalsInv /\ SlotInv /\ WorkerInv /\ MainInv
      /\ submitted \in Nat
  BY SchedyAssumption DEF StateInv, LockInv, CoreTypeOK
<1>. USE DEF Step, workerVars, taskVars
<1>3. ASSUME Looking' = Looking, Live' = Live, UNCHANGED <<finished, submitted>>
      PROVE  submitted' = Counted'
  BY <1>1, <1>3 DEF Counted
<1>4. ASSUME NEW t \in Tasks, MainSubmit(t)
      PROVE  submitted' = Counted'
  <2>1. t \notin Live
    BY <1>2, <1>4, SchedyAssumption
       DEF MainSubmit, IsFree, Live, SlotInv, MainInv, Resting, OnFiber, Submitting
  <2>2. Live' = Live \cup {t}
    BY <1>2, <1>4 DEF MainSubmit, Live, Fill, CoreTypeOK
  <2>3. Cardinality(Live') = Cardinality(Live) + 1
    BY <2>1, <2>2, FiniteParts, FS_AddElement
  <2>4. Looking' = Looking /\ finished' = finished /\ submitted' = submitted + 1
    BY <1>4 DEF MainSubmit, Looking
  <2>. QED  BY <1>1, <2>3, <2>4, FiniteParts DEF Counted
<1>5. ASSUME NEW w \in Workers, StartWorker(w)
      PROVE  submitted' = Counted'
  <2>1. Looking' = Looking
    BY <1>2, <1>5 DEF StartWorker, Looking, CoreTypeOK
  <2>. QED  BY <1>3, <1>5, <2>1 DEF StartWorker, Live
<1>6. CASE MainAbort
  BY <1>6 DEF MainAbort
<1>7. CASE Wait
  BY <1>3, <1>7 DEF Wait, Looking, Live
<1>8. CASE Destroy
  BY <1>3, <1>8 DEF Destroy, Looking, Live
<1>9. CASE Reinit
  <2>1. Looking' = {} /\ Live' = {}
    BY <1>9 DEF Reinit, Looking, Live
  <2>2. SumFunction(finished') = 0
    BY <1>9, FiniteParts, SumZero DEF Reinit
  <2>3. submitted' = 0
    BY <1>9 DEF Reinit
  <2>. QED  BY <2>1, <2>2, <2>3, FS_EmptySet DEF Counted
<1>. QED  BY <1>4, <1>5, <1>6, <1>7, <1>8, <1>9 DEF MainStep, CoreMain

LEMMA InitConserves == CoreInit => Conservation
<1>. SUFFICES ASSUME CoreInit PROVE submitted = Counted
  BY DEF Conservation, Counted, Looking, Live
<1>1. Looking = {} /\ Live = {}
  BY DEF CoreInit, Looking, Live
<1>2. SumFunction(finished) = 0
  BY FiniteParts, SumZero DEF CoreInit
<1>. QED  BY <1>1, <1>2, FS_EmptySet DEF Counted, CoreInit

(* A step that leaves slots and counters alone, and leads neither into nor *)
(* out of a submission, leaves the count alone.                            *)
LEMMA QuietConserves ==
  ASSUME Conservation, UNCHANGED <<state, finished, mpc, submitted>>,
         \A w \in Workers : pc'[w] \in {"submit", "fill", "abort"}
                              <=> pc[w] \in {"submit", "fill", "abort"}
  PROVE  Conservation'
<1>1. Looking' = Looking /\ Live' = Live
  BY DEF Looking, Live
<1>. QED  BY <1>1 DEF Conservation, Looking, Live

=============================================================================
