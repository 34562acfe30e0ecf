--------------------------- MODULE SchedRR_proofs ---------------------------
(***************************************************************************)
(* Theorems about SchedRR for every number of slots, workers, attempts and *)
(* submissions: its inductive invariant, that tasks_wait returns only when *)
(* all tasks are done, and that it implements TaskPool.                    *)
(***************************************************************************)
EXTENDS SchedRRTurns, Schedy_proofs

USE DEF TryLock, UnlockTask, ClearWorker, OnFinish, LockTasks, Advance,
        Fail, slotVars, mainVars, restVars

-----------------------------------------------------------------------------
(* Types.                                                                  *)

LEMMA AcquireTypeOK == ASSUME TypeOK, NEW w \in Workers, Acquire(w)
                       PROVE  TypeOK'
<1> USE DEF TypeOK, CoreTypeOK, taskVars, workerVars, rrVars, Step,
            ProgramPoints, OwnsCur
<1>1. CASE AcquireEnter(w)
  BY <1>1 DEF AcquireEnter
<1>2. CASE ScanBusy(w)
  BY <1>2 DEF ScanBusy
<1>3. CASE ScanLock(w)
  <2>1. (next_task_index + 1) % LIMIT \in Tasks
    BY SchedyAssumption DEF Tasks
  <2>. QED  BY <1>3, <2>1 DEF ScanLock
<1>4. CASE CheckFound(w)
  BY <1>4 DEF CheckFound
<1>5. CASE CheckSkip(w)
  <2>1. /\ lock' \in [Tasks -> Workers \cup {NULL}]
        /\ cur' \in [Workers -> Tasks \cup {NULL}]
    BY <1>5 DEF CheckSkip
  <2>2. /\ idx' \in [Workers -> Nat]
        /\ pc' \in [Workers -> ProgramPoints]
    BY <1>5 DEF CheckSkip
  <2>. QED  BY <1>5, <2>1, <2>2 DEF CheckSkip
<1>6. CASE ScanEnd(w)
  BY <1>6 DEF ScanEnd
<1>. QED  BY <1>1, <1>2, <1>3, <1>4, <1>5, <1>6 DEF Acquire

LEMMA NextTypeOK == TypeOK /\ [Next]_vars => TypeOK'
<1> SUFFICES ASSUME TypeOK, [Next]_vars PROVE TypeOK'
  OBVIOUS
<1>1. ASSUME NEW w \in Workers, Worker(w) PROVE TypeOK'
  BY <1>1, AcquireTypeOK, CoreTypePreserved DEF Worker, TypeOK, rrVars
<1>2. CASE Main
  BY <1>2, CoreMainTypePreserved DEF Main, MainStep, TypeOK, rrVars
<1>3. CASE UNCHANGED vars
  BY <1>3 DEF vars, coreVars, taskVars, workerVars, rrVars, TypeOK, CoreTypeOK
<1>. QED  BY <1>1, <1>2, <1>3 DEF Next

-----------------------------------------------------------------------------
(* Locks.                                                                  *)

(* While a worker scans, no other worker scans or checks.                  *)
LEMMA OneScanner ==
  ASSUME ScanExclusion, NEW v \in Workers, NEW w \in Workers, v # w,
         pc[w] \in {"scan", "check"}
  PROVE  pc[v] \notin {"scan", "check"}
BY DEF ScanExclusion

(* A step of one worker leaves the locals of the others alone, and outside *)
(* of the acquire function it ends where the worker is bound to scan.      *)
LEMMA CoreIsLocal ==
  ASSUME LockInv, NEW w \in Workers, CoreWorker(w)
  PROVE  /\ pc[w] \in Bound /\ pc'[w] \in Bound \cup {"abort"}
         /\ \A v \in Workers \ {w} :
              pc'[v] = pc[v] /\ cur'[v] = cur[v] /\ idx'[v] = idx[v]
<1> USE RRAssumption
    DEF LockInv, LocalsInv, CoreTypeOK, Step, Bound, OwnsCur, OnFiber,
        Submitting, taskVars, workerVars
<1>1. CASE SwitchTo(w) \/ Unlock(w) \/ ReleaseFinished(w)
  BY <1>1 DEF SwitchTo, Unlock, ReleaseFinished
<1>2. CASE TaskYield(w) \/ TaskExit(w)
  BY <1>2 DEF TaskYield, TaskExit, SwitchToScheduler
<1>3. CASE TaskSubmit(w) \/ SubmitSkip(w) \/ SubmitRetry(w) \/ Submitted(w)
  BY <1>3 DEF TaskSubmit, SubmitSkip, SubmitRetry, Submitted
<1>4. CASE SubmitTryLock(w)
  BY <1>4 DEF SubmitTryLock
<1>5. CASE SubmitFill(w) \/ ReleaseYielded(w)
  BY <1>5 DEF SubmitFill, ReleaseYielded, CallPolicy
<1>. QED  BY <1>1, <1>2, <1>3, <1>4, <1>5 DEF CoreWorker

LEMMA AcquireIsLocal ==
  ASSUME CoreTypeOK, NEW w \in Workers, Acquire(w)
  PROVE  /\ state' = state
         /\ \A v \in Workers \ {w} :
              pc'[v] = pc[v] /\ cur'[v] = cur[v] /\ idx'[v] = idx[v]
BY DEF CoreTypeOK, Step, taskVars, workerVars, Acquire,
   AcquireEnter, ScanBusy, ScanLock, CheckFound, CheckSkip, ScanEnd

LEMMA AcquireLocks ==
  ASSUME RRInv, TypeOK', NEW w \in Workers, Acquire(w)
  PROVE  LockInv' /\ ScanInv' /\ ScanExclusion'
<1> USE SchedyAssumption, RRAssumption
    DEF RRInv, StateInv, LockInv, TypeOK, CoreTypeOK, taskVars, workerVars,
        rrVars, Step, OwnsCur, OwnsSlot, OnFiber, Submitting
<1>1. CASE AcquireEnter(w)
  <2>1. LocalsInv'
    BY <1>1 DEF AcquireEnter, LocalsInv
  <2>2. MutualExclusion'
    BY <1>1 DEF AcquireEnter, LocalsInv, ScanInv, MutualExclusion, Holds
  <2>3. ScanInv'
    BY <1>1 DEF AcquireEnter, LocalsInv, ScanInv, ScanExclusion
  <2>4. ScanExclusion'
    BY <1>1 DEF AcquireEnter, LocalsInv, ScanExclusion
  <2>. QED  BY <2>1, <2>2, <2>3, <2>4
<1>2. CASE ScanBusy(w)
  <2>1. LocalsInv'
    BY <1>2 DEF ScanBusy, LocalsInv
  <2>2. MutualExclusion'
    BY <1>2 DEF ScanBusy, LocalsInv, ScanInv, MutualExclusion, Holds
  <2>3. ScanInv'
    BY <1>2 DEF ScanBusy, LocalsInv, ScanInv, ScanExclusion
  <2>4. ScanExclusion'
    BY <1>2 DEF ScanBusy, LocalsInv, ScanExclusion
  <2>. QED  BY <2>1, <2>2, <2>3, <2>4
<1>3. CASE ScanLock(w)
  <2>1. LocalsInv'
    BY <1>3 DEF ScanLock, LocalsInv
  <2>2. MutualExclusion'
    BY <1>3 DEF ScanLock, LocalsInv, ScanInv, MutualExclusion, Holds
  <2>3. ScanInv'
    BY <1>3 DEF ScanLock, LocalsInv, ScanInv, ScanExclusion
  <2>4. ScanExclusion'
    BY <1>3 DEF ScanLock, LocalsInv, ScanExclusion
  <2>. QED  BY <2>1, <2>2, <2>3, <2>4
<1>4. CASE CheckFound(w)
  <2>1. LocalsInv'
    BY <1>4 DEF CheckFound, LocalsInv
  <2>2. MutualExclusion'
    BY <1>4 DEF CheckFound, LocalsInv, ScanInv, MutualExclusion, Holds
  <2>3. ScanInv'
    BY <1>4 DEF CheckFound, LocalsInv, ScanInv, ScanExclusion
  <2>4. ScanExclusion'
    BY <1>4 DEF CheckFound, LocalsInv, ScanExclusion
  <2>. QED  BY <2>1, <2>2, <2>3, <2>4
<1>5. CASE CheckSkip(w)
  <2>1. LocalsInv'
    BY <1>5 DEF CheckSkip, LocalsInv
  <2>2. MutualExclusion'
    BY <1>5 DEF CheckSkip, LocalsInv, ScanInv, MutualExclusion, Holds
  <2>3. ScanInv'
    BY <1>5 DEF CheckSkip, LocalsInv, ScanInv, ScanExclusion
  <2>4. ScanExclusion'
    BY <1>5 DEF CheckSkip, LocalsInv, ScanExclusion
  <2>. QED  BY <2>1, <2>2, <2>3, <2>4
<1>6. CASE ScanEnd(w)
  <2>1. LocalsInv'
    BY <1>6 DEF ScanEnd, LocalsInv
  <2>2. MutualExclusion'
    BY <1>6 DEF ScanEnd, LocalsInv, ScanInv, MutualExclusion, Holds
  <2>3. ScanInv'
    BY <1>6 DEF ScanEnd, LocalsInv, ScanInv, ScanExclusion
  <2>4. ScanExclusion'
    BY <1>6 DEF ScanEnd, LocalsInv, ScanExclusion
  <2>. QED  BY <2>1, <2>2, <2>3, <2>4
<1>. QED  BY <1>1, <1>2, <1>3, <1>4, <1>5, <1>6 DEF Acquire

-----------------------------------------------------------------------------
(* Slots and their contexts.                                               *)

LEMMA AcquireStateInv ==
  ASSUME RRInv, LockInv', NEW w \in Workers, Acquire(w)
  PROVE  SlotInv' /\ WorkerInv' /\ MainInv'
<1> USE SchedyAssumption, RRAssumption
    DEF RRInv, StateInv, LockInv, LocalsInv, MutualExclusion, Holds, TypeOK,
        CoreTypeOK, taskVars, workerVars, rrVars, Step, OwnsCur, OwnsSlot, OnFiber,
        Submitting, Resting
<1>1. CASE AcquireEnter(w)
  <2>1. SlotInv'
    BY <1>1 DEF AcquireEnter, SlotInv, WorkerInv, IsReady
  <2>2. WorkerInv'
    BY <1>1 DEF AcquireEnter, SlotInv, WorkerInv, IsReady, IsFree
  <2>3. MainInv'
    BY <1>1 DEF AcquireEnter, MainInv
  <2>. QED  BY <2>1, <2>2, <2>3
<1>2. CASE ScanBusy(w)
  <2>1. SlotInv'
    BY <1>2 DEF ScanBusy, SlotInv, WorkerInv, IsReady
  <2>2. WorkerInv'
    BY <1>2 DEF ScanBusy, SlotInv, WorkerInv, IsReady, IsFree
  <2>3. MainInv'
    BY <1>2 DEF ScanBusy, MainInv
  <2>. QED  BY <2>1, <2>2, <2>3
<1>3. CASE ScanLock(w)
  <2>1. SlotInv'
    BY <1>3 DEF ScanLock, SlotInv, WorkerInv, IsReady
  <2>2. WorkerInv'
    BY <1>3 DEF ScanLock, SlotInv, WorkerInv, IsReady, IsFree
  <2>3. MainInv'
    BY <1>3 DEF ScanLock, MainInv
  <2>. QED  BY <2>1, <2>2, <2>3
<1>4. CASE CheckFound(w)
  <2>1. SlotInv'
    BY <1>4 DEF CheckFound, SlotInv, WorkerInv, IsReady
  <2>2. WorkerInv'
    BY <1>4 DEF CheckFound, SlotInv, WorkerInv, IsReady, IsFree
  <2>3. MainInv'
    BY <1>4 DEF CheckFound, MainInv
  <2>. QED  BY <2>1, <2>2, <2>3
<1>5. CASE CheckSkip(w)
  <2>1. SlotInv'
    BY <1>5 DEF CheckSkip, SlotInv, WorkerInv, IsReady
  <2>2. WorkerInv'
    BY <1>5 DEF CheckSkip, SlotInv, WorkerInv, IsReady, IsFree
  <2>3. MainInv'
    BY <1>5 DEF CheckSkip, MainInv
  <2>. QED  BY <2>1, <2>2, <2>3
<1>6. CASE ScanEnd(w)
  <2>1. SlotInv'
    BY <1>6 DEF ScanEnd, SlotInv, WorkerInv, IsReady
  <2>2. WorkerInv'
    BY <1>6 DEF ScanEnd, SlotInv, WorkerInv, IsReady, IsFree
  <2>3. MainInv'
    BY <1>6 DEF ScanEnd, MainInv
  <2>. QED  BY <2>1, <2>2, <2>3
<1>. QED  BY <1>1, <1>2, <1>3, <1>4, <1>5, <1>6 DEF Acquire

LEMMA InitRRInv == Init => RRInv
<1> SUFFICES ASSUME Init PROVE RRInv
  OBVIOUS
<1>1. StateInv
  BY InitStateInv DEF Init
<1>2. TypeOK
  BY <1>1, SchedyAssumption DEF Init, TypeOK, StateInv, LockInv, Tasks
<1>3. ScanInv /\ ScanExclusion
  BY DEF Init, CoreInit, ScanInv, ScanExclusion
<1>. QED  BY <1>1, <1>2, <1>3 DEF RRInv

LEMMA NextRRInv == RRInv /\ [Next]_vars => RRInv'
<1> SUFFICES ASSUME RRInv, [Next]_vars PROVE RRInv'
  OBVIOUS
<1>1. TypeOK'
  BY NextTypeOK DEF RRInv
<1>2. ASSUME NEW w \in Workers, Acquire(w) PROVE RRInv'
  BY <1>1, <1>2, AcquireLocks, AcquireStateInv DEF RRInv, StateInv
<1>3. ASSUME NEW w \in Workers, CoreWorker(w), UNCHANGED rrVars PROVE RRInv'
  <2>1. StateInv'
    BY <1>3, CoreStateInv DEF RRInv
  <2>2. ScanInv' /\ ScanExclusion'
    BY <1>3, CoreIsLocal, SchedyAssumption
    DEF RRInv, StateInv, LockInv, TypeOK, ScanInv, ScanExclusion, Bound,
        OwnsCur, OnFiber, Submitting, rrVars
  <2>. QED  BY <1>1, <2>1, <2>2 DEF RRInv
<1>4. CASE Main
  <2>1. StateInv'
    BY <1>4, MainStateInv DEF RRInv, Main, MainStep
  <2>2. ScanInv' /\ ScanExclusion'
    <3>1. ASSUME NEW w \in Workers, StartWorker(w), UNCHANGED rrVars
          PROVE  ScanInv' /\ ScanExclusion'
      BY <3>1 DEF RRInv, TypeOK, CoreTypeOK, StartWorker, Step, ScanInv,
         ScanExclusion, rrVars
    <3>2. CASE Reinit /\ tasks_lock' = NULL
      BY <3>2 DEF Reinit, ScanInv, ScanExclusion
    <3>3. CASE UNCHANGED <<pc, idx, tasks_lock>>
      BY <3>3 DEF RRInv, ScanInv, ScanExclusion
    <3>. QED  BY <1>4, <3>1, <3>2, <3>3
         DEF Main, CoreMain, MainAbort, Wait, Destroy, MainSubmit, workerVars,
             rrVars
  <2>. QED  BY <1>1, <2>1, <2>2 DEF RRInv
<1>5. CASE UNCHANGED vars
  BY <1>1, <1>5, StutterStateInv
  DEF vars, coreVars, workerVars, rrVars, RRInv, ScanInv, ScanExclusion
<1>. QED  BY <1>2, <1>3, <1>4, <1>5 DEF Next, Worker

LEMMA RRInvariant == Spec => []RRInv
BY InitRRInv, NextRRInv, PTL DEF Spec

(* Every reachable state is well typed; in particular the shared scan      *)
(* index never leaves the task table.                                      *)
THEOREM TypeCorrect == Spec => []TypeOK
<1>1. RRInv => TypeOK
  BY DEF RRInv
<1>. QED  BY <1>1, RRInvariant, PTL

(* The task locks and tasks_lock exclude one another's holders in the      *)
(* acquire function, sched_release and task_submit, and none is leaked.    *)
THEOREM LocksExclude == Spec => []MutualExclusion
<1>1. RRInv => MutualExclusion
  BY DEF RRInv, StateInv, LockInv
<1>. QED  BY <1>1, RRInvariant, PTL

(* tasks_lock is held exactly by the worker that is in a scan: no second   *)
(* worker moves next_task_index, and the lock is released on every path.   *)
THEOREM ScansExclude == Spec => []ScanExclusion
<1>1. RRInv => ScanExclusion
  BY DEF RRInv
<1>. QED  BY <1>1, RRInvariant, PTL

(* A worker never switches into a context that is empty, reset, freed or   *)
(* in use by another worker.                                               *)
THEOREM SwitchTargetsReady == Spec => []SwitchTargetReady
<1>1. RRInv => SwitchTargetReady
  BY StateMeansReady DEF RRInv
<1>. QED  BY <1>1, RRInvariant, PTL

(* A fiber is on one worker's stack at most, the one task->worker names,   *)
(* and task->worker is NULL whenever the fiber is on none.                 *)
THEOREM WorkerPointers == Spec => []WorkerPointer
<1>1. RRInv => WorkerPointer
  BY StateMeansPointers DEF RRInv
<1>. QED  BY <1>1, RRInvariant, PTL

LEMMA NextConserves == RRInv /\ Conservation /\ [Next]_vars => Conservation'
<1>. SUFFICES ASSUME RRInv, Conservation, [Next]_vars PROVE Conservation'
  OBVIOUS
<1>. USE DEF RRInv
<1>1. ASSUME NEW w \in Workers, Acquire(w) PROVE Conservation'
  <2>1. UNCHANGED <<state, finished, mpc, submitted>>
    BY <1>1 DEF Acquire, AcquireEnter, ScanBusy, ScanLock, CheckFound, CheckSkip,
                ScanEnd, taskVars
  <2>2. pc' = pc \/ \E from, to \in ProgramPoints \ {"submit", "fill", "abort"} :
                      Step(w, from, to)
    BY <1>1 DEF Acquire, AcquireEnter, ScanBusy, ScanLock, CheckFound, CheckSkip,
                ScanEnd, ProgramPoints, OwnsCur, OnFiber, Submitting, Step
  <2>3. \A v \in Workers : pc'[v] \in {"submit", "fill", "abort"}
                             <=> pc[v] \in {"submit", "fill", "abort"}
    BY <2>2 DEF Step, TypeOK, CoreTypeOK
  <2>. QED  BY <2>1, <2>3, QuietConserves
<1>2. ASSUME NEW w \in Workers, CoreWorker(w) PROVE Conservation'
  BY <1>2, CoreConserves
<1>3. CASE Main /\ ~Aborted
  BY <1>3, MainConserves DEF Main, MainStep, Aborted
<1>4. CASE UNCHANGED vars
  BY <1>4, QuietConserves DEF vars, coreVars, taskVars, workerVars
<1>. QED  BY <1>1, <1>2, <1>3, <1>4 DEF Next, Worker

(* Every submission made so far is counted exactly once: as one that is    *)
(* looking for a slot, as a live task, or as finished by one worker.       *)
THEOREM SubmissionsConserved == Spec => []Conservation
<1>1. Init => Conservation
  BY InitConserves DEF Init
<1>. QED  BY <1>1, RRInvariant, NextConserves, PTL DEF Spec

-----------------------------------------------------------------------------
(* No task is left behind.                                                 *)

LEMMA NextIndex ==
  ASSUME NEW n \in Tasks
  PROVE  (n + 1) % LIMIT = IF n + 1 = LIMIT THEN 0 ELSE n + 1
BY SchedyAssumption DEF Tasks

LEMMA BehindBounds ==
  ASSUME NEW t \in Tasks, next_task_index \in Tasks
  PROVE  Behind(t) \in 1 .. LIMIT
BY SchedyAssumption DEF Behind, Tasks

(* Advancing the index passes one more slot, the one it was on.            *)
LEMMA BehindAdvances ==
  ASSUME NEW t \in Tasks, next_task_index \in Tasks,
         next_task_index' = (next_task_index + 1) % LIMIT
  PROVE  Behind(t)' = IF t = next_task_index THEN 1 ELSE Behind(t) + 1
<1>1. next_task_index' =
        IF next_task_index + 1 = LIMIT THEN 0 ELSE next_task_index + 1
  BY NextIndex
<1>. QED  BY <1>1, SchedyAssumption DEF Behind, Tasks

LEMMA BehindUnchanged ==
  ASSUME NEW t \in Tasks, next_task_index' = next_task_index
  PROVE  Behind(t)' = Behind(t)
BY DEF Behind

LEMMA BehindInjective ==
  ASSUME NEW s \in Tasks, NEW t \in Tasks, next_task_index \in Tasks,
         Behind(s) = Behind(t)
  PROVE  s = t
BY SchedyAssumption DEF Behind, Tasks

LEMMA NextJustLocked ==
  ASSUME RRInv, RRInv', JustLocked, [Next]_vars
  PROVE  JustLocked'
<1> SUFFICES ASSUME NEW v \in Workers, pc'[v] = "check"
             PROVE  Behind(cur[v])' = 1
  BY DEF JustLocked
<1> USE DEF RRInv, StateInv, LockInv, TypeOK, CoreTypeOK, Step
<1>1. ASSUME NEW w \in Workers, ScanLock(w) PROVE Behind(cur[v])' = 1
  <2>1. v = w
    BY <1>1 DEF ScanLock, ScanExclusion
  <2>2. cur'[w] = next_task_index
    BY <1>1 DEF ScanLock
  <2>. QED  BY <1>1, <2>1, <2>2, BehindAdvances DEF ScanLock
<1>2. ASSUME pc[v] = "check", cur'[v] = cur[v],
             next_task_index' = next_task_index
      PROVE  Behind(cur[v])' = 1
  BY <1>2 DEF JustLocked, Behind
<1>3. ASSUME NEW w \in Workers, Acquire(w), ~ScanLock(w)
      PROVE  Behind(cur[v])' = 1
  <2>1. next_task_index' = next_task_index /\ pc'[w] # "check"
    BY <1>3 DEF Acquire, AcquireEnter, ScanBusy, CheckFound, CheckSkip,
       ScanEnd, rrVars
  <2>. QED  BY <1>2, <1>3, <2>1, AcquireIsLocal
<1>4. ASSUME NEW w \in Workers, CoreWorker(w), UNCHANGED rrVars
      PROVE  Behind(cur[v])' = 1
  BY <1>2, <1>4, CoreIsLocal DEF rrVars, Bound, OwnsCur, OnFiber, Submitting
<1>5. CASE Main
  <2>1. /\ pc[v] = "check" /\ cur'[v] = cur[v]
        /\ next_task_index' = next_task_index
    BY <1>5 DEF Main, CoreMain, MainSubmit, MainAbort, Wait, Destroy,
       StartWorker, Reinit, rrVars, workerVars
  <2>. QED  BY <1>2, <2>1
<1>6. CASE UNCHANGED vars
  BY <1>2, <1>6 DEF vars, coreVars, workerVars, rrVars
<1>. QED  BY <1>1, <1>3, <1>4, <1>5, <1>6 DEF Next, Worker

LEMMA AcquireHope ==
  ASSUME RRInv, RRInv', JustLocked, NEW w \in Workers, Acquire(w),
         NEW t \in Tasks, state[t] = "RUNNABLE",
         NEW v \in Workers, Hope(v)
  PROVE  \E u \in Workers : Hope(u)'
<1> USE DEF RRInv, StateInv, LockInv, TypeOK, CoreTypeOK, Step
<1>1. \A u \in Workers \ {w} : pc[u] \in Bound => Hope(u)'
  BY AcquireIsLocal DEF Hope
<1>2. CASE pc[w] \in {"scan", "check"} /\ v # w
  <2>1. pc[v] \in Bound
    BY <1>2, OneScanner DEF Hope
  <2>. QED  BY <1>1, <1>2, <2>1
<1>3. CASE AcquireEnter(w)
  <2>1. Passed(w)' = {}
    BY <1>3, BehindBounds, BehindUnchanged DEF AcquireEnter, Passed
  <2>. QED  BY <1>3, <2>1 DEF AcquireEnter, Hope
<1>4. CASE ScanBusy(w)
  <2> DEFINE u == lock[next_task_index]
  <2>1. u \in Workers /\ Holds(u, next_task_index)
    BY <1>4 DEF ScanBusy, MutualExclusion
  <2>2. pc[u] \in Bound /\ u # w
    BY <1>4, <2>1, OneScanner
    DEF ScanBusy, Holds, Bound, OwnsCur, OwnsSlot, OnFiber, Submitting
  <2>. QED  BY <1>1, <2>1, <2>2
<1>5. CASE ScanLock(w) /\ v = w
  <2>1. state' = state /\ pc'[w] = "check" /\ idx' = idx /\ pc[w] = "scan"
    BY <1>5 DEF ScanLock
  <2>2. \A s \in Passed(w) : state[s] # "RUNNABLE"
    BY <1>5, <2>1 DEF Hope, Bound, OwnsCur, OnFiber, Submitting
  <2>3. PassedInCheck(w)' \subseteq Passed(w)
    <3> SUFFICES ASSUME NEW s \in Tasks, 1 < Behind(s)',
                        Behind(s)' <= idx'[w] + 1
                 PROVE  Behind(s) <= idx[w]
      BY DEF Passed, PassedInCheck
    <3>1. Behind(s)' = Behind(s) + 1
      BY <1>5, BehindAdvances DEF ScanLock
    <3>. QED  BY <2>1, <3>1, BehindBounds
  <2>. QED  BY <2>1, <2>2, <2>3 DEF Hope
<1>6. CASE CheckFound(w)
  BY <1>6 DEF CheckFound, Hope, Bound, OwnsCur
<1>7. CASE CheckSkip(w) /\ v = w
  <2>1. /\ state' = state /\ pc'[w] = "scan" /\ pc[w] = "check"
        /\ idx'[w] = idx[w] + 1 /\ next_task_index' = next_task_index
        /\ ~IsReady(cur[w])
    BY <1>7 DEF CheckSkip, rrVars
  <2>2. \A s \in PassedInCheck(w) : state[s] # "RUNNABLE"
    BY <1>7, <2>1 DEF Hope, Bound, OwnsCur, OnFiber, Submitting
  <2>3. cur[w] \in Tasks /\ state[cur[w]] # "RUNNABLE"
    BY <2>1 DEF LocalsInv, OwnsCur, SlotInv, MainInv, IsReady
  <2>4. ASSUME NEW s \in Tasks, Behind(s)' <= idx'[w]
        PROVE  state[s] # "RUNNABLE"
    <3>1. Behind(s) \in 1 .. LIMIT /\ Behind(s) <= idx[w] + 1
      BY <2>1, <2>4, BehindBounds, BehindUnchanged
    <3>2. CASE 1 < Behind(s)
      BY <2>2, <3>1, <3>2 DEF PassedInCheck
    <3>3. CASE Behind(s) = 1
      <4>1. Behind(cur[w]) = 1
        BY <2>1 DEF JustLocked
      <4>2. s = cur[w]
        BY <2>3, <3>3, <4>1, BehindInjective
      <4>. QED  BY <2>3, <4>2
    <3>. QED  BY <3>1, <3>2, <3>3
  <2>. QED  BY <2>1, <2>4 DEF Hope, Passed
<1>8. CASE ScanEnd(w) /\ v = w
  <2>1. pc[w] = "scan" /\ idx[w] = LIMIT
    BY <1>8 DEF ScanEnd
  <2>2. t \in Passed(w)
    BY <2>1, BehindBounds DEF Passed
  <2>. QED  BY <1>8, <2>1, <2>2 DEF Hope, Bound, OwnsCur, OnFiber, Submitting
<1>. QED  BY <1>2, <1>3, <1>4, <1>5, <1>6, <1>7, <1>8
          DEF Acquire, ScanLock, CheckSkip, ScanEnd

LEMMA MainHope ==
  ASSUME RRInv, Main, HopeInv, NEW t \in Tasks, state'[t] = "RUNNABLE"
  PROVE  \E u \in Workers : Hope(u)'
<1> USE DEF RRInv, StateInv, LockInv, TypeOK, CoreTypeOK, Step
<1>1. ASSUME state' = state, UNCHANGED workerVars, UNCHANGED rrVars
      PROVE  \E u \in Workers : Hope(u)'
  BY <1>1 DEF HopeInv, Hope, Passed, PassedInCheck, Behind, workerVars, rrVars
<1>2. CASE (MainAbort \/ Wait \/ Destroy) /\ UNCHANGED rrVars
  BY <1>1, <1>2 DEF MainAbort, Wait, Destroy, taskVars
<1>3. ASSUME NEW w \in Workers, StartWorker(w) PROVE \E u \in Workers : Hope(u)'
  BY <1>3 DEF StartWorker, Hope, Bound
<1>4. ASSUME NEW s \in Tasks, MainSubmit(s) PROVE \E u \in Workers : Hope(u)'
  <2>1. 0 \in Workers
    BY SchedyAssumption DEF Workers
  <2>2. pc'[0] = "unborn"
    BY <1>4, <2>1 DEF MainSubmit, MainInv, workerVars
  <2>. QED  BY <2>1, <2>2 DEF Hope, Bound
<1>5. CASE Reinit
  BY <1>5 DEF Reinit
<1>. QED  BY <1>2, <1>3, <1>4, <1>5 DEF Main, CoreMain

LEMMA NextHope ==
  ASSUME RRInv, RRInv', JustLocked, HopeInv, [Next]_vars
  PROVE  HopeInv'
<1> SUFFICES ASSUME NEW t \in Tasks, state'[t] # "ZOMBIE"
             PROVE  \E u \in Workers : Hope(u)'
  BY DEF HopeInv
<1>1. CASE state'[t] # "RUNNABLE"
  <2>1. lock'[t] \in Workers /\ pc'[lock'[t]] \in Bound
    BY <1>1 DEF RRInv, StateInv, SlotInv, Resting, Bound, OwnsCur, OnFiber, Submitting
  <2>. QED  BY <2>1 DEF Hope
<1>2. ASSUME state'[t] = "RUNNABLE", NEW w \in Workers, Acquire(w)
      PROVE  \E u \in Workers : Hope(u)'
  <2>1. state[t] = "RUNNABLE"
    BY <1>2, AcquireIsLocal DEF RRInv, StateInv, LockInv
  <2>2. PICK v \in Workers : Hope(v)
    BY <2>1 DEF HopeInv
  <2>. QED  BY <1>2, <2>1, <2>2, AcquireHope
<1>3. ASSUME NEW w \in Workers, CoreWorker(w)
      PROVE  \E u \in Workers : Hope(u)'
  <2>1. pc'[w] \in Bound
    BY <1>3, CoreIsLocal
    DEF RRInv, StateInv, Bound, OwnsCur, OnFiber, Submitting
  <2>. QED  BY <2>1 DEF Hope
<1>4. ASSUME state'[t] = "RUNNABLE", Main PROVE \E u \in Workers : Hope(u)'
  BY <1>4, MainHope
<1>5. CASE UNCHANGED vars
  BY <1>5 DEF HopeInv, Hope, Passed, PassedInCheck, Behind, vars, coreVars,
     taskVars, workerVars, rrVars
<1>. QED  BY <1>1, <1>2, <1>3, <1>4, <1>5 DEF Next, Worker

LEMMA InitIInv == Init => IInv
<1> SUFFICES ASSUME Init PROVE IInv
  OBVIOUS
<1>1. JustLocked /\ HopeInv
  BY SchedyAssumption DEF Init, CoreInit, JustLocked, HopeInv
<1>. QED  BY <1>1, InitRRInv DEF IInv

LEMMA NextIInv == IInv /\ [Next]_vars => IInv'
<1> SUFFICES ASSUME IInv, [Next]_vars PROVE IInv'
  OBVIOUS
<1>1. RRInv'
  BY NextRRInv DEF IInv
<1>2. JustLocked'
  BY <1>1, NextJustLocked DEF IInv
<1>3. HopeInv'
  BY <1>1, NextHope DEF IInv
<1>. QED  BY <1>1, <1>2, <1>3 DEF IInv

(* The invariant that the run rr checks is inductive.                      *)
THEOREM Inductive == Spec => []IInv
BY InitIInv, NextIInv, PTL DEF Spec

(* tasks_wait returns only when every task has finished, for any number of *)
(* slots, workers and attempts (even one): the worker whose scan came last *)
(* saw every runnable task, or met the lock of a worker that will scan.    *)
THEOREM WaitMeansAllDone == Spec => []WaitMeansDone
<1>1. IInv => WaitMeansDone
  BY DEF IInv, RRInv, StateInv, MainInv, HopeInv, Hope, Bound, OwnsCur, OnFiber,
     Submitting, WaitMeansDone
<1>. QED  BY <1>1, Inductive, PTL

-----------------------------------------------------------------------------
(* Turns.                                                                  *)

(* No other step than these two moves the index or picks a task.           *)
LEMMA OthersPickNone ==
  ASSUME RRInv, [Next]_vars, \A w \in Workers : ~ScanLock(w) /\ ~CheckFound(w)
  PROVE  /\ next_task_index' = next_task_index
         /\ \A v \in Workers :
              /\ ~Picks(v)
              /\ pc'[v] = "check" => pc[v] = "check" /\ cur'[v] = cur[v]
<1> USE DEF RRInv, StateInv, LockInv, CoreTypeOK, Picks
<1>1. ASSUME NEW w \in Workers, Acquire(w)
      PROVE  /\ next_task_index' = next_task_index /\ pc'[w] \notin {"check", "switch"}
             /\ \A v \in Workers \ {w} : pc'[v] = pc[v] /\ cur'[v] = cur[v]
  <2>1. next_task_index' = next_task_index /\ pc'[w] \notin {"check", "switch"}
    BY <1>1 DEF Acquire, AcquireEnter, ScanBusy, CheckSkip, ScanEnd, rrVars, Step
  <2>. QED  BY <1>1, <2>1, AcquireIsLocal
<1>2. ASSUME NEW w \in Workers, CoreWorker(w), UNCHANGED rrVars
      PROVE  /\ next_task_index' = next_task_index
             /\ pc[w] # "check" /\ pc'[w] # "check"
             /\ \A v \in Workers \ {w} : pc'[v] = pc[v] /\ cur'[v] = cur[v]
  BY <1>2, CoreIsLocal DEF rrVars, Bound, OwnsCur, OnFiber, Submitting
<1>3. CASE Main
  <2>1. /\ next_task_index' = next_task_index
        /\ \A v \in Workers : /\ pc'[v] \in {"unborn", "acquire", pc[v]}
                              /\ cur'[v] \in {NULL, cur[v]}
                              /\ pc'[v] = "check" => cur'[v] = cur[v]
    BY <1>3 DEF Main, CoreMain, MainSubmit, MainAbort, Wait, Destroy, StartWorker,
       Reinit, rrVars, workerVars, Step
  <2>. QED  BY <2>1
<1>4. CASE UNCHANGED vars
  BY <1>4 DEF vars, coreVars, workerVars, rrVars
<1>. QED  BY <1>1, <1>2, <1>3, <1>4 DEF Next, Worker

(* A slot that had a turn has been passed by the index; for a task that    *)
(* waits the index has yet to come by, and with it any second turn.        *)
LEMMA NextTurns ==
  ASSUME IInv, TurnsInv, RRInv', [TurnsNext]_turnsVars
  PROVE  TurnsInv'
<1>0. /\ RRInv /\ TypeOK /\ JustLocked /\ [Next]_vars
      /\ next_task_index \in Tasks /\ pc \in [Workers -> ProgramPoints]
      /\ cur \in [Workers -> Tasks \cup {NULL}]
  BY DEF IInv, RRInv, TypeOK, CoreTypeOK, TurnsNext, turnsVars
<1>1. CASE UNCHANGED turnsVars
  BY <1>1 DEF turnsVars, vars, coreVars, taskVars, slotVars, workerVars, rrVars,
     TurnsInv, Waiting, Behind
<1>2. CASE TurnsNext
  <2> DEFINE picked == {cur[w] : w \in {v \in Workers : Picks(v)}}
  <2>1. \A t \in Tasks : turns'[t] = IF Waiting(t) /\ Waiting(t)' THEN turns[t] \cup picked
                                                                  ELSE {}
    BY <1>2 DEF TurnsNext, NoteTurns
  <2>2. picked \subseteq Tasks
    <3>1. \A w \in Workers : pc[w] = "check" => cur[w] \in Tasks
      BY <1>0 DEF RRInv, StateInv, LockInv, LocalsInv, OwnsCur
    <3>. QED  BY <3>1 DEF Picks
  <2>3. turns' \in [Tasks -> SUBSET Tasks]
    <3>1. turns' = [t \in Tasks |-> IF Waiting(t) /\ Waiting(t)' THEN turns[t] \cup picked ELSE {}]
      BY <1>2 DEF TurnsNext, NoteTurns
    <3>. QED  BY <2>2, <3>1 DEF TurnsInv
  <2> HIDE DEF picked
  <2>4. ASSUME NEW t \in Tasks, Waiting(t)'
        PROVE  /\ \A s \in turns'[t] : Behind(s)' < Behind(t)'
               /\ \A w \in Workers : pc'[w] = "check" => cur'[w] \notin turns'[t]
    <3>. SUFFICES ASSUME Waiting(t), turns'[t] = turns[t] \cup picked
                  PROVE  /\ \A s \in turns'[t] : Behind(s)' < Behind(t)'
                         /\ \A w \in Workers : pc'[w] = "check" => cur'[w] \notin turns'[t]
      BY <2>1, <2>4
    <3>0. /\ turns[t] \subseteq Tasks /\ \A s \in turns[t] : Behind(s) < Behind(t)
          /\ \A w \in Workers : pc[w] = "check" => cur[w] \notin turns[t]
      BY DEF TurnsInv
    <3>1. ASSUME NEW w \in Workers, ScanLock(w)
          PROVE  /\ \A s \in turns'[t] : Behind(s)' < Behind(t)'
                 /\ \A v \in Workers : pc'[v] = "check" => cur'[v] \notin turns'[t]
      <4>1. /\ cur'[w] = next_task_index /\ pc[w] = "scan" /\ pc'[w] = "check"
            /\ next_task_index' = (next_task_index + 1) % LIMIT
            /\ \A v \in Workers \ {w} : pc'[v] = pc[v] /\ pc[v] # "check"
        BY <1>0, <3>1 DEF ScanLock, Step, RRInv, ScanExclusion
      <4>2. picked = {}
        BY <4>1 DEF picked, Picks
      <4>3. t # next_task_index
        BY <2>4, <4>1 DEF Waiting
      <4>4. \A s \in Tasks : Behind(s) \in 1 .. LIMIT
        BY <1>0, BehindBounds
      <4>5. \A s \in Tasks : Behind(s)' = IF s = next_task_index THEN 1 ELSE Behind(s) + 1
        BY <1>0, <4>1, BehindAdvances
      <4>6. Behind(next_task_index) = LIMIT
        BY <1>0, SchedyAssumption DEF Behind, Tasks
      <4>7. next_task_index \notin turns[t]
        BY <3>0, <4>4, <4>6, SchedyAssumption
      <4>8. ASSUME NEW s \in turns'[t] PROVE Behind(s)' < Behind(t)'
        <5>1. s \in Tasks /\ s # next_task_index /\ Behind(s) < Behind(t)
          BY <3>0, <4>2, <4>7, <4>8
        <5>. QED  BY <4>3, <4>4, <4>5, <5>1, SchedyAssumption
      <4>. QED  BY <4>1, <4>2, <4>7, <4>8
    <3>2. ASSUME NEW w \in Workers, CheckFound(w)
          PROVE  /\ \A s \in turns'[t] : Behind(s)' < Behind(t)'
                 /\ \A v \in Workers : pc'[v] = "check" => cur'[v] \notin turns'[t]
      <4>1. /\ pc[w] = "check" /\ pc'[w] = "switch" /\ cur' = cur
            /\ next_task_index' = next_task_index
            /\ \A v \in Workers \ {w} : pc'[v] = pc[v] /\ pc[v] # "check"
        BY <1>0, <3>2 DEF CheckFound, Step, RRInv, ScanExclusion
      <4>2. picked = {cur[w]}
        BY <4>1 DEF picked, Picks
      <4>3. t # cur[w] /\ cur[w] \in Tasks /\ Behind(cur[w]) = 1
        BY <1>0, <4>1 DEF Waiting, JustLocked, RRInv, StateInv, LockInv, LocalsInv, OwnsCur
      <4>4. Behind(t) \in 1 .. LIMIT /\ Behind(t) # 1
        BY <1>0, <4>3, BehindBounds, BehindInjective
      <4>5. \A s \in Tasks : Behind(s)' = Behind(s)
        BY <4>1, BehindUnchanged
      <4>6. ASSUME NEW s \in turns'[t] PROVE Behind(s)' < Behind(t)'
        <5>1. s \in Tasks /\ (s = cur[w] \/ Behind(s) < Behind(t))
          BY <3>0, <4>2, <4>3, <4>6
        <5>. QED  BY <4>3, <4>4, <4>5, <5>1, SchedyAssumption
      <4>. QED  BY <4>1, <4>6
    <3>3. CASE \A w \in Workers : ~ScanLock(w) /\ ~CheckFound(w)
      <4>1. /\ next_task_index' = next_task_index
            /\ \A v \in Workers :
                 /\ ~Picks(v)
                 /\ pc'[v] = "check" => pc[v] = "check" /\ cur'[v] = cur[v]
        BY <1>0, <3>3, OthersPickNone
      <4>2. turns'[t] = turns[t]
        BY <4>1 DEF picked
      <4>3. \A s \in Tasks : Behind(s)' = Behind(s)
        BY <4>1, BehindUnchanged
      <4>. QED  BY <3>0, <4>1, <4>2, <4>3
    <3>. QED  BY <3>1, <3>2, <3>3
  <2>. QED  BY <2>3, <2>4 DEF TurnsInv
<1>. QED  BY <1>1, <1>2

LEMMA TurnsInvariant == TurnsSpec => [](IInv /\ TurnsInv)
<1>1. TurnsInit => IInv /\ TurnsInv
  <2>. SUFFICES ASSUME TurnsInit PROVE IInv /\ TurnsInv
    OBVIOUS
  <2>1. TurnsInv
    BY DEF TurnsInit, TurnsInv
  <2>. QED  BY <2>1, InitIInv DEF TurnsInit
<1>2. IInv /\ TurnsInv /\ [TurnsNext]_turnsVars => (IInv /\ TurnsInv)'
  <2>. SUFFICES ASSUME IInv, TurnsInv, [TurnsNext]_turnsVars PROVE IInv' /\ TurnsInv'
    OBVIOUS
  <2>1. IInv'
    BY NextIInv DEF TurnsNext, turnsVars
  <2>. QED  BY <2>1, NextTurns DEF IInv
<1>. QED  BY <1>1, <1>2, PTL DEF TurnsSpec

(* While a task waits for its turn, each other slot gets one at most, for  *)
(* any number of slots and workers (sched_acquire_next_rr).                *)
THEOREM TurnsAreRound == TurnsSpec => OneTurnEach
<1>1. TurnsInv => \A w \in Workers : Picks(w) =>
                    \A t \in Tasks : Waiting(t) => cur[w] \notin turns[t]
  BY DEF TurnsInv, Picks
<1>. QED  BY <1>1, TurnsInvariant, PTL DEF OneTurnEach

-----------------------------------------------------------------------------
(* The round-robin scheduler is a task pool.                               *)

LEMMA AcquireRefines ==
  ASSUME RRInv, NEW w \in Workers, Acquire(w)
  PROVE  UNCHANGED Pool!poolVars
<1>1. state' = state /\ mpc' = mpc
  BY DEF Acquire, AcquireEnter, ScanBusy, ScanLock, CheckFound, CheckSkip,
     ScanEnd, taskVars
<1>2. ASSUME NEW t \in Tasks, state[t] \in {"RUNNING", "FINISHED"}
      PROVE  lock'[t] = lock[t]
  <2>1. lock[t] # NULL /\ pc[lock[t]] # "check" /\ lock[t] \in Workers
    BY <1>2, SchedyAssumption
    DEF RRInv, StateInv, SlotInv, Resting, OnFiber, Submitting
  <2>2. CASE ScanLock(w)
    BY <2>1, <2>2 DEF ScanLock, RRInv, StateInv, LockInv, TypeOK, CoreTypeOK
  <2>3. CASE CheckSkip(w)
    <3>1. lock[cur[w]] = w /\ pc[w] = "check"
      BY <2>3 DEF CheckSkip, Step, RRInv, StateInv, LockInv, LocalsInv,
         MutualExclusion, Holds, OwnsCur
    <3>. QED  BY <2>1, <2>3, <3>1
         DEF CheckSkip, RRInv, StateInv, LockInv, TypeOK, CoreTypeOK
  <2>4. CASE ~ScanLock(w) /\ ~CheckSkip(w)
    BY <2>4 DEF Acquire, AcquireEnter, ScanBusy, CheckFound, ScanEnd, taskVars
  <2>. QED  BY <2>2, <2>3, <2>4
<1>. QED  BY <1>1, <1>2, StutterRefines

LEMMA StepRefines ==
  IInv /\ IInv' /\ [Next]_vars => [Pool!Next]_(Pool!poolVars)
<1> SUFFICES ASSUME IInv, IInv', [Next]_vars
             PROVE  [Pool!Next]_(Pool!poolVars)
  OBVIOUS
<1>. USE DEF IInv, RRInv
<1>1. ASSUME NEW w \in Workers, Worker(w) PROVE [Pool!Next]_(Pool!poolVars)
  BY <1>1, AcquireRefines, CoreRefines DEF Worker, Pool!Next
<1>2. CASE Wait
  <2>1. \A t \in Tasks : state[t] = "ZOMBIE"
    BY <1>2 DEF Wait, HopeInv, Hope, Bound, OwnsCur, OnFiber, Submitting
  <2>2. Pool!Close
    BY <1>2, <2>1 DEF Wait, Pool!Close, Pool!AllIdle, PoolStatus, PoolRunner,
       PoolWaited, taskVars
  <2>. QED  BY <2>2 DEF Pool!Next
<1>3. ASSUME NEW t \in Tasks, MainSubmit(t) PROVE [Pool!Next]_(Pool!poolVars)
  BY <1>3, MainRefines DEF Pool!Next
<1>4. CASE CoreMain /\ ~Wait
  BY <1>4, QuietMainRefines
<1>5. CASE Reinit
  <2>1. \A t \in Tasks : state[t] = "ZOMBIE"
    BY <1>5 DEF Reinit, StateInv, MainInv, HopeInv, Hope, Bound, OwnsCur,
       OnFiber, Submitting
  <2>2. Pool!Reopen
    BY <1>5, <2>1 DEF Reinit, Pool!Reopen, PoolStatus, PoolRunner, PoolWaited
  <2>. QED  BY <2>2 DEF Pool!Next
<1>6. CASE UNCHANGED vars
  BY <1>6, IdleRefines DEF vars
<1>. QED  BY <1>1, <1>2, <1>3, <1>4, <1>5, <1>6 DEF Next, Main

(* The round-robin scheduler keeps the promises of TaskPool, for every     *)
(* number of slots, workers, attempts and submissions.                     *)
THEOREM RefinesTaskPool == Spec => ImplementsTaskPool
BY InitRefines, StepRefines, Inductive, PTL
DEF Spec, Init, ImplementsTaskPool, Pool!Spec

=============================================================================
