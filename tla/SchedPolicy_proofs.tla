------------------------- MODULE SchedPolicy_proofs -------------------------
(***************************************************************************)
(* What SchedMLFQ and SchedCFS have in common of their invariants: how     *)
(* each step of sched_acquire_next_policy and of the core moves a task     *)
(* between the queues and the hands of the workers.                        *)
(***************************************************************************)
EXTENDS SchedPolicy, Schedy_proofs, FiniteSetTheorems

USE DEF TryLock, UnlockTask, ClearWorker, OnFinish, Fail, slotVars, mainVars,
        restVars

PolicyInv ==
  /\ StateInv
  /\ \A w \in Workers : pc[w] \in InHand => cur[w] \in Tasks

(* The thieves stay among the queues there are.                            *)
LEMMA VictimIsWorker ==
  ASSUME PolicyInv, NEW w \in Workers
  PROVE  Victim(w) \in Workers
<1>1. w \in Nat /\ idx[w] \in Nat
  BY DEF Workers, PolicyInv, StateInv, LockInv, CoreTypeOK
<1>2. w + idx[w] + 1 \in Int
  BY <1>1
<1>3. (w + idx[w] + 1) % WORKERS \in 0 .. WORKERS - 1
  BY <1>2, SchedyAssumption
<1>. QED  BY <1>3 DEF Victim, Workers

(* A task in a queue: nobody else has it, and it waits for its turn.       *)
AtRest(t) == state[t] = "RUNNABLE" /\ Keepers(t) = {}

(* A task in no queue: one worker has it, if it is not a zombie, and if it *)
(* was dequeued it still waits for its turn.                               *)
InOneHand(t) ==
  /\ \A v, w \in Keepers(t) : v = w
  /\ \A w \in Keepers(t) : pc[w] \in InHand => state[t] = "RUNNABLE"
  /\ state[t] = "ZOMBIE" <=> Keepers(t) = {}

StaysPut(t) == (AtRest(t) => AtRest(t)') /\ (InOneHand(t) => InOneHand(t)')

AllPlaced == \A t \in Tasks : AtRest(t) \/ InOneHand(t)

(* A step of worker w in which it neither gets nor loses task t.           *)
LEMMA KeepingStays ==
  ASSUME NEW w \in Workers, NEW t \in Tasks,
         \A v \in Workers \ {w} :
           pc'[v] = pc[v] /\ cur'[v] = cur[v] /\ idx'[v] = idx[v],
         state'[t] = state[t] \/ {state[t], state'[t]} \subseteq {"RUNNABLE", "RUNNING", "FINISHED"},
         state'[t] # state[t] => w \in Keepers(t),
         w \in Keepers(t)' <=> w \in Keepers(t),
         w \in Keepers(t)' /\ pc'[w] \in InHand => state'[t] = "RUNNABLE"
  PROVE  StaysPut(t)
<1>1. Keepers(t)' = Keepers(t)
  BY DEF Keepers
<1>2. AtRest(t) => AtRest(t)'
  BY <1>1 DEF AtRest
<1>3. ASSUME InOneHand(t) PROVE InOneHand(t)'
  <2>1. \A v \in Keepers(t)' : v # w => w \notin Keepers(t)
    BY <1>1, <1>3 DEF InOneHand
  <2>2. ASSUME NEW v \in Keepers(t)', pc'[v] \in InHand
        PROVE  state'[t] = "RUNNABLE"
    <3>1. CASE v = w
      BY <2>2, <3>1
    <3>2. CASE v # w
      BY <1>1, <1>3, <2>1, <2>2, <3>2 DEF InOneHand, Keepers
    <3>. QED  BY <3>1, <3>2
  <2>. QED  BY <1>1, <1>3, <2>2 DEF InOneHand
<1>. QED  BY <1>2, <1>3 DEF StaysPut

LEMMA CoreStays ==
  ASSUME PolicyInv, NEW w \in Workers, CoreWorker(w), NEW t \in Tasks
  PROVE  StaysPut(t)
<1>. USE PolicyAssumption, SchedyAssumption
     DEF PolicyInv, StateInv, LockInv, CoreTypeOK, LocalsInv, Step, InHand,
         Owners, OnFiber, Submitting, OwnsCur, OwnsSlot
<1>1. CASE SwitchTo(w)
  BY <1>1, KeepingStays DEF SwitchTo, Keepers, WorkerInv, IsReady
<1>2. CASE TaskYield(w)
  BY <1>2, KeepingStays DEF TaskYield, SwitchToScheduler, Keepers
<1>3. CASE TaskExit(w)
  BY <1>3, KeepingStays DEF TaskExit, SwitchToScheduler, Keepers, WorkerInv
<1>4. CASE TaskSubmit(w)
  BY <1>4, KeepingStays DEF TaskSubmit, Keepers, taskVars
<1>5. CASE SubmitTryLock(w)
  BY <1>5, KeepingStays DEF SubmitTryLock, Keepers
<1>6. CASE SubmitFill(w)
  <2>1. CASE t # idx[w]
    BY <1>6, <2>1, KeepingStays DEF SubmitFill, Fill, CallPolicy, Keepers
  <2>2. CASE t = idx[w]
    <3>1. state[t] = "ZOMBIE" /\ mpc # "destroyed" /\ pc[w] = "fill"
      BY <1>6, <2>2
      DEF SubmitFill, IsFree, SlotInv, WorkerInv, Resting, MainInv
    <3>2. pc' = [pc EXCEPT ![w] = "on_submit"] /\ cur' = cur /\ idx' = idx
      BY <1>6 DEF SubmitFill, CallPolicy
    <3>3. state'[t] = "RUNNABLE"
      BY <1>6, <2>2 DEF SubmitFill, Fill
    <3>4. Keepers(t)' = Keepers(t) \cup {w}
      BY <2>2, <3>1, <3>2 DEF Keepers
    <3>5. InOneHand(t) => Keepers(t)' = {w}
      BY <3>1, <3>4 DEF InOneHand
    <3>. QED  BY <3>1, <3>2, <3>3, <3>5 DEF StaysPut, AtRest, InOneHand
  <2>. QED  BY <2>1, <2>2
<1>7. CASE SubmitSkip(w)
  BY <1>7, KeepingStays DEF SubmitSkip, Keepers
<1>8. CASE SubmitRetry(w)
  BY <1>8, KeepingStays DEF SubmitRetry, Keepers, taskVars
<1>9. CASE Submitted(w)
  BY <1>9, KeepingStays DEF Submitted, Keepers
<1>10. CASE Unlock(w)
  BY <1>10, KeepingStays DEF Unlock, Keepers
<1>11. CASE ReleaseFinished(w)
  <2>1. CASE t # cur[w]
    BY <1>11, <2>1, KeepingStays DEF ReleaseFinished, Keepers
  <2>2. CASE t = cur[w]
    <3>1. state[t] = "FINISHED" /\ state'[t] = "ZOMBIE"
      BY <1>11, <2>2 DEF ReleaseFinished
    <3>2. /\ pc[w] = "release" /\ pc' = [pc EXCEPT ![w] = "unlock"]
          /\ cur' = cur /\ idx' = idx
      BY <1>11 DEF ReleaseFinished
    <3>3. w \in Keepers(t) /\ Keepers(t)' = Keepers(t) \ {w}
      BY <2>2, <3>2 DEF Keepers
    <3>4. InOneHand(t) => Keepers(t)' = {}
      BY <3>3 DEF InOneHand
    <3>. QED  BY <3>1, <3>4 DEF StaysPut, AtRest, InOneHand
  <2>. QED  BY <2>1, <2>2
<1>12. CASE ReleaseYielded(w)
  BY <1>12, KeepingStays DEF ReleaseYielded, CallPolicy, Keepers
<1>. QED  BY <1>1, <1>2, <1>3, <1>4, <1>5, <1>6, <1>7, <1>8, <1>9, <1>10,
             <1>11, <1>12 DEF CoreWorker

LEMMA CorePolicyInv ==
  ASSUME PolicyInv, NEW w \in Workers, CoreWorker(w)
  PROVE  PolicyInv'
<1>1. StateInv'
  BY CoreStateInv DEF PolicyInv
<1>2. /\ pc'[w] \notin InHand
      /\ \A v \in Workers \ {w} : pc'[v] = pc[v] /\ cur'[v] = cur[v]
  BY DEF PolicyInv, StateInv, LockInv, CoreTypeOK, LocalsInv, Step, InHand,
     OnFiber, Submitting, CoreWorker, SwitchTo, TaskYield, TaskExit,
     SwitchToScheduler, TaskSubmit, SubmitTryLock, SubmitFill, SubmitSkip,
     SubmitRetry, Submitted, Unlock, ReleaseFinished, ReleaseYielded,
     CallPolicy
<1>. QED  BY <1>1, <1>2 DEF PolicyInv

(* The lock of a dequeued task is tried, and its state then looked at.     *)
LEMMA TryLockPolicyInv ==
  ASSUME PolicyInv, AllPlaced, NEW w \in Workers, TryLockTask(w)
  PROVE  PolicyInv' /\ \A t \in Tasks : StaysPut(t)
<1>. USE SchedyAssumption
     DEF PolicyInv, StateInv, LockInv, CoreTypeOK, Step, InHand
<1>1. pc[w] = "try_lock" /\ cur[w] \in Tasks
  BY DEF TryLockTask
<1>2. state[cur[w]] = "RUNNABLE"
  BY <1>1 DEF AllPlaced, AtRest, InOneHand, Keepers, Owners
<1>3. \A t \in Tasks : StaysPut(t)
  BY <1>1, <1>2, KeepingStays DEF TryLockTask, Keepers, Owners, OnFiber, Submitting
<1>4. CoreTypeOK'
  BY DEF TryLockTask, ProgramPoints, OwnsCur
<1>5. LocalsInv'
  BY <1>1 DEF TryLockTask, LocalsInv, OwnsCur, OwnsSlot, OnFiber, Submitting
<1>6. MutualExclusion'
  BY <1>1 DEF TryLockTask, MutualExclusion, Holds, OwnsCur, OwnsSlot, OnFiber,
     Submitting, LocalsInv
<1>7. SlotInv'
  BY <1>1 DEF TryLockTask, SlotInv, Resting, OnFiber, Submitting
<1>8. WorkerInv' /\ MainInv'
  BY <1>1, <1>2
  DEF TryLockTask, WorkerInv, MainInv, IsReady, Resting, OwnsSlot, OnFiber,
      Submitting
<1>. QED  BY <1>1, <1>3, <1>4, <1>5, <1>6, <1>7, <1>8 DEF TryLockTask

LEMMA CheckedIsReady ==
  ASSUME PolicyInv, AllPlaced, NEW w \in Workers, pc[w] = "check"
  PROVE  IsReady(cur[w])
<1>1. cur[w] \in Tasks /\ Resting(cur[w])
  BY DEF PolicyInv, StateInv, LockInv, LocalsInv, WorkerInv, OwnsCur
<1>2. state[cur[w]] # "ZOMBIE"
  BY <1>1 DEF AllPlaced, AtRest, InOneHand, Keepers, Owners
<1>3. mpc # "destroyed"
  BY DEF PolicyInv, StateInv, MainInv
<1>. QED  BY <1>1, <1>2, <1>3
     DEF PolicyInv, StateInv, SlotInv, IsReady, Resting

LEMMA CheckPolicyInv ==
  ASSUME PolicyInv, AllPlaced, NEW w \in Workers, CheckTask(w)
  PROVE  PolicyInv' /\ \A t \in Tasks : StaysPut(t)
<1>. USE DEF PolicyInv, StateInv, LockInv, CoreTypeOK, Step, InHand
<1>1. /\ IsReady(cur[w]) /\ pc[w] = "check" /\ UNCHANGED lock
      /\ pc' = [pc EXCEPT ![w] = "switch"]
  BY CheckedIsReady DEF CheckTask
<1>2. UNCHANGED <<thread, worker, state, lock, cur, idx, attempt, running_task,
                  finished, mpc, submitted>>
  BY <1>1 DEF CheckTask
<1>3. \A t \in Tasks : StaysPut(t)
  BY <1>1, <1>2, KeepingStays DEF Keepers, Owners, OnFiber, Submitting
<1>4. CoreTypeOK' /\ LocalsInv'
  BY <1>1, <1>2
  DEF ProgramPoints, LocalsInv, OwnsCur, OwnsSlot, OnFiber, Submitting
<1>5. MutualExclusion'
  BY <1>1, <1>2
  DEF MutualExclusion, Holds, OwnsCur, OwnsSlot, OnFiber, Submitting
<1>6. SlotInv' /\ WorkerInv' /\ MainInv'
  BY <1>1, <1>2
  DEF SlotInv, WorkerInv, MainInv, IsReady, Resting, OwnsSlot, OnFiber,
      Submitting
<1>. QED  BY <1>1, <1>2, <1>3, <1>4, <1>5, <1>6

LEMMA PolicyWorkerInv ==
  ASSUME PolicyInv, AllPlaced, NEW w \in Workers, PolicyWorker(w)
  PROVE  PolicyInv' /\ \A t \in Tasks : StaysPut(t)
BY CorePolicyInv, CoreStays, TryLockPolicyInv, CheckPolicyInv DEF PolicyWorker

-----------------------------------------------------------------------------
(* The steps of a policy's callbacks.                                      *)

Searching == {"acquire", "dequeue", "steal", "steal_pop"}

(* A step of a worker that owns no lock of a task, before or after it.     *)
LEMMA IdleStepInv ==
  ASSUME PolicyInv, NEW w \in Workers,
         pc[w] \in Searching \cup {"requeue", "retry_insert"},
         NEW to \in Searching \cup {"exited", "try_lock", "retry_insert"},
         pc' = [pc EXCEPT ![w] = to],
         cur' \in [Workers -> Tasks \cup {NULL}],
         idx' \in [Workers -> Nat], attempt' \in [Workers -> Nat],
         \A v \in Workers \ {w} : cur'[v] = cur[v] /\ idx'[v] = idx[v],
         to \in InHand => cur'[w] \in Tasks,
         UNCHANGED <<taskVars, restVars>>
  PROVE  PolicyInv'
<1>. USE DEF PolicyInv, StateInv, LockInv, Searching, taskVars
<1>1. CoreTypeOK'
  BY DEF CoreTypeOK, ProgramPoints, OwnsCur
<1>. USE DEF CoreTypeOK, OwnsCur, OwnsSlot, OnFiber, Submitting
<1>2. LocalsInv'
  BY DEF LocalsInv
<1>3. MutualExclusion'
  BY DEF MutualExclusion, Holds
<1>4. SlotInv'
  BY DEF SlotInv, Resting
<1>5. WorkerInv' /\ MainInv'
  BY DEF WorkerInv, MainInv, IsReady, Resting
<1>6. \A v \in Workers : pc'[v] \in InHand => cur'[v] \in Tasks
  BY DEF InHand
<1>. QED  BY <1>1, <1>2, <1>3, <1>4, <1>5, <1>6

LEMMA SearchInv ==
  ASSUME PolicyInv, NEW w \in Workers, NEW from \in Searching,
         NEW to \in (Searching \ {"acquire"}) \cup {"exited"},
         Step(w, from, to), idx' \in [Workers -> Nat],
         \A v \in Workers \ {w} : idx'[v] = idx[v],
         UNCHANGED <<taskVars, cur, attempt, restVars>>
  PROVE  PolicyInv' /\ \A t \in Tasks : StaysPut(t)
<1>. USE DEF Step, PolicyInv, StateInv, LockInv, CoreTypeOK, Searching
<1>1. PolicyInv'
  BY IdleStepInv DEF InHand
<1>2. \A t \in Tasks : StaysPut(t)
  BY KeepingStays
  DEF Keepers, InHand, Owners, OnFiber, Submitting, taskVars
<1>. QED  BY <1>1, <1>2

LEMMA DequeuedInv ==
  ASSUME PolicyInv, NEW w \in Workers, NEW from \in Searching,
         NEW t \in Tasks, Dequeued(w, from, t)
  PROVE  /\ PolicyInv'
         /\ AtRest(t) => InOneHand(t)'
         /\ \A u \in Tasks \ {t} : StaysPut(u)
<1>. USE DEF Step, PolicyInv, StateInv, LockInv, CoreTypeOK, Searching, Dequeued,
             taskVars
<1>1. PolicyInv'
  BY IdleStepInv DEF InHand
<1>2. \A u \in Tasks \ {t} : StaysPut(u)
  BY KeepingStays DEF Keepers, InHand, Owners, OnFiber, Submitting
<1>3. Keepers(t)' = Keepers(t) \cup {w}
  BY DEF Keepers, InHand, Owners, OnFiber, Submitting
<1>4. AtRest(t) => InOneHand(t)'
  BY <1>3 DEF AtRest, InOneHand
<1>. QED  BY <1>1, <1>2, <1>4

(* A worker comes to the lock of the queue it will put its task into.      *)
LEMMA ApproachInv ==
  ASSUME PolicyInv, NEW w \in Workers, NEW from, NEW to,
         Inside(w, from, to),
         \/ from = "on_submit" /\ to = "submit_insert"
         \/ from = "on_yield" /\ to = "yield_insert"
         \/ from = "requeue" /\ to = "retry_insert"
  PROVE  PolicyInv' /\ \A t \in Tasks : StaysPut(t)
<1>. USE DEF Step, PolicyInv, StateInv, LockInv, CoreTypeOK, Inside, taskVars
<1>1. \A t \in Tasks : StaysPut(t)
  <2>. SUFFICES ASSUME NEW t \in Tasks PROVE StaysPut(t)
    OBVIOUS
  <2>1. w \in Keepers(t)' <=> w \in Keepers(t)
    BY DEF Keepers, InHand, Owners, OnFiber, Submitting
  <2>2. \A v \in Workers \ {w} : pc'[v] = pc[v]
    OBVIOUS
  <2>3. CASE from = "requeue"
    <3>1. InOneHand(t) /\ w \in Keepers(t) => state[t] = "RUNNABLE"
      BY <2>3 DEF InOneHand, InHand
    <3>2. w \notin Keepers(t) => StaysPut(t)
      BY <2>1, <2>2, KeepingStays
    <3>3. w \in Keepers(t) /\ InOneHand(t) => StaysPut(t)
      BY <2>1, <2>2, <3>1, KeepingStays
    <3>4. w \in Keepers(t) /\ ~InOneHand(t) => StaysPut(t)
      BY DEF StaysPut, AtRest
    <3>. QED  BY <3>2, <3>3, <3>4
  <2>4. CASE from # "requeue"
    BY <2>1, <2>2, <2>4, KeepingStays DEF InHand
  <2>. QED  BY <2>3, <2>4
<1>2. CASE from = "requeue"
  BY <1>1, <1>2, IdleStepInv DEF InHand
<1>3. CASE from # "requeue"
  <2>. USE DEF OwnsCur, OwnsSlot, OnFiber, Submitting
  <2>1. CoreTypeOK' /\ LocalsInv'
    BY <1>3 DEF ProgramPoints, LocalsInv
  <2>2. MutualExclusion'
    BY <1>3 DEF MutualExclusion, Holds
  <2>3. SlotInv'
    BY <1>3 DEF SlotInv, Resting
  <2>4. WorkerInv' /\ MainInv'
    BY <1>3 DEF WorkerInv, MainInv, IsReady, Resting
  <2>5. \A v \in Workers : pc'[v] \in InHand => cur'[v] \in Tasks
    BY <1>3 DEF InHand
  <2>. QED  BY <1>1, <2>1, <2>2, <2>3, <2>4, <2>5
<1>. QED  BY <1>2, <1>3

(* A worker lets go of a task that waits for its turn: it is queued now.   *)
LEMMA LettingGo ==
  ASSUME AllPlaced, NEW w \in Workers, NEW t \in Tasks,
         state' = state, state[t] = "RUNNABLE",
         w \in Keepers(t), ~(w \in Keepers(t)'),
         \A u \in Tasks \ {t} :
           /\ w \in Keepers(u)' <=> w \in Keepers(u)
           /\ w \in Keepers(u)' => pc'[w] \notin InHand,
         \A v \in Workers \ {w} :
           pc'[v] = pc[v] /\ cur'[v] = cur[v] /\ idx'[v] = idx[v]
  PROVE  AtRest(t)' /\ \A u \in Tasks \ {t} : StaysPut(u)
<1>1. \A u \in Tasks \ {t} : StaysPut(u)
  BY KeepingStays
<1>2. Keepers(t)' = Keepers(t) \ {w}
  BY DEF Keepers
<1>3. InOneHand(t)
  BY DEF AllPlaced, AtRest
<1>4. Keepers(t)' = {}
  BY <1>2, <1>3 DEF InOneHand
<1>. QED  BY <1>1, <1>4 DEF AtRest

LEMMA InsertSubmittedInv ==
  ASSUME PolicyInv, AllPlaced, NEW w \in Workers,
         Inside(w, "submit_insert", "submitted")
  PROVE  /\ PolicyInv' /\ idx[w] \in Tasks /\ AtRest(idx[w])'
         /\ \A u \in Tasks \ {idx[w]} : StaysPut(u)
<1>. USE DEF Step, PolicyInv, StateInv, LockInv, CoreTypeOK, Inside, taskVars,
             OwnsCur, OwnsSlot, OnFiber, Submitting
<1>1. idx[w] \in Tasks /\ state[idx[w]] = "RUNNABLE"
  BY DEF LocalsInv, WorkerInv, IsReady
<1>2. CoreTypeOK' /\ LocalsInv'
  BY DEF ProgramPoints, LocalsInv
<1>3. MutualExclusion'
  BY DEF MutualExclusion, Holds
<1>4. SlotInv'
  BY DEF SlotInv, Resting
<1>5. WorkerInv' /\ MainInv'
  BY DEF WorkerInv, MainInv, IsReady, Resting
<1>6. \A v \in Workers : pc'[v] \in InHand => cur'[v] \in Tasks
  BY DEF InHand
<1>7. AtRest(idx[w])' /\ \A u \in Tasks \ {idx[w]} : StaysPut(u)
  <2>1. cur[w] # idx[w]
    BY DEF LocalsInv
  <2>2. w \in Keepers(idx[w]) /\ ~(w \in Keepers(idx[w])')
    BY <2>1 DEF Keepers, InHand, Owners
  <2>3. \A u \in Tasks \ {idx[w]} :
          /\ w \in Keepers(u)' <=> w \in Keepers(u)
          /\ pc'[w] \notin InHand
    BY DEF Keepers, InHand, Owners
  <2>. QED  BY <1>1, <2>2, <2>3, LettingGo
<1>. QED  BY <1>1, <1>2, <1>3, <1>4, <1>5, <1>6, <1>7

LEMMA InsertYieldedInv ==
  ASSUME PolicyInv, AllPlaced, NEW w \in Workers,
         NEW from \in {"on_yield", "yield_insert"}, Inside(w, from, "unlock")
  PROVE  /\ PolicyInv' /\ cur[w] \in Tasks /\ AtRest(cur[w])'
         /\ \A u \in Tasks \ {cur[w]} : StaysPut(u)
<1>. USE DEF Step, PolicyInv, StateInv, LockInv, CoreTypeOK, Inside, taskVars,
             OwnsCur, OwnsSlot, OnFiber, Submitting
<1>1. cur[w] \in Tasks /\ state[cur[w]] = "RUNNABLE"
  BY DEF LocalsInv, WorkerInv, IsReady
<1>2. CoreTypeOK' /\ LocalsInv'
  BY DEF ProgramPoints, LocalsInv
<1>3. MutualExclusion'
  BY DEF MutualExclusion, Holds
<1>4. SlotInv'
  BY DEF SlotInv, Resting
<1>5. WorkerInv' /\ MainInv'
  BY <1>1 DEF WorkerInv, MainInv, IsReady, Resting
<1>6. \A v \in Workers : pc'[v] \in InHand => cur'[v] \in Tasks
  BY DEF InHand
<1>7. AtRest(cur[w])' /\ \A u \in Tasks \ {cur[w]} : StaysPut(u)
  <2>1. w \in Keepers(cur[w]) /\ ~(w \in Keepers(cur[w])')
    BY DEF Keepers, InHand, Owners
  <2>2. \A u \in Tasks \ {cur[w]} :
          /\ w \in Keepers(u)' <=> w \in Keepers(u)
          /\ pc'[w] \notin InHand
    BY DEF Keepers, InHand, Owners
  <2>. QED  BY <1>1, <2>1, <2>2, LettingGo
<1>. QED  BY <1>1, <1>2, <1>3, <1>4, <1>5, <1>6, <1>7

LEMMA RetryInv ==
  ASSUME PolicyInv, AllPlaced, NEW w \in Workers,
         NEW from \in {"requeue", "retry_insert"}, Retry(w, from)
  PROVE  /\ PolicyInv'
         /\ \E t \in Tasks : /\ t = cur[w] /\ AtRest(t)'
                             /\ \A u \in Tasks \ {t} : StaysPut(u)
<1>. USE SchedyAssumption
     DEF Step, PolicyInv, StateInv, LockInv, CoreTypeOK, Retry, taskVars
<1>1. PICK t \in Tasks : t = cur[w] /\ w \in Keepers(t)
  BY DEF Keepers, InHand
<1>2. state[t] = "RUNNABLE"
  BY <1>1 DEF AllPlaced, AtRest, InOneHand, InHand
<1>3. PICK to \in {"acquire", "exited"} : pc' = [pc EXCEPT ![w] = to]
  OBVIOUS
<1>4. PolicyInv'
  <2>1. /\ cur' \in [Workers -> Tasks \cup {NULL}]
        /\ attempt' \in [Workers -> Nat] /\ idx' = idx
    OBVIOUS
  <2>. QED  BY <1>3, <2>1, IdleStepInv DEF InHand, Searching
<1>5. AtRest(t)' /\ \A u \in Tasks \ {t} : StaysPut(u)
  <2>1. \A u \in Tasks : ~(w \in Keepers(u)')
    BY <1>3 DEF Keepers, InHand, Owners, OnFiber, Submitting
  <2>2. \A u \in Tasks \ {t} : w \notin Keepers(u)
    BY <1>1 DEF Keepers
  <2>3. \A v \in Workers \ {w} :
          pc'[v] = pc[v] /\ cur'[v] = cur[v] /\ idx'[v] = idx[v]
    BY <1>3
  <2>. QED  BY <1>1, <1>2, <2>1, <2>2, <2>3, LettingGo
<1>. QED  BY <1>1, <1>4, <1>5

-----------------------------------------------------------------------------
(* The main thread.                                                        *)

LEMMA CoreMainPolicyInv ==
  ASSUME PolicyInv, CoreMain
  PROVE  PolicyInv' /\ \A t \in Tasks : StaysPut(t)
<1>. USE DEF PolicyInv, StateInv, LockInv, CoreTypeOK
<1>1. StateInv'
  BY MainStateInv DEF MainStep
<1>2. CASE MainAbort \/ Wait \/ Destroy
  BY <1>1, <1>2
  DEF MainAbort, Wait, Destroy, taskVars, workerVars, StaysPut, AtRest,
      InOneHand, Keepers
<1>3. ASSUME NEW w \in Workers, StartWorker(w)
      PROVE  PolicyInv' /\ \A t \in Tasks : StaysPut(t)
  <2>1. pc[w] = "unborn" /\ pc' = [pc EXCEPT ![w] = "acquire"]
    BY <1>3 DEF StartWorker, Step
  <2>2. \A t \in Tasks : Keepers(t)' = Keepers(t) /\ w \notin Keepers(t)
    BY <1>3, <2>1
    DEF StartWorker, Keepers, InHand, Owners, OnFiber, Submitting
  <2>3. \A t \in Tasks : StaysPut(t)
    BY <1>3, <2>1, <2>2
    DEF StartWorker, taskVars, StaysPut, AtRest, InOneHand, Keepers
  <2>4. \A v \in Workers : pc'[v] \in InHand => cur'[v] \in Tasks
    BY <1>3, <2>1 DEF StartWorker, InHand
  <2>. QED  BY <1>1, <2>3, <2>4
<1>. QED  BY <1>2, <1>3 DEF CoreMain

(* A submission of the main thread goes straight into a queue.             *)
LEMMA MainSubmitInv ==
  ASSUME PolicyInv, NEW t \in Tasks, MainSubmit(t)
  PROVE  PolicyInv' /\ AtRest(t)' /\ \A u \in Tasks \ {t} : StaysPut(u)
<1>. USE DEF PolicyInv, StateInv, LockInv, CoreTypeOK
<1>1. StateInv'
  BY MainStateInv DEF MainStep
<1>2. /\ \A v \in Workers : pc[v] = "unborn" /\ pc'[v] = "unborn"
      /\ state' = [state EXCEPT ![t] = "RUNNABLE"]
  BY DEF MainSubmit, MainInv, Fill, workerVars
<1>3. \A u \in Tasks : Keepers(u) = {} /\ Keepers(u)' = {}
  BY <1>2 DEF Keepers, InHand, Owners, OnFiber, Submitting
<1>. QED  BY <1>1, <1>2, <1>3 DEF StaysPut, AtRest, InOneHand, InHand

LEMMA ReinitInv ==
  ASSUME PolicyInv, Reinit
  PROVE  PolicyInv' /\ \A t \in Tasks : InOneHand(t)'
<1>1. StateInv'
  BY MainStateInv DEF MainStep, PolicyInv
<1>2. \A v \in Workers : pc'[v] = "unborn"
  BY DEF Reinit
<1>3. \A t \in Tasks : Keepers(t)' = {} /\ state'[t] = "ZOMBIE"
  BY <1>2 DEF Reinit, Keepers, InHand, Owners, OnFiber, Submitting
<1>. QED  BY <1>1, <1>2, <1>3 DEF PolicyInv, InOneHand, InHand

LEMMA InitPolicyInv ==
  CoreInit => PolicyInv /\ \A t \in Tasks : InOneHand(t)
<1>. SUFFICES ASSUME CoreInit
              PROVE  PolicyInv /\ \A t \in Tasks : InOneHand(t)
  OBVIOUS
<1>1. StateInv
  BY InitStateInv
<1>2. \A t \in Tasks : Keepers(t) = {} /\ state[t] = "ZOMBIE"
  BY DEF CoreInit, Keepers, InHand, Owners, OnFiber, Submitting
<1>. QED  BY <1>1, <1>2 DEF CoreInit, PolicyInv, InOneHand, InHand

LEMMA StutterPolicyInv ==
  ASSUME PolicyInv, UNCHANGED coreVars
  PROVE  PolicyInv' /\ \A t \in Tasks : StaysPut(t)
<1>1. StateInv'
  BY StutterStateInv DEF PolicyInv
<1>. QED  BY <1>1
     DEF coreVars, taskVars, workerVars, PolicyInv, StaysPut, AtRest,
         InOneHand, Keepers

-----------------------------------------------------------------------------
(* When a worker leaves.                                                   *)

(* A worker has found its own queue empty: it looks at those of others, or *)
(* has left with attempts to spare. Its queue stays empty: nobody else     *)
(* fills it.                                                               *)
FoundNone(w) ==
  \/ pc[w] \in {"steal", "steal_pop"}
  \/ pc[w] = "exited" /\ attempt[w] < ATTEMPTS

(* The steps between the queues do not come there.                         *)
LEMMA PolicyWorkerFindsSome ==
  ASSUME PolicyInv, AllPlaced, NEW w \in Workers, PolicyWorker(w),
         NEW v \in Workers, FoundNone(v)'
  PROVE  FoundNone(v)
<1>. USE SchedyAssumption
     DEF PolicyInv, StateInv, LockInv, CoreTypeOK, Step, FoundNone
<1>1. CASE CoreWorker(w)
  BY <1>1
  DEF CoreWorker, SwitchTo, TaskYield, TaskExit, SwitchToScheduler, TaskSubmit,
      SubmitTryLock, SubmitFill, SubmitSkip, SubmitRetry, Submitted, Unlock,
      ReleaseFinished, ReleaseYielded, CallPolicy, LocalsInv, OnFiber, OwnsCur
<1>2. CASE TryLockTask(w) \/ CheckTask(w)
  BY <1>2 DEF TryLockTask, CheckTask
<1>. QED  BY <1>1, <1>2 DEF PolicyWorker

LEMMA MainFindsSome ==
  ASSUME PolicyInv, NEW t \in Tasks, CoreMain \/ MainSubmit(t) \/ Reinit,
         NEW v \in Workers, FoundNone(v)'
  PROVE  FoundNone(v) /\ pc[v] # "unborn"
BY DEF PolicyInv, StateInv, LockInv, CoreTypeOK, Step, FoundNone, CoreMain,
   MainAbort, Wait, Destroy, StartWorker, MainSubmit, Reinit, workerVars

(* Nor does a failed attempt.                                              *)
LEMMA RetryIsCounted ==
  ASSUME PolicyInv, NEW w \in Workers, NEW from, Retry(w, from),
         NEW v \in Workers, FoundNone(v)'
  PROVE  FoundNone(v) /\ v # w
BY SchedyAssumption
DEF PolicyInv, StateInv, LockInv, CoreTypeOK, Step, FoundNone, Retry

(* After the wait, a task is in a queue or done.                           *)
LEMMA WaitedKeepsNone ==
  ASSUME PolicyInv, mpc \in {"joined", "destroyed"}, NEW t \in Tasks,
         InOneHand(t)
  PROVE  state[t] = "ZOMBIE"
BY DEF PolicyInv, StateInv, MainInv, InOneHand, Keepers, InHand, Owners, OnFiber,
   Submitting

LEMMA WaitedLeavesInOrder ==
  ASSUME PolicyInv, NEW t \in Tasks, NEW queued \in Nat, PlacedOnce(t, queued)
  PROVE  LeftInOrder(t, queued)
<1>. SUFFICES ASSUME mpc \in {"joined", "destroyed"}, state[t] # "ZOMBIE"
              PROVE  state[t] = "RUNNABLE" /\ lock[t] = NULL /\ queued = 1
  BY DEF LeftInOrder, PoolWaited
<1>1. \A w \in Workers : pc[w] = "exited"
  BY DEF PolicyInv, StateInv, MainInv
<1>2. Keepers(t) = {}
  BY <1>1 DEF Keepers, InHand, Owners, OnFiber, Submitting
<1>3. queued = 1
  BY <1>2, FS_EmptySet DEF PlacedOnce
<1>4. state[t] = "RUNNABLE"
  BY <1>1 DEF PolicyInv, StateInv, SlotInv, Resting, OnFiber, Submitting
<1>5. lock[t] = NULL
  BY <1>1
  DEF PolicyInv, StateInv, LockInv, CoreTypeOK, MutualExclusion, Holds, OwnsCur,
      OwnsSlot, OnFiber, Submitting
<1>. QED  BY <1>3, <1>4, <1>5

LEMMA DoneWaitRefines ==
  ASSUME Wait, \A t \in Tasks : state[t] = "ZOMBIE" PROVE Pool!Close
BY DEF Wait, Pool!Close, Pool!AllIdle, PoolStatus, PoolRunner, PoolWaited, taskVars

LEMMA DoneReinitRefines ==
  ASSUME Reinit, \A t \in Tasks : state[t] = "ZOMBIE" PROVE Pool!Reopen
BY DEF Reinit, Pool!Reopen, PoolStatus, PoolRunner, PoolWaited

-----------------------------------------------------------------------------
(* The tasks found in queues are a pool that may close too early.          *)

LEMMA QuietRefines ==
  ASSUME state' = state, lock' = lock, mpc' = mpc
  PROVE  UNCHANGED Pool!poolVars
BY StutterRefines

LEMMA PolicyWorkerRefines ==
  ASSUME PolicyInv, AllPlaced, NEW w \in Workers, PolicyWorker(w)
  PROVE  Pool!Operate \/ UNCHANGED Pool!poolVars
<1>. USE DEF PolicyInv, StateInv, LockInv, CoreTypeOK, Step
<1>1. CASE CoreWorker(w)
  BY <1>1, CoreRefines
<1>2. CASE TryLockTask(w)
  <2>1. ASSUME NEW t \in Tasks, state[t] \in {"RUNNING", "FINISHED"}
        PROVE  lock'[t] = lock[t]
    <3>1. lock[t] # NULL
      BY <2>1, SchedyAssumption DEF SlotInv, Resting
    <3>. QED  BY <1>2, <3>1 DEF TryLockTask
  <2>. QED  BY <1>2, <2>1, StutterRefines DEF TryLockTask
<1>3. CASE CheckTask(w)
  <2>1. IsReady(cur[w])
    BY <1>3, CheckedIsReady DEF CheckTask
  <2>. QED  BY <1>3, <2>1, QuietRefines DEF CheckTask
<1>. QED  BY <1>1, <1>2, <1>3 DEF PolicyWorker

LEMMA WaitRefines ==
  ASSUME PolicyInv, Wait PROVE Pool!CloseEarly
<1>1. \A t \in Tasks : Resting(t)
  BY DEF Wait, PolicyInv, StateInv, SlotInv, OnFiber, Submitting
<1>. QED  BY <1>1
     DEF Wait, Pool!CloseEarly, PoolStatus, PoolRunner, PoolWaited, Resting,
         taskVars

LEMMA ReinitRefines ==
  ASSUME PolicyInv, Reinit PROVE Pool!Forget
<1>1. \A t \in Tasks : Resting(t)
  BY DEF Reinit, PolicyInv, StateInv, SlotInv, MainInv, OnFiber, Submitting
<1>. QED  BY <1>1
     DEF Reinit, Pool!Forget, PoolStatus, PoolRunner, PoolWaited, Resting

-----------------------------------------------------------------------------
(* The count of submissions.                                               *)

LEMMA PolicyWorkerConserves ==
  ASSUME StateInv, Conservation, NEW w \in Workers, PolicyWorker(w)
  PROVE  Conservation'
<1>1. CASE CoreWorker(w)
  BY <1>1, CoreConserves
<1>2. CASE TryLockTask(w) \/ CheckTask(w)
  <2>1. UNCHANGED <<state, finished, mpc, submitted>>
    BY <1>2 DEF TryLockTask, CheckTask
  <2>2. \A v \in Workers : pc'[v] \in {"submit", "fill", "abort"}
                             <=> pc[v] \in {"submit", "fill", "abort"}
    BY <1>2 DEF TryLockTask, CheckTask, Step, StateInv, LockInv, CoreTypeOK
  <2>. QED  BY <2>1, <2>2, QuietConserves
<1>. QED  BY <1>1, <1>2 DEF PolicyWorker

(* What a run queue does between the program points of a submission.       *)
LEMMA QueueStepConserves ==
  ASSUME StateInv, Conservation, NEW w \in Workers,
         UNCHANGED <<taskVars, restVars>>,
         NEW from, from \notin {"submit", "fill", "abort"},
         NEW to, to \notin {"submit", "fill", "abort"},
         Step(w, from, to)
  PROVE  Conservation'
<1>1. \A v \in Workers : pc'[v] \in {"submit", "fill", "abort"}
                           <=> pc[v] \in {"submit", "fill", "abort"}
  BY DEF Step, StateInv, LockInv, CoreTypeOK
<1>. QED  BY <1>1, QuietConserves DEF taskVars

=============================================================================
