------------------------------- MODULE Schedy -------------------------------
(***************************************************************************)
(* The part of the scheduler every policy shares (schedy.c): the table of  *)
(* task slots, the worker loop that switches to a fiber and back, the      *)
(* submission of a task into a free slot and the life of the main thread.  *)
(*                                                                         *)
(* How a worker finds its next task is left to the modules that EXTEND     *)
(* this one: SchedRR (the scan of sched_acquire_next_rr) and SchedPolicy   *)
(* (sched_acquire_next_policy, over the queues of SchedMLFQ or SchedCFS).  *)
(*                                                                         *)
(* A kernel thread is a worker w; pc[w] is where it stands in sched_loop   *)
(* or, while it executes on the stack of a fiber, in that fiber's code.    *)
(***************************************************************************)
EXTENDS Integers, FiniteSets, Functions

CONSTANTS
  LIMIT,                \* SCHED_THREADS_LIMIT, the number of task slots
  WORKERS,              \* SCHED_WORKERS_COUNT, the number of kernel threads
  ATTEMPTS,             \* SCHED_NEXT_MAX_ATTEMPTS, the retry bound
  SUBMITS,              \* bound of the model: tasks submitted per round
  sched_policy_current, \* "RR", "MLFQ" or "CFS"
  NULL

Tasks   == 0 .. LIMIT - 1
Workers == 0 .. WORKERS - 1

ASSUME SchedyAssumption ==
  /\ LIMIT \in Nat \ {0}
  /\ WORKERS \in Nat \ {0}
  /\ ATTEMPTS \in Nat \ {0}
  /\ SUBMITS \in Nat
  /\ sched_policy_current \in {"RR", "MLFQ", "CFS"}
  /\ NULL \notin Tasks \cup Workers

VARIABLES
  \* struct task
  thread,       \* what the saved context of the uthread would resume
  worker,       \* the worker whose sched_thread a yield returns to, or NULL
  state,
  lock,         \* who took the task's spinlock, or NULL while it is free
  \* struct worker and the locals of its kernel thread
  pc,
  cur,          \* the `task` of sched_loop and of the acquire functions
  idx,          \* the slot index `i` of the innermost scan
  attempt,
  running_task,
  finished,     \* statistics.finished
  \* the main thread
  mpc,
  submitted     \* tasks submitted in this round (bounded by SUBMITS)

slotVars   == <<thread, worker, state>>
taskVars   == <<slotVars, lock>>
workerVars == <<pc, cur, idx, attempt, running_task, finished>>
mainVars   == <<mpc, submitted>>
coreVars   == <<taskVars, workerVars, mainVars>>

(* What most steps of a worker leave alone.                                *)
restVars == <<running_task, finished, mainVars>>

(* "reset": context zeroed, entry point NULL; "entry": at the top of its   *)
(* stack with an entry point; "live": being executed; "saved": suspended   *)
(* inside uthread_switch; "freed": unmapped by sched_destroy.              *)
Contexts == {"NULL", "reset", "entry", "live", "saved", "freed"}
States   == {"RUNNABLE", "RUNNING", "FINISHED", "ZOMBIE"}

(* Program points at which worker w executes on the stack of fiber cur[w]  *)
(* (in the body, or inside task_submit), and those at which it owns the    *)
(* lock of cur[w] or of slot idx[w].                                       *)
Submitting == {"submit", "fill", "on_submit", "submit_insert", "submitted",
               "abort"}
OnFiber    == {"fiber"} \cup Submitting
OwnsCur    == OnFiber \cup {"check", "switch", "release", "on_yield",
                            "yield_insert", "unlock"}
OwnsSlot   == {"fill", "on_submit", "submit_insert", "submitted"}

(* "scan" is SchedRR's, "dequeue" and those after it are SchedPolicy's.    *)
ProgramPoints ==
  OwnsCur \cup {"unborn", "acquire", "exited", "scan", "dequeue", "steal",
               "steal_pop", "try_lock", "requeue", "retry_insert"}

Step(w, from, to) ==
  /\ pc[w] = from
  /\ pc' = [pc EXCEPT ![w] = to]

(* Seeded fault: the result of spinlock_try_lock is ignored.               *)
TryLockIgnored(w, t) == lock' = [lock EXCEPT ![t] = w]

(* A successful spinlock_try_lock by w, and the unlock, of a task.         *)
TryLock(w, t) == lock[t] = NULL /\ lock' = [lock EXCEPT ![t] = w]

(* Seeded fault: the lock stays taken.                                     *)
UnlockTaskNever(t) == UNCHANGED lock

UnlockTask(t) == lock' = [lock EXCEPT ![t] = NULL]

(* Seeded fault: the attempts are not counted.                             *)
FailUncounted(w, from, again, done) == Step(w, from, again) /\ UNCHANGED attempt

(* The end of a failed attempt, of which there are at most ATTEMPTS.       *)
Fail(w, from, again, done) ==
  /\ Step(w, from, IF attempt[w] + 1 < ATTEMPTS THEN again ELSE done)
  /\ attempt' = [attempt EXCEPT ![w] = @ + 1]

(* The policy's callback runs next, unless the policy is round-robin.      *)
CallPolicy(callback, next) ==
  IF sched_policy_current = "RR" THEN next ELSE callback

CoreInit ==
  /\ thread = [t \in Tasks |-> "NULL"]
  /\ worker = [t \in Tasks |-> NULL]
  /\ state = [t \in Tasks |-> "ZOMBIE"]
  /\ lock = [t \in Tasks |-> NULL]
  /\ pc = [w \in Workers |-> "unborn"]
  /\ cur = [w \in Workers |-> NULL]
  /\ idx = [w \in Workers |-> 0]
  /\ attempt = [w \in Workers |-> 0]
  /\ running_task = [w \in Workers |-> NULL]
  /\ finished = [w \in Workers |-> 0]
  /\ mpc = "submit"
  /\ submitted = 0

(* Seeded fault: the acquire functions do not look at task->state.         *)
IsReadyInAnyState(t) == thread[t] # "NULL"

(* What an acquire function hands to sched_switch_to.                      *)
IsReady(t) == thread[t] # "NULL" /\ state[t] = "RUNNABLE"

-----------------------------------------------------------------------------
(* sched_loop: switching to a fiber and back, releasing its task.          *)

SwitchTo(w) ==
  LET t == cur[w] IN
  /\ Step(w, "switch", "fiber")
  /\ state' = [state EXCEPT ![t] = "RUNNING"]
  /\ worker' = [worker EXCEPT ![t] = w]
  /\ running_task' = [running_task EXCEPT ![w] = t]
  /\ thread' = [thread EXCEPT ![t] = "live"]
  /\ UNCHANGED <<lock, cur, idx, attempt, finished, mainVars>>

(* Seeded fault: task->worker keeps its value.                             *)
ClearWorkerNever(t) == UNCHANGED worker

ClearWorker(t) == worker' = [worker EXCEPT ![t] = NULL]

(* sched_switch_to_scheduler, as seen from the fiber: its context is saved *)
(* and the scheduler context of task->worker continues after the switch    *)
(* in sched_switch_to.                                                     *)
SwitchToScheduler(t) ==
  /\ thread' = [thread EXCEPT ![t] = "saved"]
  /\ pc' = [pc EXCEPT ![worker[t]] = "release"]
  /\ ClearWorker(t)

TaskYield(w) ==
  /\ pc[w] = "fiber"
  /\ SwitchToScheduler(cur[w])
  /\ UNCHANGED <<state, lock, cur, idx, attempt, restVars>>

(* task_exit, and the statistics sched_loop updates once it sees FINISHED. *)
TaskExit(w) ==
  LET t == cur[w] IN
  /\ pc[w] = "fiber"
  /\ state' = [state EXCEPT ![t] = "FINISHED"]
  /\ finished' = [finished EXCEPT ![worker[t]] = @ + 1]
  /\ SwitchToScheduler(t)
  /\ UNCHANGED <<lock, cur, idx, attempt, running_task, mainVars>>

(* Seeded fault: a finished task is handed to on_yield.                    *)
OnFinishYields == CallPolicy("on_yield", "unlock")

(* on_finish of every policy does nothing.                                 *)
OnFinish == "unlock"

ReleaseFinished(w) ==
  LET t == cur[w] IN
  /\ Step(w, "release", OnFinish)
  /\ state[t] = "FINISHED"
  /\ ClearWorker(t)
  /\ thread' = [thread EXCEPT ![t] = "reset"]
  /\ state' = [state EXCEPT ![t] = "ZOMBIE"]
  /\ UNCHANGED <<lock, cur, idx, attempt, restVars>>

ReleaseYielded(w) ==
  LET t == cur[w] IN
  /\ Step(w, "release", CallPolicy("on_yield", "unlock"))
  /\ state[t] = "RUNNING"
  /\ ClearWorker(t)
  /\ state' = [state EXCEPT ![t] = "RUNNABLE"]
  /\ UNCHANGED <<thread, lock, cur, idx, attempt, restVars>>

(* The end of sched_release and of one iteration of sched_loop.            *)
Unlock(w) ==
  /\ Step(w, "unlock", "acquire")
  /\ UnlockTask(cur[w])
  /\ cur' = [cur EXCEPT ![w] = NULL]
  /\ idx' = [idx EXCEPT ![w] = 0]
  /\ attempt' = [attempt EXCEPT ![w] = 0]
  /\ UNCHANGED <<slotVars, restVars>>

-----------------------------------------------------------------------------
(* task_submit, called by the fiber that w executes.                       *)

TaskSubmit(w) ==
  /\ submitted < SUBMITS
  /\ Step(w, "fiber", "submit")
  /\ submitted' = submitted + 1
  /\ idx' = [idx EXCEPT ![w] = 0]
  /\ attempt' = [attempt EXCEPT ![w] = 0]
  /\ UNCHANGED <<taskVars, cur, running_task, finished, mpc>>

SubmitTryLock(w) ==
  /\ pc[w] = "submit" /\ idx[w] < LIMIT
  /\ \/ /\ lock[idx[w]] # NULL
        /\ idx' = [idx EXCEPT ![w] = @ + 1]
        /\ UNCHANGED <<pc, lock>>
     \/ /\ Step(w, "submit", "fill")
        /\ TryLock(w, idx[w])
        /\ UNCHANGED idx
  /\ UNCHANGED <<slotVars, cur, attempt, restVars>>

(* Seeded fault: a task that waits for its turn passes for a free slot.    *)
IsFreeOrRunnable(t) ==
  thread[t] = "NULL" \/ state[t] \in {"ZOMBIE", "RUNNABLE"}

(* An empty slot gets a fresh stack, a zombie's stack is reset for reuse.  *)
IsFree(t) == thread[t] = "NULL" \/ state[t] = "ZOMBIE"

(* Seeded fault: only a fresh stack is given its entry point.              *)
FillFreshOnly(t) ==
  /\ thread' = [thread EXCEPT ![t] = IF @ = "NULL" THEN "entry" ELSE @]
  /\ state' = [state EXCEPT ![t] = "RUNNABLE"]

Fill(t) ==
  /\ thread' = [thread EXCEPT ![t] = "entry"]
  /\ state' = [state EXCEPT ![t] = "RUNNABLE"]

SubmitFill(w) ==
  /\ Step(w, "fill", CallPolicy("on_submit", "submitted"))
  /\ IsFree(idx[w])
  /\ Fill(idx[w])
  /\ UNCHANGED <<worker, lock, cur, idx, attempt, restVars>>

SubmitSkip(w) ==
  /\ Step(w, "fill", "submit")
  /\ ~IsFree(idx[w])
  /\ UnlockTask(idx[w])
  /\ idx' = [idx EXCEPT ![w] = @ + 1]
  /\ UNCHANGED <<slotVars, cur, attempt, restVars>>

Submitted(w) ==
  /\ Step(w, "submitted", "fiber")
  /\ UnlockTask(idx[w])
  /\ UNCHANGED <<slotVars, cur, idx, attempt, restVars>>

(* No slot in a whole pass: another attempt, or assert(false).             *)
SubmitRetry(w) ==
  /\ idx[w] = LIMIT
  /\ Fail(w, "submit", "submit", "abort")
  /\ idx' = [idx EXCEPT ![w] = 0]
  /\ UNCHANGED <<taskVars, cur, restVars>>

CoreWorker(w) ==
  \/ SwitchTo(w)   \/ TaskYield(w)       \/ TaskExit(w)
  \/ TaskSubmit(w) \/ SubmitTryLock(w)   \/ SubmitFill(w)
  \/ SubmitSkip(w) \/ SubmitRetry(w)     \/ Submitted(w)
  \/ Unlock(w)     \/ ReleaseFinished(w) \/ ReleaseYielded(w)

-----------------------------------------------------------------------------
(* The main thread: tasks_init, tasks_submit, tasks_start, tasks_wait,     *)
(* tasks_destroy, then the next test starts over with tasks_init.          *)

(* sched_submit before sched_start: no other thread exists, so the scan    *)
(* finds the lowest free slot, or aborts when there is none.               *)
MainSubmit(t) ==
  /\ mpc = "submit" /\ submitted < SUBMITS
  /\ IsFree(t)
  /\ \A s \in Tasks : s < t => ~IsFree(s)
  /\ Fill(t)
  /\ submitted' = submitted + 1
  /\ UNCHANGED <<worker, lock, workerVars, mpc>>

MainAbort ==
  /\ mpc = "submit" /\ submitted < SUBMITS
  /\ \A s \in Tasks : ~IsFree(s)
  /\ mpc' = "abort"
  /\ submitted' = submitted + 1
  /\ UNCHANGED <<taskVars, workerVars>>

(* sched_start: the workers are created in order, and run at once.         *)
StartWorker(w) ==
  /\ mpc \in {"submit", "start"}
  /\ \A v \in Workers : v < w => pc[v] # "unborn"
  /\ Step(w, "unborn", "acquire")
  /\ mpc' = IF w = WORKERS - 1 THEN "wait" ELSE "start"
  /\ UNCHANGED <<taskVars, cur, idx, attempt, running_task, finished,
                 submitted>>

(* sched_wait: every worker's thread has returned from sched_loop.         *)
Wait ==
  /\ mpc = "wait"
  /\ \A w \in Workers : pc[w] = "exited"
  /\ mpc' = "joined"
  /\ UNCHANGED <<taskVars, workerVars, submitted>>

(* sched_destroy takes every task's lock in turn, so none may stay taken.  *)
Destroy ==
  /\ mpc = "joined"
  /\ \A t \in Tasks : lock[t] = NULL
  /\ mpc' = "destroyed"
  /\ thread' = [t \in Tasks |-> IF thread[t] = "NULL" THEN "NULL" ELSE "freed"]
  /\ UNCHANGED <<worker, state, lock, workerVars, submitted>>

(* sched_init of the next round clears every field of tasks and workers.   *)
Reinit ==
  /\ mpc = "destroyed"
  /\ thread' = [t \in Tasks |-> "NULL"]
  /\ worker' = [t \in Tasks |-> NULL]
  /\ state' = [t \in Tasks |-> "ZOMBIE"]
  /\ lock' = [t \in Tasks |-> NULL]
  /\ pc' = [w \in Workers |-> "unborn"]
  /\ cur' = [w \in Workers |-> NULL]
  /\ idx' = [w \in Workers |-> 0]
  /\ attempt' = [w \in Workers |-> 0]
  /\ running_task' = [w \in Workers |-> NULL]
  /\ finished' = [w \in Workers |-> 0]
  /\ mpc' = "submit"
  /\ submitted' = 0

CoreMain ==
  \/ MainAbort \/ Wait \/ Destroy
  \/ \E w \in Workers : StartWorker(w)

(* A failed assertion ends the process.                                    *)
Aborted == mpc = "abort" \/ \E w \in Workers : pc[w] = "abort"

-----------------------------------------------------------------------------
CoreTypeOK ==
  /\ thread \in [Tasks -> Contexts]
  /\ worker \in [Tasks -> Workers \cup {NULL}]
  /\ state \in [Tasks -> States]
  /\ lock \in [Tasks -> Workers \cup {NULL}]
  /\ pc \in [Workers -> ProgramPoints]
  /\ cur \in [Workers -> Tasks \cup {NULL}]
  /\ idx \in [Workers -> Nat]
  /\ attempt \in [Workers -> Nat]
  /\ running_task \in [Workers -> Tasks \cup {NULL}]
  /\ finished \in [Workers -> Nat]
  /\ mpc \in {"submit", "start", "wait", "joined", "destroyed", "abort"}
  /\ submitted \in 0 .. SUBMITS

(* What the policies have in common to promise.                            *)

(* A worker switches only into a context that can be resumed: the context  *)
(* of a submitted task that has not started, or of one that yielded; never *)
(* a reset, freed or running one (uthread_switch in sched_switch_to).      *)
SwitchTargetReady ==
  \A w \in Workers : pc[w] = "switch" => thread[cur[w]] \in {"entry", "saved"}

Holds(w, t) == \/ pc[w] \in OwnsCur /\ cur[w] = t
               \/ pc[w] \in OwnsSlot /\ idx[w] = t

(* Mutual exclusion by the task lock across the acquire functions,         *)
(* sched_release and task_submit: whoever is past a successful try_lock of *)
(* a slot and before its unlock is the one holder, and no lock stays taken *)
(* when its holder has moved on.                                           *)
MutualExclusion ==
  /\ \A w \in Workers, t \in Tasks : Holds(w, t) => lock[t] = w
  /\ \A t \in Tasks : lock[t] # NULL => Holds(lock[t], t)

(* A fiber is on at most one worker's stack, and task->worker names that   *)
(* worker exactly while it is: task_yield returns to the scheduler context *)
(* of the kernel thread it runs on, and task_submit uses its queue.        *)
WorkerPointer ==
  /\ \A w \in Workers : pc[w] \in OnFiber => worker[cur[w]] = w
  /\ \A t \in Tasks : worker[t] # NULL =>
       /\ pc[worker[t]] \in OnFiber
       /\ cur[worker[t]] = t
       /\ thread[t] = "live"

(* Every submission made so far is counted once: it is still looking for a *)
(* slot, live in a slot, or counted as finished by exactly one worker.     *)
Conservation ==
  LET looking == {w \in Workers : pc[w] \in {"submit", "fill", "abort"}}
      live == {t \in Tasks : state[t] \in {"RUNNABLE", "RUNNING"}}
  IN  mpc # "abort" =>
        submitted = Cardinality(looking) + Cardinality(live)
                      + SumFunction(finished)

(* tasks_wait: "wait for the completion of all tasks in the scheduler".    *)
WaitMeansDone ==
  mpc \in {"joined", "destroyed"} => \A t \in Tasks : state[t] = "ZOMBIE"

(* How the state shows to a caller of the scheduler (TaskPool).            *)
PoolStatus ==
  [t \in Tasks |-> IF state[t] = "ZOMBIE" THEN "idle"
                   ELSE IF state[t] = "RUNNABLE" THEN "ready" ELSE "running"]

PoolRunner ==
  [t \in Tasks |-> IF state[t] \in {"RUNNING", "FINISHED"} THEN lock[t] ELSE NULL]

PoolWaited == mpc \in {"joined", "destroyed"}

Pool == INSTANCE TaskPool WITH
  status <- PoolStatus, runner <- PoolRunner, waited <- PoolWaited

(* Yielding gives way to other fibers: a task waiting for a worker gets    *)
(* one, whatever the other fibers do between their yields and however many *)
(* workers have left sched_loop.                                           *)
EveryTaskRuns ==
  \A t \in Tasks :
    state[t] = "RUNNABLE" ~> (state[t] = "RUNNING" \/ Aborted)

=============================================================================
