------------------------------ MODULE SchedRR -------------------------------
(***************************************************************************)
(* The round-robin policy: sched_acquire_next_rr scans the task table      *)
(* itself, from a shared next_task_index, under tasks_lock.                *)
(***************************************************************************)
EXTENDS Schedy

ASSUME RRAssumption == sched_policy_current = "RR"

VARIABLES
  tasks_lock,       \* who took the table's spinlock, or NULL
  next_task_index   \* where the next scan continues

rrVars == <<tasks_lock, next_task_index>>
vars   == <<coreVars, rrVars>>

(* sched_init does not reset next_task_index: a round may start anywhere.  *)
Init ==
  /\ CoreInit
  /\ tasks_lock = NULL
  /\ next_task_index \in Tasks

-----------------------------------------------------------------------------

(* Seeded fault: the scan starts without waiting for tasks_lock.           *)
LockTasksUnasked(w) == tasks_lock' = w

LockTasks(w) == tasks_lock = NULL /\ tasks_lock' = w

AcquireEnter(w) ==
  /\ Step(w, "acquire", "scan")
  /\ LockTasks(w)
  /\ idx' = [idx EXCEPT ![w] = 0]
  /\ UNCHANGED <<taskVars, cur, attempt, restVars, next_task_index>>

(* The `continue` of a failed try_lock leaves next_task_index alone: the   *)
(* scan stays on the same slot until it is unlocked or i runs out.         *)
ScanBusy(w) ==
  /\ pc[w] = "scan" /\ idx[w] < LIMIT
  /\ lock[next_task_index] # NULL
  /\ idx' = [idx EXCEPT ![w] = @ + 1]
  /\ UNCHANGED <<taskVars, pc, cur, attempt, restVars, rrVars>>

(* Seeded faults: the index leaves the table, or does not advance.         *)
AdvancePastEnd(i) == i + 1
AdvanceNever(i) == i

Advance(i) == (i + 1) % LIMIT

ScanLock(w) ==
  /\ idx[w] < LIMIT
  /\ Step(w, "scan", "check")
  /\ TryLock(w, next_task_index)
  /\ cur' = [cur EXCEPT ![w] = next_task_index]
  /\ next_task_index' = Advance(next_task_index)
  /\ UNCHANGED <<slotVars, idx, attempt, restVars, tasks_lock>>

CheckFound(w) ==
  /\ Step(w, "check", "switch")
  /\ IsReady(cur[w])
  /\ tasks_lock' = NULL
  /\ UNCHANGED <<taskVars, cur, idx, attempt, restVars, next_task_index>>

CheckSkip(w) ==
  /\ Step(w, "check", "scan")
  /\ ~IsReady(cur[w])
  /\ UnlockTask(cur[w])
  /\ cur' = [cur EXCEPT ![w] = NULL]
  /\ idx' = [idx EXCEPT ![w] = @ + 1]
  /\ UNCHANGED <<slotVars, attempt, restVars, rrVars>>

(* The pass is over. After the last attempt acquire returns NULL and       *)
(* sched_loop, with it the worker's thread, returns.                       *)
ScanEnd(w) ==
  /\ idx[w] = LIMIT
  /\ Fail(w, "scan", "acquire", "exited")
  /\ tasks_lock' = NULL
  /\ UNCHANGED <<taskVars, cur, idx, restVars, next_task_index>>

Acquire(w) ==
  \/ AcquireEnter(w) \/ ScanBusy(w) \/ ScanLock(w)
  \/ CheckFound(w) \/ CheckSkip(w) \/ ScanEnd(w)

Worker(w) ==
  \/ Acquire(w)
  \/ CoreWorker(w) /\ UNCHANGED rrVars

Main ==
  \/ CoreMain /\ UNCHANGED rrVars
  \/ \E t \in Tasks : MainSubmit(t) /\ UNCHANGED rrVars
  \/ Reinit /\ tasks_lock' = NULL /\ UNCHANGED next_task_index

Next ==
  \/ ~Aborted /\ (Main \/ \E w \in Workers : Worker(w))
  \/ Aborted /\ UNCHANGED vars

Spec == Init /\ [][Next]_vars

(* The operating system runs every kernel thread again and again, and a    *)
(* fiber that runs always comes to its next yield, exit or submission; the *)
(* spinlocks themselves promise no order.                                  *)
Fairness ==
  /\ \A w \in Workers : WF_vars(~Aborted /\ Worker(w))
  /\ WF_vars(~Aborted /\ CoreMain /\ UNCHANGED rrVars)

FairSpec == Spec /\ Fairness

(* No fiber yields forever (event_wait, task_sleep): a task that is run    *)
(* again and again returns from its body.                                  *)
EveryBodyReturns ==
  \A t \in Tasks :
    SF_vars(\E w \in Workers : /\ ~Aborted
                               /\ cur[w] = t /\ TaskExit(w)
                               /\ UNCHANGED rrVars)

-----------------------------------------------------------------------------

(* Types of the whole state; the shared scan index stays inside the table  *)
(* and tasks_lock is held exactly during a scan.                           *)
TypeOK ==
  /\ CoreTypeOK
  /\ tasks_lock \in Workers \cup {NULL}
  /\ next_task_index \in Tasks

(* tasks_lock serialises the scans: one worker at most is between its lock *)
(* and its unlock, and the lock is never left taken.                       *)
ScanExclusion ==
  /\ \A w \in Workers : pc[w] \in {"scan", "check"} => tasks_lock = w
  /\ tasks_lock # NULL => pc[tasks_lock] \in {"scan", "check"}

(* Every submission is run as TaskPool promises, including that            *)
(* tasks_wait returns only when all tasks are finished.                    *)
ImplementsTaskPool == Pool!Spec

(* tasks_wait returns once every body returns.                             *)
WaitReturns ==
  EveryBodyReturns => ((mpc = "wait") ~> (mpc = "joined" \/ Aborted))

=============================================================================
