---------------------------- MODULE SchedPolicy -----------------------------
(***************************************************************************)
(* sched_acquire_next_policy: how a worker gets its next task from the run *)
(* queues of a policy (struct sched_policy_ops). The module of the policy  *)
(* gives dequeue, which leaves the worker at "try_lock" with the task in   *)
(* its hand or at "exited" without one, and requeue, which takes the task  *)
(* out of the hand of a worker at "requeue" and ends with Retry.           *)
(***************************************************************************)
EXTENDS Schedy, SequencesExt

ASSUME PolicyAssumption == sched_policy_current \in {"MLFQ", "CFS"}

TryLockTask(w) ==
  /\ \/ Step(w, "try_lock", "check") /\ TryLock(w, cur[w])
     \/ /\ Step(w, "try_lock", "requeue")
        /\ lock[cur[w]] # NULL
        /\ UNCHANGED lock
  /\ UNCHANGED <<slotVars, cur, idx, attempt, restVars>>

CheckTask(w) ==
  /\ Step(w, "check", IF IsReady(cur[w]) THEN "switch" ELSE "requeue")
  /\ IF IsReady(cur[w]) THEN UNCHANGED lock ELSE UnlockTask(cur[w])
  /\ UNCHANGED <<slotVars, cur, idx, attempt, restVars>>

(* The next attempt, or NULL: sched_loop and the worker's thread return.   *)
Retry(w, from) ==
  /\ Fail(w, from, "acquire", "exited")
  /\ cur' = [cur EXCEPT ![w] = NULL]
  /\ UNCHANGED <<taskVars, idx, restVars>>

(* dequeue found a task.                                                   *)
Dequeued(w, from, t) ==
  /\ Step(w, from, "try_lock")
  /\ cur' = [cur EXCEPT ![w] = t]
  /\ UNCHANGED <<taskVars, idx, attempt, restVars>>

(* A step inside a callback that changes only the policy's own state.      *)
Inside(w, from, to) ==
  /\ Step(w, from, to)
  /\ UNCHANGED <<taskVars, cur, idx, attempt, restVars>>

(* Seeded fault: dequeue tries again instead of returning NULL.            *)
NothingDequeuedAgain(w, from) == Inside(w, from, "acquire")

NothingDequeued(w, from) == Inside(w, from, "exited")

(* sched_*_pick_rq deals the tasks of the main thread out to the queues.   *)
(* Seeded fault: the index is not reduced.                                 *)
NextQueuePastEnd(q) == q + 1

NextQueue(q) == (q + 1) % WORKERS

(* The queue a thief looks at: the one after its own, then on in turn.     *)
Victim(w) == (w + idx[w] + 1) % WORKERS

PolicyWorker(w) == CoreWorker(w) \/ TryLockTask(w) \/ CheckTask(w)

-----------------------------------------------------------------------------
(* Where a task that is not a zombie can be: in a queue, in the hand of a  *)
(* worker that dequeued it and does not own its lock, or with a worker     *)
(* that owns its lock and has not (yet, or again) put it into a queue.     *)

InHand == {"try_lock", "requeue", "retry_insert"}
Owners == OnFiber \cup {"check", "switch", "release", "on_yield",
                        "yield_insert"}

Keepers(t) ==
  {w \in Workers : \/ pc[w] \in InHand \cup Owners /\ cur[w] = t
                   \/ pc[w] \in {"on_submit", "submit_insert"} /\ idx[w] = t}

PlacedOnce(t, queued) ==
  queued + Cardinality(Keepers(t)) = IF state[t] = "ZOMBIE" THEN 0 ELSE 1

(* What tasks_wait leaves behind when it ends too early is not damaged: it *)
(* is a task that waits for its turn, in one queue and under no lock, so   *)
(* that sched_destroy finds every lock free.                               *)
LeftInOrder(t, queued) ==
  PoolWaited /\ state[t] # "ZOMBIE" =>
    state[t] = "RUNNABLE" /\ lock[t] = NULL /\ queued = 1

(* And it was left by a worker that had used up its attempts: a worker     *)
(* that leaves with attempts to spare has found its own queue empty, and   *)
(* only it would fill this queue again. queuers are the workers whose      *)
(* queue the task is in.                                                   *)
LostToRetries(t, queuers) ==
  PoolWaited /\ state[t] # "ZOMBIE" =>
    \E w \in queuers : attempt[w] >= ATTEMPTS

(* A dequeued task whose lock is free is runnable: the second unlock and   *)
(* requeue of sched_acquire_next_policy is never reached.                  *)
DequeuedIsRunnable ==
  \A w \in Workers : pc[w] = "check" => IsReady(cur[w])

(* The run queues implement a task pool whose wait may end too early.      *)
ImplementsLossyPool == Pool!LossySpec

=============================================================================
