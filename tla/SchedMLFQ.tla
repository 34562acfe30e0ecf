----------------------------- MODULE SchedMLFQ ------------------------------
(***************************************************************************)
(* The multilevel feedback queue (sched_mlfq.c): a run queue per worker    *)
(* with one FIFO per level, a quantum of yields per level, and stealing    *)
(* from the far end of the other workers' queues.                          *)
(***************************************************************************)
EXTENDS SchedPolicy

CONSTANT LEVELS    \* SCHED_MLFQ_LEVELS

ASSUME MLFQAssumption == sched_policy_current = "MLFQ" /\ LEVELS \in 1 .. 4

Levels == 0 .. LEVELS - 1

(* The table of the four levels the source has; fewer take its beginning.  *)
mlfq_quantums == [level \in Levels |-> <<1, 2, 4, 8>>[level + 1]]

VARIABLES
  queues,            \* mlfq_runqueues[w].queues[level]
  rq_lock,           \* mlfq_runqueues[w].lock: who took it, or NULL
  mlfq_level, mlfq_ticks,
  mlfq_next_worker

taskLevel == <<mlfq_level, mlfq_ticks>>
mlfqVars == <<queues, rq_lock, taskLevel, mlfq_next_worker>>
vars == <<coreVars, mlfqVars>>

Init ==
  /\ CoreInit
  /\ queues = [w \in Workers |-> [level \in Levels |-> <<>>]]
  /\ rq_lock = [w \in Workers |-> NULL]
  /\ mlfq_level = [t \in Tasks |-> 0]
  /\ mlfq_ticks = [t \in Tasks |-> 0]
  /\ mlfq_next_worker = 0

LockQueue(w, q) ==
  /\ rq_lock[q] = NULL
  /\ rq_lock' = [rq_lock EXCEPT ![q] = w]

(* Seeded fault: the lock of the queue stays taken.                        *)
UnlockQueueNever(q) == UNCHANGED rq_lock

UnlockQueue(q) == rq_lock' = [rq_lock EXCEPT ![q] = NULL]

(* Seeded fault: the loop over the levels ends one too early.              *)
NonEmptyButLast(q) == {level \in Levels : level + 1 < LEVELS /\ queues[q][level] # <<>>}

NonEmpty(q) == {level \in Levels : queues[q][level] # <<>>}

(* Seeded fault: TAILQ_INSERT_HEAD.                                        *)
InsertHead(q, t) ==
  queues' = [queues EXCEPT ![q][mlfq_level[t]] = <<t>> \o @]

(* Seeded fault: back at the highest priority.                             *)
InsertTailFirst(q, t) == queues' = [queues EXCEPT ![q][0] = Append(@, t)]

(* TAILQ_INSERT_TAIL at the task's own level.                              *)
InsertTail(q, t) ==
  queues' = [queues EXCEPT ![q][mlfq_level[t]] = Append(@, t)]

-----------------------------------------------------------------------------
(* sched_mlfq_dequeue: the own queue, highest priority first.              *)

DequeueLock(w) ==
  /\ Inside(w, "acquire", "dequeue")
  /\ LockQueue(w, w)
  /\ UNCHANGED <<queues, taskLevel, mlfq_next_worker>>

DequeueOwn(w) ==
  /\ pc[w] = "dequeue"
  /\ NonEmpty(w) # {}
  /\ LET level == CHOOSE l \in NonEmpty(w) : \A k \in NonEmpty(w) : l <= k
     IN  /\ Dequeued(w, "dequeue", Head(queues[w][level]))
         /\ queues' = [queues EXCEPT ![w][level] = Tail(@)]
  /\ UnlockQueue(w)
  /\ UNCHANGED <<taskLevel, mlfq_next_worker>>

DequeueEmpty(w) ==
  /\ NonEmpty(w) = {}
  /\ Step(w, "dequeue", "steal")
  /\ idx' = [idx EXCEPT ![w] = 0]
  /\ UnlockQueue(w)
  /\ UNCHANGED <<taskVars, cur, attempt, restVars, queues, taskLevel,
                 mlfq_next_worker>>

(* Then the other queues in turn, lowest priority first and from the tail; *)
(* a victim whose lock is taken is passed over.                            *)
NextVictim(w, from) ==
  /\ Step(w, from, "steal")
  /\ idx' = [idx EXCEPT ![w] = @ + 1]
  /\ UNCHANGED <<taskVars, cur, attempt, restVars, queues, taskLevel,
                 mlfq_next_worker>>

StealPass(w) ==
  /\ idx[w] < WORKERS
  /\ Victim(w) = w \/ rq_lock[Victim(w)] # NULL
  /\ NextVictim(w, "steal")
  /\ UNCHANGED rq_lock

StealLock(w) ==
  /\ idx[w] < WORKERS
  /\ Victim(w) # w
  /\ LockQueue(w, Victim(w))
  /\ Inside(w, "steal", "steal_pop")
  /\ UNCHANGED <<queues, taskLevel, mlfq_next_worker>>

(* Seeded fault: the thief does not remove the task from the queue.        *)
TakeLastCopied(q, level) == UNCHANGED queues

TakeLast(q, level) == queues' = [queues EXCEPT ![q][level] = Front(@)]

StealTask(w) ==
  LET q == Victim(w) IN
  /\ pc[w] = "steal_pop"
  /\ NonEmpty(q) # {}
  /\ LET level == CHOOSE l \in NonEmpty(q) : \A k \in NonEmpty(q) : l >= k
     IN  /\ Dequeued(w, "steal_pop", Last(queues[q][level]))
         /\ TakeLast(q, level)
  /\ UnlockQueue(q)
  /\ UNCHANGED <<taskLevel, mlfq_next_worker>>

StealEmpty(w) ==
  /\ pc[w] = "steal_pop"
  /\ NonEmpty(Victim(w)) = {}
  /\ NextVictim(w, "steal_pop")
  /\ UnlockQueue(Victim(w))

StealEnd(w) ==
  /\ idx[w] = WORKERS
  /\ NothingDequeued(w, "steal")
  /\ UNCHANGED mlfqVars

-----------------------------------------------------------------------------
(* The callbacks that put a task into a queue: lock the queue, insert.     *)

OnSubmit(w) ==
  LET t == idx[w] IN
  /\ Inside(w, "on_submit", "submit_insert")
  /\ LockQueue(w, worker[cur[w]])
  /\ mlfq_level' = [mlfq_level EXCEPT ![t] = 0]
  /\ mlfq_ticks' = [mlfq_ticks EXCEPT ![t] = 0]
  /\ UNCHANGED <<queues, mlfq_next_worker>>

SubmitInsert(w) ==
  /\ Inside(w, "submit_insert", "submitted")
  /\ InsertTail(worker[cur[w]], idx[w])
  /\ UnlockQueue(worker[cur[w]])
  /\ UNCHANGED <<taskLevel, mlfq_next_worker>>

(* Seeded fault: the lowest level is demoted too.                          *)
DemotedPastLevels(level) == level + 1

Demoted(level) == IF level + 1 < LEVELS THEN level + 1 ELSE level

(* A used-up quantum demotes the task and restarts its ticks.              *)
OnYield(w) ==
  LET t == cur[w]
      used == mlfq_ticks[t] + 1 >= mlfq_quantums[mlfq_level[t]]
  IN
  /\ Inside(w, "on_yield", "yield_insert")
  /\ LockQueue(w, w)
  /\ mlfq_ticks' = [mlfq_ticks EXCEPT ![t] = IF used THEN 0 ELSE @ + 1]
  /\ mlfq_level' = [mlfq_level EXCEPT ![t] = IF used THEN Demoted(@) ELSE @]
  /\ UNCHANGED <<queues, mlfq_next_worker>>

YieldInsert(w) ==
  /\ Inside(w, "yield_insert", "unlock")
  /\ InsertTail(w, cur[w])
  /\ UnlockQueue(w)
  /\ UNCHANGED <<taskLevel, mlfq_next_worker>>

Requeue(w) ==
  /\ Inside(w, "requeue", "retry_insert")
  /\ LockQueue(w, w)
  /\ UNCHANGED <<queues, taskLevel, mlfq_next_worker>>

RetryInsert(w) ==
  /\ Retry(w, "retry_insert")
  /\ InsertTail(w, cur[w])
  /\ UnlockQueue(w)
  /\ UNCHANGED <<taskLevel, mlfq_next_worker>>

Runqueue(w) ==
  \/ DequeueLock(w)  \/ DequeueOwn(w)  \/ DequeueEmpty(w)
  \/ StealPass(w)    \/ StealLock(w)   \/ StealTask(w)
  \/ StealEmpty(w)   \/ StealEnd(w)
  \/ OnSubmit(w)     \/ SubmitInsert(w)
  \/ OnYield(w)      \/ YieldInsert(w)
  \/ Requeue(w)      \/ RetryInsert(w)

Worker(w) == Runqueue(w) \/ (PolicyWorker(w) /\ UNCHANGED mlfqVars)

-----------------------------------------------------------------------------

(* Submitting before the start deals the tasks out to the queues in turn.  *)
MLFQSubmit(t) ==
  /\ MainSubmit(t)
  /\ mlfq_level' = [mlfq_level EXCEPT ![t] = 0]
  /\ mlfq_ticks' = [mlfq_ticks EXCEPT ![t] = 0]
  /\ queues' = [queues EXCEPT ![mlfq_next_worker][0] = Append(@, t)]
  /\ mlfq_next_worker' = NextQueue(mlfq_next_worker)
  /\ UNCHANGED rq_lock

(* sched_mlfq_destroy freed the queues, sched_mlfq_init makes empty ones.  *)
MLFQReinit ==
  /\ Reinit
  /\ queues' = [w \in Workers |-> [level \in Levels |-> <<>>]]
  /\ rq_lock' = [w \in Workers |-> NULL]
  /\ mlfq_level' = [t \in Tasks |-> 0]
  /\ mlfq_ticks' = [t \in Tasks |-> 0]
  /\ mlfq_next_worker' = 0

Main ==
  \/ CoreMain /\ UNCHANGED mlfqVars
  \/ \E t \in Tasks : MLFQSubmit(t)
  \/ MLFQReinit

Next ==
  \/ ~Aborted /\ (Main \/ \E w \in Workers : Worker(w))
  \/ Aborted /\ UNCHANGED vars

Spec == Init /\ [][Next]_vars

(* As in SchedRR: threads are scheduled fairly, spinlocks promise nothing. *)
Fairness ==
  /\ \A w \in Workers : WF_vars(~Aborted /\ Worker(w))
  /\ WF_vars(~Aborted /\ CoreMain /\ UNCHANGED mlfqVars)

FairSpec == Spec /\ Fairness

EveryBodyReturns ==
  \A t \in Tasks :
    SF_vars(\E w \in Workers : /\ ~Aborted
                               /\ cur[w] = t /\ TaskExit(w)
                               /\ UNCHANGED mlfqVars)

-----------------------------------------------------------------------------

(* Types; a task's ticks stay below the quantum of its level.              *)
TypeOK ==
  /\ CoreTypeOK
  /\ queues \in [Workers -> [Levels -> Seq(Tasks)]]
  /\ rq_lock \in [Workers -> Workers \cup {NULL}]
  /\ mlfq_level \in [Tasks -> Levels]
  /\ \A t \in Tasks : mlfq_ticks[t] \in 0 .. mlfq_quantums[mlfq_level[t]] - 1
  /\ mlfq_next_worker \in Workers

(* The lock of a run queue is held exactly by the worker that is at work   *)
(* on the queue, its own, its fiber's or its victim's, whichever way it    *)
(* came and leaves; and so are the locks of the tasks.                     *)
AtWork == {"dequeue", "steal_pop", "submit_insert", "yield_insert",
           "retry_insert"}

QueueOf(w) == IF pc[w] = "steal_pop" THEN Victim(w)
              ELSE IF pc[w] = "submit_insert" THEN worker[cur[w]] ELSE w

QueueExclusion ==
  /\ \A w \in Workers : pc[w] \in AtWork => rq_lock[QueueOf(w)] = w
  /\ \A q \in Workers : rq_lock[q] # NULL =>
       pc[rq_lock[q]] \in AtWork /\ QueueOf(rq_lock[q]) = q

EveryLockExcludes == MutualExclusion /\ QueueExclusion

(* No task is lost from, or doubled in, the queues: a task is in exactly   *)
(* one queue position or kept by exactly one worker until it is a zombie,  *)
(* whatever the order of yield, steal, failed try_lock and requeue.        *)
Queued(t) ==
  LET InPosition(w, l, i) == i <= Len(queues[w][l]) /\ queues[w][l][i] = t
  IN  Cardinality({p \in Workers \X Levels \X (1 .. LIMIT) :
                     InPosition(p[1], p[2], p[3])})

OnePlace == \A t \in Tasks : PlacedOnce(t, Queued(t))

QueuedAt(t, w) ==
  \E l \in Levels : \E i \in 1 .. Len(queues[w][l]) : queues[w][l][i] = t

(* Only retries lose tasks: what tasks_wait leaves behind is in the queue  *)
(* of a worker that gave up after as many failed try_locks as it has       *)
(* attempts (schedy.c:246), never in that of one that found no task.       *)
OnlyRetriesLose ==
  \A t \in Tasks : LostToRetries(t, {w \in Workers : QueuedAt(t, w)})

(* A task in a queue of some level carries that level, although requeue    *)
(* reads mlfq_level without the task's lock.                               *)
LevelMatchesQueue ==
  \A w \in Workers, l \in Levels :
    \A i \in 1 .. Len(queues[w][l]) : mlfq_level[queues[w][l][i]] = l

(* As in SchedRR: tasks_wait returns once every body returns.              *)
WaitReturns ==
  EveryBodyReturns => ((mpc = "wait") ~> (mpc = "joined" \/ Aborted))

=============================================================================
