------------------------------ MODULE SchedCFS ------------------------------
(***************************************************************************)
(* The completely fair scheduler (sched_cfs.c): a tree per worker, ordered *)
(* by virtual runtime, from which the least is run or stolen. The lock of  *)
(* a run queue is always waited for and never held across another one, so  *)
(* a critical section is one step here; min_vruntime alone is also read    *)
(* outside of it, by on_submit.                                            *)
(*                                                                         *)
(* Every task weighs CFS_WEIGHT_DEFAULT once it is submitted, so its delta *)
(* per turn is 1. MAX_VRUNTIME bounds the turns that end in a yield.       *)
(***************************************************************************)
EXTENDS SchedPolicy

CONSTANT MAX_VRUNTIME

ASSUME CFSAssumption == sched_policy_current = "CFS" /\ MAX_VRUNTIME \in Nat

VARIABLES
  runqueue,          \* cfs_runqueues[w].runqueue, a set ordered by Before
  min_vruntime,      \* cfs_runqueues[w].min_vruntime
  vruntime,
  cfs_next_worker

cfsVars == <<runqueue, min_vruntime, vruntime, cfs_next_worker>>
vars == <<coreVars, cfsVars>>

Init ==
  /\ CoreInit
  /\ runqueue = [w \in Workers |-> {}]
  /\ min_vruntime = [w \in Workers |-> 0]
  /\ vruntime = [t \in Tasks |-> 0]
  /\ cfs_next_worker = 0

(* cfs_task_cmp; the tasks of equal vruntime in the order of their slots.  *)
Before(t, u) ==
  vruntime[t] < vruntime[u] \/ (vruntime[t] = vruntime[u] /\ t < u)

Leftmost(queue) ==
  CHOOSE t \in queue : \A u \in queue \ {t} : Before(t, u)

-----------------------------------------------------------------------------

(* Seeded fault: RB_MIN without RB_REMOVE.                                 *)
TreeRemoveNever(q, t) == UNCHANGED runqueue

TreeRemove(q, t) == runqueue' = [runqueue EXCEPT ![q] = @ \ {t}]

(* Take the leftmost task of queue q; what is now leftmost, or the task    *)
(* itself if it was the last, gives min_vruntime.                          *)
Pop(w, from, q) ==
  LET t == Leftmost(runqueue[q])
      rest == runqueue[q] \ {t}
      next == IF rest = {} THEN t ELSE Leftmost(rest)
  IN
  /\ runqueue[q] # {}
  /\ Dequeued(w, from, t)
  /\ TreeRemove(q, t)
  /\ min_vruntime' = [min_vruntime EXCEPT ![q] = vruntime[next]]
  /\ UNCHANGED <<vruntime, cfs_next_worker>>

DequeueOwn(w) == pc[w] = "acquire" /\ Pop(w, "acquire", w)

ToVictim(w, from, i) ==
  /\ Step(w, from, "steal")
  /\ idx' = [idx EXCEPT ![w] = i]
  /\ UNCHANGED <<taskVars, cur, attempt, restVars, cfsVars>>

DequeueEmpty(w) == runqueue[w] = {} /\ ToVictim(w, "acquire", 0)

(* The other queues in turn, and in the end the own queue once more.       *)
StealTask(w) ==
  /\ pc[w] = "steal" /\ idx[w] < WORKERS
  /\ Pop(w, "steal", Victim(w))

StealEmpty(w) ==
  /\ idx[w] < WORKERS
  /\ runqueue[Victim(w)] = {}
  /\ ToVictim(w, "steal", idx[w] + 1)

StealEnd(w) ==
  /\ idx[w] = WORKERS
  /\ NothingDequeued(w, "steal")
  /\ UNCHANGED cfsVars

-----------------------------------------------------------------------------

Push(q, t) == runqueue' = [runqueue EXCEPT ![q] = @ \cup {t}]

(* on_submit reads min_vruntime before it takes the lock of the queue: a   *)
(* thief may move min_vruntime on in between.                              *)
OnSubmit(w) ==
  /\ Inside(w, "on_submit", "submit_insert")
  /\ vruntime' = [vruntime EXCEPT ![idx[w]] = min_vruntime[worker[cur[w]]]]
  /\ UNCHANGED <<runqueue, min_vruntime, cfs_next_worker>>

SubmitInsert(w) ==
  /\ Inside(w, "submit_insert", "submitted")
  /\ Push(worker[cur[w]], idx[w])
  /\ UNCHANGED <<min_vruntime, vruntime, cfs_next_worker>>

(* Seeded fault: the vruntime is not raised to min_vruntime.               *)
PushBackAsIs(w, v) ==
  /\ vruntime' = [vruntime EXCEPT ![cur[w]] = v]
  /\ Push(w, cur[w])
  /\ UNCHANGED <<min_vruntime, cfs_next_worker>>

(* sched_cfs_requeue, with the vruntime v the task comes back with.        *)
PushBack(w, v) ==
  /\ vruntime' = [vruntime EXCEPT ![cur[w]] =
                    IF v < min_vruntime[w] THEN min_vruntime[w] ELSE v]
  /\ Push(w, cur[w])
  /\ UNCHANGED <<min_vruntime, cfs_next_worker>>

(* Seeded fault: a turn is charged twice.                                  *)
VruntimeDeltaTwice == 2

(* cfs_vruntime_delta of a task of the default weight.                     *)
VruntimeDelta == 1

OnYield(w) ==
  /\ Inside(w, "on_yield", "unlock")
  /\ PushBack(w, vruntime[cur[w]] + VruntimeDelta)

Requeue(w) ==
  /\ Retry(w, "requeue")
  /\ PushBack(w, vruntime[cur[w]])

Runqueue(w) ==
  \/ DequeueOwn(w) \/ DequeueEmpty(w) \/ StealTask(w)
  \/ StealEmpty(w) \/ StealEnd(w)     \/ OnSubmit(w)
  \/ SubmitInsert(w) \/ OnYield(w)    \/ Requeue(w)

(* The bound of the model: a fiber that used it up does not yield.         *)
WithinBound(w) ==
  pc'[w] = "release" /\ state' = state => vruntime[cur[w]] < MAX_VRUNTIME

Worker(w) ==
  \/ Runqueue(w)
  \/ PolicyWorker(w) /\ WithinBound(w) /\ UNCHANGED cfsVars

CFSSubmit(t) ==
  /\ MainSubmit(t)
  /\ vruntime' = [vruntime EXCEPT ![t] = min_vruntime[cfs_next_worker]]
  /\ Push(cfs_next_worker, t)
  /\ cfs_next_worker' = NextQueue(cfs_next_worker)
  /\ UNCHANGED min_vruntime

CFSReinit ==
  /\ Reinit
  /\ runqueue' = [w \in Workers |-> {}]
  /\ min_vruntime' = [w \in Workers |-> 0]
  /\ vruntime' = [t \in Tasks |-> 0]
  /\ cfs_next_worker' = 0

Main ==
  \/ CoreMain /\ UNCHANGED cfsVars
  \/ \E t \in Tasks : CFSSubmit(t)
  \/ CFSReinit

Next ==
  \/ ~Aborted /\ (Main \/ \E w \in Workers : Worker(w))
  \/ Aborted /\ UNCHANGED vars

Spec == Init /\ [][Next]_vars

-----------------------------------------------------------------------------

(* Types.                                                                  *)
TypeOK ==
  /\ CoreTypeOK
  /\ runqueue \in [Workers -> SUBSET Tasks]
  /\ min_vruntime \in [Workers -> 0 .. MAX_VRUNTIME]
  /\ vruntime \in [Tasks -> 0 .. MAX_VRUNTIME]
  /\ cfs_next_worker \in Workers

(* As in SchedMLFQ: no task is lost from the trees or is in two of them,   *)
(* where one struct's tree links would serve both.                         *)
Queued(t) == Cardinality({w \in Workers : t \in runqueue[w]})

OnePlace == \A t \in Tasks : PlacedOnce(t, Queued(t))

(* The key of a task does not change while the task is in a tree, although *)
(* on_submit, on_yield and requeue write it without the lock of the tree   *)
(* and requeue also without the lock of the task: the tree stays sorted.   *)
KeyStable ==
  [][\A w \in Workers : \A t \in runqueue[w] \cap runqueue'[w] :
       vruntime'[t] = vruntime[t]]_vars

(* A task that tasks_wait leaves behind is in the tree of a worker that    *)
(* gave up after its last attempt, as under MLFQ (schedy.c:246).           *)
OnlyRetriesLose ==
  \A t \in Tasks : LostToRetries(t, {w \in Workers : t \in runqueue[w]})

(* No task comes back in front of its queue: one that has run and waits in *)
(* a tree is not behind the tree's min_vruntime, wherever it ran before.   *)
(* Only a task that never ran can be, which on_submit gave a min_vruntime  *)
(* that a thief moved on before it was inserted.                           *)
NoHeadStart ==
  \A w \in Workers : \A t \in runqueue[w] :
    vruntime[t] < min_vruntime[w] => thread[t] # "saved"

=============================================================================
