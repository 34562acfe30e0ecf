----------------------------- MODULE TailQueue ------------------------------
(***************************************************************************)
(* A run queue of sched_mlfq.c as the threads really work on it: the       *)
(* TAILQ macros of queue.h, one assignment at a time, under the spinlock   *)
(* of the queue.                                                           *)
(*                                                                         *)
(* A list element is a cell {tqe_next, tqe_prev} and a list head a cell    *)
(* {tqh_first, tqh_last} of the same layout, which TAILQ_LAST relies on    *)
(* when it casts one to the other. So both are entries of the functions    *)
(* next and prev: the head of level l is the cell l, and a pointer to a    *)
(* `next` field is the cell it is in.                                      *)
(***************************************************************************)
EXTENDS Spinlock, Integers, Sequences, FiniteSets

CONSTANTS
  LIST_TASKS,
  LIST_LEVELS    \* the levels 0 .. SCHED_MLFQ_LEVELS - 1

ASSUME ListAssumption ==
  /\ IsFiniteSet(LIST_TASKS) /\ IsFiniteSet(LIST_LEVELS)
  /\ LIST_LEVELS = 0 .. Cardinality(LIST_LEVELS) - 1 /\ LIST_LEVELS # {}
  /\ LIST_TASKS \cap LIST_LEVELS = {}
  /\ NULL \notin LIST_TASKS \cup LIST_LEVELS

Cells == LIST_TASKS \cup LIST_LEVELS

VARIABLES
  next,          \* tqe_next of a task, tqh_first of a level
  prev,          \* tqe_prev of a task, tqh_last of a level
  job,           \* the function of sched_mlfq.c a thread is in
  pos,           \* and where in it
  level,         \* its local level
  elm            \* the task it inserts, or has found, or has in hand

queueVars == <<next, prev, job, pos, level, elm>>
listVars == <<lockVars, queueVars>>

(* sched_mlfq_init; TAILQ_INIT makes tqh_last the address of tqh_first.    *)
ListInit ==
  /\ SpinlockInit
  /\ next = [c \in Cells |-> NULL]
  /\ prev = [c \in Cells |-> IF c \in LIST_LEVELS THEN c ELSE NULL]
  /\ job = [p \in THREADS |-> "none"]
  /\ pos = [p \in THREADS |-> "start"]
  /\ level = [p \in THREADS |-> 0]
  /\ elm = [p \in THREADS |-> NULL]

(* The tasks of a list: the longest run of cells that follow its head, each *)
(* linked from the one before, which has every task once at most.          *)
Runs == UNION {[1 .. n -> LIST_TASKS] : n \in 0 .. Cardinality(LIST_TASKS)}

Follows(links, l, run) ==
  \A i \in 1 .. Len(run) : run[i] = links[IF i = 1 THEN l ELSE run[i - 1]]

ListFrom(links, l) ==
  CHOOSE run \in Runs :
    /\ Follows(links, l, run)
    /\ \A other \in Runs : Follows(links, l, other) => Len(other) <= Len(run)

ListOf(l) == ListFrom(next, l)
Linked == UNION {{ListOf(l)[i] : i \in DOMAIN ListOf(l)} : l \in LIST_LEVELS}

(* A step of thread p inside the lock: an assignment or a test.            *)
At(p, from, to) ==
  /\ at[p] = "in" /\ pos[p] = from
  /\ pos' = [pos EXCEPT ![p] = to]

StoreNext(c, t) == next' = [next EXCEPT ![c] = t] /\ UNCHANGED prev
StorePrev(c, d) == prev' = [prev EXCEPT ![c] = d] /\ UNCHANGED next

-----------------------------------------------------------------------------
(* Outside the lock: the task of a submission or of a yield comes, and one *)
(* that was dequeued goes.                                                 *)

TaskComes(p, t) ==
  /\ job[p] = "none" /\ elm[p] = NULL
  /\ t \notin Linked /\ \A r \in THREADS : elm[r] # t
  /\ elm' = [elm EXCEPT ![p] = t]
  /\ UNCHANGED <<lockVars, next, prev, job, pos, level>>

TaskGoes(p) ==
  /\ job[p] = "none" /\ elm[p] # NULL
  /\ elm' = [elm EXCEPT ![p] = NULL]
  /\ UNCHANGED <<lockVars, next, prev, job, pos, level>>

Begin(p, j, l, where) ==
  /\ job[p] = "none"
  /\ job' = [job EXCEPT ![p] = j]
  /\ level' = [level EXCEPT ![p] = l]
  /\ pos' = [pos EXCEPT ![p] = where]
  /\ UNCHANGED <<next, prev, elm>>

(* sched_mlfq_on_submit and sched_mlfq_requeue at the task's level.        *)
BeginInsert(p, l) == elm[p] # NULL /\ spinlock_lock(p) /\ Begin(p, "insert", l, "next")

(* sched_mlfq_dequeue of the own queue, from the first level down.         *)
BeginDequeue(p) == elm[p] = NULL /\ spinlock_lock(p) /\ Begin(p, "dequeue", 0, "look")

(* The steal: a victim whose lock is taken is passed over.                 *)
BeginSteal(p) ==
  /\ elm[p] = NULL
  /\ spinlock_try_lock(p)
  /\ IF is_locked THEN UNCHANGED queueVars
     ELSE Begin(p, "steal", Cardinality(LIST_LEVELS) - 1, "look")

KeepSpinning(p) == Spin(p) /\ UNCHANGED queueVars

-----------------------------------------------------------------------------
(* TAILQ_INSERT_TAIL                                                       *)

InsertNext(p) == At(p, "next", "prev") /\ StoreNext(elm[p], NULL) /\ UNCHANGED elm

InsertPrev(p) ==
  At(p, "prev", "store") /\ StorePrev(elm[p], prev[level[p]]) /\ UNCHANGED elm

InsertStore(p) ==
  At(p, "store", "last") /\ StoreNext(prev[level[p]], elm[p]) /\ UNCHANGED elm

(* Seeded fault: tqh_last stays where it was.                              *)
TailStays(p) == UNCHANGED <<next, prev>>

TailMoves(p) == StorePrev(level[p], elm[p])

InsertLast(p) ==
  /\ At(p, "last", "unlock")
  /\ TailMoves(p)
  /\ elm' = [elm EXCEPT ![p] = NULL]

(* Seeded fault: the cell that tqh_last points into passes for the last.   *)
LastCell(l) == prev[l]

(* TAILQ_FIRST and TAILQ_LAST                                              *)
First(l) == next[l]
LastElement(l) == next[prev[prev[l]]]

(* Seeded fault: sched_mlfq_dequeue returns NULL without the unlock.       *)
NothingFoundLocked(p) ==
  /\ At(p, "look", "start")
  /\ job' = [job EXCEPT ![p] = "none"]
  /\ UNCHANGED <<lockVars, level>>

NothingFound(p) == At(p, "look", "unlock") /\ UNCHANGED <<lockVars, job, level>>

(* One level of the loops of sched_mlfq_dequeue: upwards in the own queue, *)
(* downwards in a victim's.                                                *)
Look(p) ==
  LET found == IF job[p] = "steal" THEN LastElement(level[p]) ELSE First(level[p])
      then  == IF job[p] = "steal" THEN level[p] - 1 ELSE level[p] + 1
  IN
  /\ UNCHANGED <<next, prev>>
  /\ \/ /\ At(p, "look", "back")
        /\ found # NULL
        /\ elm' = [elm EXCEPT ![p] = found]
        /\ UNCHANGED <<lockVars, job, level>>
     \/ /\ At(p, "look", "look")
        /\ found = NULL /\ then \in LIST_LEVELS
        /\ level' = [level EXCEPT ![p] = then]
        /\ UNCHANGED <<lockVars, job, elm>>
     \/ /\ found = NULL /\ then \notin LIST_LEVELS
        /\ NothingFound(p)
        /\ UNCHANGED elm

(* TAILQ_REMOVE. What follows the task points back past it, ...            *)
RemoveBack(p) ==
  LET t == elm[p] IN
  /\ At(p, "back", "forth")
  /\ StorePrev(IF next[t] # NULL THEN next[t] ELSE level[p], prev[t])
  /\ UNCHANGED elm

(* ... and what precedes it points forth past it.                          *)
RemoveForth(p) ==
  At(p, "forth", "unlock") /\ StoreNext(prev[elm[p]], next[elm[p]]) /\ UNCHANGED elm

ListStep(p) ==
  /\ \/ InsertNext(p) \/ InsertPrev(p) \/ InsertStore(p) \/ InsertLast(p)
     \/ RemoveBack(p) \/ RemoveForth(p)
  /\ UNCHANGED <<lockVars, job, level>>

Leave(p) ==
  /\ pos[p] = "unlock"
  /\ spinlock_unlock(p)
  /\ job' = [job EXCEPT ![p] = "none"]
  /\ pos' = [pos EXCEPT ![p] = "start"]
  /\ level' = [level EXCEPT ![p] = 0]
  /\ UNCHANGED <<next, prev, elm>>

InsideLock(p) == ListStep(p) \/ Look(p) \/ Leave(p)

ListNext ==
  \E p \in THREADS :
    \/ TaskGoes(p) \/ \E t \in LIST_TASKS : TaskComes(p, t)
    \/ BeginDequeue(p) \/ BeginSteal(p) \/ \E l \in LIST_LEVELS : BeginInsert(p, l)
    \/ KeepSpinning(p) \/ InsideLock(p)

(* The operating system runs the thread that has the lock. Nothing is      *)
(* assumed of those that spin for it.                                      *)
ListFairness == \A p \in THREADS : WF_listVars(InsideLock(p))

ListSpec == ListInit /\ [][ListNext]_listVars /\ ListFairness

-----------------------------------------------------------------------------

ListTypeOK ==
  /\ SpinlockTypeOK
  /\ next \in [Cells -> LIST_TASKS \cup {NULL}]
  /\ prev \in [Cells -> Cells \cup {NULL}]
  /\ job \in [THREADS -> {"none", "insert", "dequeue", "steal"}]
  /\ pos \in [THREADS -> {"start", "next", "prev", "store", "last", "look", "back",
                          "forth", "unlock"}]
  /\ level \in [THREADS -> LIST_LEVELS]
  /\ elm \in [THREADS -> LIST_TASKS \cup {NULL}]

(* The QMD_TAILQ_CHECK assertions of queue.h.                              *)
CheckHead(l) == First(l) = NULL \/ prev[First(l)] = l
CheckTail(l) == next[prev[l]] = NULL
CheckNext(t) == next[t] = NULL \/ prev[next[t]] = t
CheckPrev(t) == next[prev[t]] = t

(* The assertions queue.h offers for debugging would never fail: between   *)
(* two holders of the lock both directions of every list agree, and no     *)
(* task is in two of them.                                                 *)
LinksAgree ==
  ~is_locked =>
    /\ \A l \in LIST_LEVELS : CheckHead(l) /\ CheckTail(l)
    /\ \A t \in Linked : CheckNext(t) /\ CheckPrev(t)
    /\ \A k, l \in LIST_LEVELS : k # l /\ First(k) # NULL => First(k) # First(l)

(* Types, and every list consistent whenever the lock is free.             *)
ListInv == ListTypeOK /\ LinksAgree

(* The task a thread inserts leaves its hand with the store into the list, *)
(* one it has found is in its hand once it is unlinked.                    *)
Hands ==
  [p \in THREADS |-> IF pos[p] \in {"last", "back", "forth"} THEN NULL ELSE elm[p]]

Fifos == INSTANCE FifoLevels WITH
  lists <- [l \in LIST_LEVELS |-> ListOf(l)], hand <- Hands

(* The pointer updates are one step to every other thread: a list is a     *)
(* FIFO, a dequeue takes the first task of the first level in use, a steal *)
(* the last task of the last one. SchedMLFQ takes the run queue for this.  *)
ImplementsFifos == Fifos!FifoSpec

(* Whoever takes the lock gives it back, on every path through             *)
(* sched_mlfq_dequeue: no worker spins on a lock that nobody releases.     *)
LockComesFree == is_locked ~> ~is_locked

=============================================================================
