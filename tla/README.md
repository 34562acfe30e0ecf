# A verification of CoroEd's scheduler

CoroEd runs stackful fibers on a fixed pool of kernel threads. A fiber calls
`task_yield`, `task_submit` and `task_exit`; a worker thread runs `sched_loop`,
which acquires a task, switches to it, and releases it when it comes back. The
specifications here model that scheduler at the level of its locks: every step
between two accesses to shared memory that another thread can interleave with
is an action. Paths below are relative to `source/coroed/` in the sources.

## 1. The system

| Component | State | Operations | Works with |
|---|---|---|---|
| Scheduler core (`sched/schedy.c`, `sched_task.h`, `sched_worker.h`) | table of `SCHED_THREADS_LIMIT` (512) slots: context, state, spinlock, worker pointer; 8 workers | `sched_init/submit/start/wait/destroy`, `sched_loop`, `sched_switch_to`, `sched_release`, `task_yield`, `task_exit`, `task_submit` | a policy through `sched_policy_ops`; uthreads; kernel threads |
| Round-robin (`sched/schedy.c`) | `tasks_lock`, `next_task_index` | `sched_acquire_next_rr` | the slot table itself |
| Policy loop (`sched/schedy.c`, `sched_policy.h`) | the task in a worker's hand, the attempts | `sched_acquire_next_policy` | `dequeue`, `requeue` of the policy, the task lock |
| MLFQ (`sched/sched_mlfq.c`) | per worker a lock and 4 FIFOs; level and ticks per task | submit, dequeue with stealing, requeue, yield | called by core under the task lock (not in requeue) |
| CFS (`sched/sched_cfs.c`) | per worker a lock, a red-black tree, `min_vruntime`; `vruntime` per task | as MLFQ | as MLFQ |
| User-level threads (`sched/uthread.c`, `switch.S`) | a stack and the saved frame | allocate, reset, entry and arguments, switch, free | the core; the body of a fiber through `TASK_DEFINE` |
| Tree and list macros (`sched/tree.h`, `sched/queue.h`) | links inside the tasks | insert, remove, first, last, next, find | CFS, MLFQ, under the lock of a run queue |
| Statistics (`sched/schedy.c`) | times per slot, run time and counters per worker | written by submission, switch and release, read by `sched_print_statistics` | main after `sched_wait` |
| Spinlock (`core/spinlock.c`) | one atomic flag | lock, try_lock, unlock | everything |
| Sleep, event (`api/sleep.c`, `api/event.c`) | locals; one atomic flag | poll between yields | `task_yield` |
| Kernel threads, log, tests, `main.c` | none of their own | create/join, print | the public API |

How the parts interact. A task's spinlock is taken by the worker that acquires
it and held while the fiber *runs*; it is released only in `sched_release`. So
the lock is the ownership of the slot, and it moves between code on the
scheduler's stack and code on the fiber's stack. Under MLFQ and CFS a task is
put into a run queue **before** its lock is released, so another worker can
take it out of the queue and find it locked: it then requeues it in its own
queue and counts an attempt. A worker whose attempts run out leaves its loop
and its thread ends: the pool only ever shrinks. `tasks_wait` joins the threads.

What is hard, and so what the properties are about:

- *Ownership*: who may touch a slot, between try_lock, switch, yield, release
  and the reuse of zombie slots by a submission. (`MutualExclusion`,
  `EveryLockExcludes`, `SwitchTargetReady`, `WorkerPointer`, `Conservation`)
- *Being in one place*: a task that is dequeued, found locked, requeued by a
  thief and dequeued again must stay in exactly one queue or hand. The queue
  links and the tree key live inside the task. (`OnePlace`, `LevelMatchesQueue`,
  `KeyStable`, `DequeuedIsRunnable`)
- *Termination against loss*: workers leave when they find nothing, and
  "nothing" includes tasks that other workers hold. Does `tasks_wait` mean that
  all tasks are done? (`WaitMeansDone`: yes for round-robin, no for the others; `OnlyRetriesLose`)
- *Progress*: scans that skip locked slots without advancing, levels without
  boost, queues whose worker has left. (`EveryTaskRuns`, `WaitReturns`,
  `OneTurnEach`, `YieldGivesWay`, `EveryTaskRunsWhileStaffed`, `FairTurns`)
- *Waiting by polling*: fibers in `event_wait` keep every worker busy while the
  one they wait for has yet to run. (`EveryFiberExits`, `KeepsEventPromise`,
  `WaitersSeeResult`)
- *What the schedulers rest on*: pointer structures that rely on what every
  earlier operation left behind, a context switch that stores registers in
  three places of the source, a lock that is one flag, times of slots that are
  reused. (`RedBlackTree`, `OrderedSet`, `LoopsAdvance`, `ListInv`, `ImplementsFifos`,
  `ContextPreserved`, `EntryAsSubmitted`, `LockComesFree`, `ReportAddsUp`)

`PROJECT.json` lists every hazard at its line with the properties aimed at it.

## 2. Modules

    DataTheorems       induction over numbers and finite sets, sums: facts the proofs share
    TaskPool           what a caller relies on: submit, start, yield, finish, close
    Schedy             the core shared by all policies (slots, switch, release, submit, main)
      SchedyInvariant      what holds of locks, slots and contexts under any policy
        Schedy_proofs        its proof, and the steps of TaskPool the core takes
      SchedRR          + sched_acquire_next_rr
        SchedRRInvariant   + the scan and the argument for termination
          SchedRRTurns         a history of the turns: who gets one while others wait
          SchedRR_proofs       the proofs, the safety theorems and the refinement of TaskPool
          MCRR                 instances for TLC
      SchedPolicy      + sched_acquire_next_policy
        SchedPolicy_proofs   how its steps move a task between queues and hands
        SchedMLFQ      + sched_mlfq.c        MCMLFQ
          SchedMLFQ_proofs     the theorems about it
        SchedCFS       + sched_cfs.c
          SchedCFSTurns        a history of the steals: who shares turns with whom   MCCFS
          SchedCFS_proofs      the theorems about it
    Sleep              task_sleep and timespec2ms         MCSleep
      Event            event_wait, event_fire, the fibers of test_event.c   MCEvent
        Clock_proofs       the theorems about Sleep, Event and Statistics
    EventPromise       what event.h promises: refined by Event
    CfsTree            tree.h as sched_cfs.c instantiates it: the ordered set of SchedCFS
    Spinlock           spinlock.c
      TailQueue        one run queue of sched_mlfq.c with the macros of queue.h
    Mutex, FifoLevels  what Spinlock and TailQueue are shown to implement: the locks
                       of all models, the queues of SchedMLFQ
    Uthread            uthread.c and switch.S: the `thread[t]` of Schedy
    Statistics         the times and counters of schedy.c
    Foundations_proofs   the theorems about Spinlock, TailQueue, Uthread and CfsTree
    MCFoundations      TLC's instance of CfsTree, TailQueue, Uthread and Statistics
    Null               the constant these share

**State.** A worker's `pc` is its place in `sched_loop` or, while it executes on
a fiber's stack (`OnFiber`), in the fiber's code; `cur` is the local `task`,
`idx` the index of the innermost loop, `attempt` the retry counter. `lock[t]`
names the holder of the task's spinlock where the code has a flag: the code never
asks who holds a lock, the properties do. `thread[t]` is what the context would
resume ("entry", "saved", "live", "reset", "freed" or no stack at all).

**Actions.** One action is one access to memory that others can change, together
with the local computation around it. Work on a slot under its lock is one
action per protected region that other threads can see into: filling a slot and
unlocking it are two, since a policy's callback runs between them. The scan of
`sched_acquire_next_rr` is one action per `try_lock`; MLFQ's stealing one per
lock and per pop; CFS, which always waits for a queue's lock and never holds two,
one per critical section. `TaskExit` includes the statistics `sched_loop` adds
once it has switched back, since these belong to the worker alone.
What a fiber does is any sequence of yield, submission and exit.
A failed assertion ends the process (`Aborted`; stuttering from there on).

**Main.** `MainSubmit` is the whole of a submission before `sched_start`: there
is no other thread then. After `tasks_wait` and `tasks_destroy` the next round
starts over with `Reinit`, which leaves `next_task_index` as it is, as
`sched_init` does. So all runs cover several rounds.

**Sleep** is a fiber with a clock, the scheduler being any delay between
`Yield` and `Resume`. `timespec2ms` is the code's formula, defect included.

**Event** puts that fiber among others: it is the eventer of `test_event.c`,
which one of the waiting fibers submits, and which sleeps, stores the result and
fires. Of the scheduler it has what `TaskPool` and `EveryTaskRuns` establish: at
most `CREW` fibers are on a worker, and a ready fiber gets its turn. The test
has one waiting fiber; with as many as workers, polling alone can fill the pool.

**CfsTree.** A tree is a record of root, links, parents and the red tasks. The
macros spell the left and the right case out; the model has one with the side as
a parameter. Calls do not interleave, since the callers hold the run queue's lock,
but a call is a step for every turn of a loop of its macros: `stage` is the loop it is
in, `node` and `above` are what the code calls `elm` or `tmp` and `parent`.
`RB_GENERATE_STATIC` generates more than `sched_cfs.c` calls: it inserts, asks for `RB_MIN` and
removes that task, never one with two children, and calls none of `RB_FIND`, `RB_NFIND`,
`RB_NEXT`, `RB_PREV` and `RB_MAX`. The model has the whole instance: any task is
removed, a search is for any task with any vruntime (its own if it is in the
tree), a step to a neighbour starts at any task of the tree.

**TailQueue** goes one level below: each assignment of a macro is a step, and
the threads come and go through `Spinlock`. A list head and an element are cells
of the same layout, as the casts of `TAILQ_LAST` require.

**Uthread** keeps the words of each stack and the registers of each kernel
thread. A switch pushes, saves `rsp`, loads the other `rsp` and pops; `Call`,
`Return` and `Compute` stand for what a compiled body does to its stack and to
the callee-saved registers. What a word holds is named by who put it there, so
any mix-up shows.

**Statistics** is the core seen by its clock readings. The acquisition of tasks is left
open (any task that is ready, any order, workers that leave tasks over) so that
what is shown holds for each policy.

## 3. What is checked

Each run below is one TLC configuration. Every property has at least one seeded
fault, an operator placed before the definition it replaces and marked *Seeded
fault*, with which TLC finds the property violated: so each property can fail.

| Run | Instance | Shows |
|---|---|---|
| `rr` | 3 slots, 2 workers, 1 attempt, 3 submissions per round (132 299 states) | contexts, conservation of submissions, `WaitMeansDone`, `TaskPool` refinement, the inductive invariant with its types and locks; every runnable task is run, before any other slot has had two turns; `tasks_wait` returns if bodies return |
| `rr_full` | 2 slots, 2 submissions | *violation*: a submission aborts with a free slot (finding 3) |
| `mlfq` | 2 slots, 2 workers, 2 attempts, 3 submissions, 2 levels | locks exclude, the queues lose and double nothing, levels match quanta, what `tasks_wait` leaves behind was left by a worker out of attempts, refinement of the lossy `TaskPool`; `tasks_wait` returns if bodies return |
| `mlfq_progress` | 3 slots, 2 workers, 2 attempts, 3 submissions, all before `tasks_start` | no task waits forever while all workers are in their loops, whatever yields and is stolen beside it |
| `mlfq_lost` | 2 workers | *violation*: `tasks_wait` returns with a runnable task (finding 1) |
| `mlfq_starvation` | 2 workers, 1 attempt | *violation*: a queued task waits forever beside a live worker (finding 2) |
| `cfs_safety` | 2 slots, 2 workers, 3 submissions, vruntime up to 2 | the types, `OnePlace` and the refinement as in `mlfq`; no key changes inside a tree |
| `cfs_fair` | 4 slots, 2 workers that steal, 1 attempt, 4 submissions, vruntime up to 2 (2.5 million states) | turns are shared within one; no task comes back in front of its queue |
| `fibers` | 2 waiting fibers and the eventer on 2 workers, a second of 2 ms, clock to 20 | each wait ends, after the event and with its result; sleeps are short by less than a second |
| `sleep_early` | a second of 2 ms, clock to 20 | *violation*: a sleep returns early (finding 4) |
| `foundations` | 5 tasks with 2 vruntimes in a tree; 2 threads, 2 tasks, 2 levels; 2 kernel threads, 2 stacks; 2 slots, 2 workers, clock to 3 | tree, lists, spinlock, contexts and statistics are what the other modules take them for |
| `uthread_mmap` | 1 stack | *violation*: a failed `mmap` is not reported but written through (finding 5) |

`foundations` puts four components that share no state into one configuration; a
behaviour exercises one of them. The merged invariants (`RedBlackTree`,
`ListInv`, `StacksIntact`, `TimesAgree`, `ReportAddsUp`) have a seeded fault for
each of their parts that a fault of the code can break.

**Bounds.** `LIMIT`, `WORKERS`, `ATTEMPTS`, `LEVELS` are the code's constants
made small. Two workers are enough for a task to be in one worker's hand while
the other acts on it, and three slots for a scan to have slots before, at and
behind the shared index. With as many submissions as slots zombie slots are
reused, with one more the table overflows (`MainAbort`, `SubmitRetry`). One
attempt is the harder case for progress, two the fewest that distinguish a retry
from giving up; round-robin with more of both is the business of the theorems.
Two levels have a quantum of 1 and of 2, so that a task both keeps its
level and is demoted. It takes three tasks on two workers for one to wait in a queue while
others pass it (`mlfq_progress`).
Four slots let one worker run a task that submits, insert with a stale `min_vruntime` and
still hold two tasks that differ, while the other steals a third (`cfs_fair`); there main submits one task,
that one a second, and that one the rest (`ChainSpec` of `MCCFS`), which keeps the state space in reach. The last
submitter must not be in slot 0, which goes first among equals: `min_vruntime` would never be stale. In
`cfs_safety` main and every task submit. `SUBMITS` bounds the submissions of one round, `MAX_VRUNTIME`
the yields of a task, `HORIZON` and `LAST_TIME` the clock, `RESUBMITS` the
submissions and `DEPTH` the nested calls of a body: bounds of the models, not of the code.
A second of 2 ms lets the clock reach `MS_IN_S * MS_IN_S` seconds, where the
defective term of `timespec2ms` steps, within a sleep. Five tasks make trees
with every turn of both recolourings on both sides, a red sibling included; two vruntimes
make ties and orders against the addresses. Two threads, two tasks and two levels let a list be
empty, of one and of two tasks while the other thread waits. Two kernel threads and
two stacks let a fiber migrate while another one takes its worker. The theorems of section 5
hold for every value. Workers and slots are visited in index order, so neither
is symmetric. Deadlock is checked in every run of the scheduler; the clock of
`Sleep`, `Event` and `Statistics` stops at its bound, all fibers of `Event` exit,
and the process of `Uthread` ends with the failed `mmap`, so there it is not.

**Fairness.** Weak fairness of each worker and of the main thread: the kernel
runs every thread, and a fiber comes to its next call of the scheduler. Weak is
all that is claimed: the spinlocks promise no order, so a worker that waits for
`tasks_lock` may lose it any number of times. `WaitReturns` assumes in addition
(`EveryBodyReturns`, strong fairness of each task's exit) that a body that is run
again and again returns; a fiber that yields in a loop forever, as one in
`event_wait` may, makes `tasks_wait` wait forever, and rightly. Main's submissions
are not fair: a client need not submit anything.

In `Event` time passes, a fiber on a worker goes on (both weakly fair), and a
ready fiber is taken on strongly fairly: that is `EveryTaskRuns`, which round-robin
keeps (run `rr`) and MLFQ does not once a worker has left (finding 2), so for
`event_wait` under MLFQ there is no such promise. In `TailQueue` only the thread
that has the lock is assumed to go on. `CfsTree` needs no fairness: that its calls end is
stated as the safety property `LoopsAdvance`.

## 4. Findings

1. **Tasks are lost under MLFQ and CFS** (`mlfq_lost`). Worker A puts a yielded
   task in its queue (`on_yield`) and has yet to unlock it. Worker B dequeues it,
   `try_lock` fails, B requeues it. If this was B's last attempt B leaves its
   loop with the task in B's queue; A may in the meantime have looked into the queues,
   found none and left as well. The task stays runnable with nobody to run it
   and `tasks_wait` returns. With the 16 attempts of the code the sequence is longer, not impossible. The same
   paths exist under CFS, whose refinement too is only of the lossy pool. They are the
   only way to lose a task: what is lost is in a queue of a worker that used up its attempts
   (`OnlyRetriesLose`), and while no worker does both policies implement `TaskPool` itself (section 5).
2. **A fiber can keep another from ever running** (`mlfq_starvation`). A worker
   that left behind a requeued task is gone, and the other worker steals only when
   its own queue is empty, which a fiber that polls prevents.
3. **A free slot is not enough to submit** (`rr_full`). A submission passes over
   slots that another worker's scan holds for a moment; when each attempt meets
   such a lock the assertion "Can't create a task" ends the process.
4. **`task_sleep` is early** (`sleep_early`): the fraction of the second is lost
   because `timespec2ms` divides `tv_sec` where `tv_nsec` is meant. `fibers` and
   `EarlyBySecondAtMost` show the error is under a second (and the millisecond that the
   wrong term steps by).
5. **A failed `mmap` is not noticed** (`uthread_mmap`): `uthread_allocate` tests for
   `NULL` where `mmap` returns `MAP_FAILED`, and writes through it.

Two comments also promise more than the code does, visible in the models without
a run of their own: `sched_loop` does not run "while there are tasks"
(`schedy.c:178`), a worker leaves as soon as its scans meet none that is free to run; and
`worker->running_task` (`sched_worker.h:33`) is never cleared, so it may name a
task that another worker is executing.

## 5. What is proved

For every number of slots, workers, attempts, submissions, threads, fibers and
every length of a second, by TLAPS:

| Theorem | Statement |
|---|---|
| `TypeCorrect` | `Spec => []TypeOK` (round-robin) |
| `LocksExclude` | `Spec => []MutualExclusion` |
| `ScansExclude` | `Spec => []ScanExclusion` |
| `SwitchTargetsReady` | `Spec => []SwitchTargetReady` |
| `WorkerPointers` | `Spec => []WorkerPointer` |
| `Inductive` | `Spec => []IInv` |
| `WaitMeansAllDone` | `Spec => []WaitMeansDone` |
| `SubmissionsConserved`, `MLFQSubmissionsConserved`, `CFSSubmissionsConserved` | `Spec => []Conservation` |
| `TurnsAreRound` | `TurnsSpec => OneTurnEach` |
| `RefinesTaskPool` | `Spec => ImplementsTaskPool` |
| `MLFQTypes`, `CFSTypeCorrect` | `Spec => []TypeOK` (MLFQ, CFS) |
| `MLFQExclusion` | `Spec => []EveryLockExcludes` (the locks of the tasks and of the run queues) |
| `CFSExclusion` | `Spec => []MutualExclusion` |
| `MLFQOnePlace`, `CFSOnePlace` | `Spec => []OnePlace` |
| `MLFQLevels` | `Spec => []LevelMatchesQueue` |
| `CFSKeyStable` | `Spec => KeyStable` |
| `CFSFairTurns` | `TurnsSpec => []FairTurns` |
| `CFSNoHeadStart` | `Spec => []NoHeadStart` |
| `MLFQDequeuedIsRunnable`, `CFSDequeuedIsRunnable` | `Spec => []DequeuedIsRunnable` |
| `MLFQSwitchTargetsReady`, `CFSSwitchTargetsReady` | `Spec => []SwitchTargetReady` |
| `MLFQWorkerPointers`, `CFSWorkerPointers` | `Spec => []WorkerPointer` |
| `MLFQRefinesLossyPool`, `CFSRefinesLossyPool` | `Spec => ImplementsLossyPool` |
| `MLFQLostAreQueued`, `CFSLostAreQueued` | what `tasks_wait` leaves is `LeftInOrder` |
| `MLFQOnlyRetriesLose`, `CFSOnlyRetriesLose` | `Spec => []OnlyRetriesLose` |
| `MLFQRefinesTaskPoolWithinAttempts`, `CFSRefinesTaskPoolWithinAttempts` | `Pool!Spec` in the behaviours of `Spec` in which no worker uses up its attempts |
| `SpinlockExcludes` | `SpinlockSpec => [](SpinlockTypeOK /\ FlagMeansHeld)` |
| `SpinlockIsMutex` | `SpinlockSpec => IsMutex` |
| `LinksAlwaysAgree` | `ListSpec => []ListInv` |
| `QueueIsFifos` | `ListSpec => ImplementsFifos` |
| `StacksStayIntact` | `UthreadSpec => []StacksIntact` |
| `SwitchesPreserve` | `UthreadSpec => ContextPreserved` |
| `TasksStartAsSubmitted` | `UthreadSpec => EntryAsSubmitted` |
| `TreeIsOrderedSet` | `TreeSpec => []OrderedSet` |
| `StaysRedBlack` | `TreeSpec => []RedBlackTree` |
| `FollowsNoNull` | `TreeSpec => []NoNullFollowed` (a part of `RedBlackTree`) |
| `SearchesFind` | `TreeSpec => []Navigation` |
| `LoopsEnd` | `TreeSpec => LoopsAdvance` |
| `TimesAlwaysInOrder` | `StatsSpec => []TimesAgree` |
| `RunTimesFit` | `StatsSpec => []RunTimeWithinTotal` |
| `P95IndexIsNearestRank` | the index of the report is in the array, and the least whose rank is 95 of 100 |
| `TotalsAddUp` | `StatsSpec => []ReportAddsUp` |
| `P95Reported` | `StatsSpec => []P95IsNearestRank` |
| `SleepTypeCorrect` | `Spec => []TypeOK` (sleep: the unsigned difference does not wrap) |
| `EarlyBySecondAtMost`, `YieldsInTime` | `Spec => EarlyByLessThanASecond`, `Spec => NoLateYield` |
| `WaitSeesResult` | `EventSpec => []WaitersSeeResult` |
| `EventTypeCorrect` | `EventSpec => []EventTypeOK` |
| `EventerSleepsInTime` | `EventSpec => EarlyByLessThanASecond /\ NoLateYield` |
| `PollingKeepsPromise` | `EventSpec` keeps the safety part of `EventPromise` |

They rest only on the named assumptions of the modules: `SchedyAssumption` (the
constants are positive numbers, `NULL` is neither a task nor a worker),
`RRAssumption`, `PolicyAssumption`, `MLFQAssumption` (one to four levels, as many as
the table of quantums has), `CFSAssumption`, `SpinlockAssumption`,
`ListAssumption` (finitely many tasks and levels, the levels numbered from 0, and the
list heads no tasks), `UthreadAssumption` (an even number of words of stack, more than there are
nested calls; stacks of fibers and of kernel threads apart; `MAP_FAILED` is not `NULL`) with `NoContext` (no saved context is `NULL`),
`StatisticsAssumption` (finitely many slots and workers), `TreeAssumption` (finitely many
tasks, their addresses and vruntimes are numbers, `NULL` is neither), `SleepAssumption` and `EventAssumption`.

**Round-robin.** None of the safety properties is inductive by itself. The invariant is built in
layers, each preserved given the ones below it (`SchedyInvariant`, whose two serve
all policies, and `SchedRRInvariant`):

- `LockInv`: types, where each local points at each program point, and that
  the holder of every task lock is exactly the worker whose place in the code says
  so (`ScanInv` and `ScanExclusion` say it of `tasks_lock`). Without the last part a step of one worker could
  change the slot another works on.
- `StateInv`: what a slot's state says about its context and its owner. A slot
  that is not `Resting` is in the hands of the one worker that holds its lock;
  hence a submission never finds a running slot free and a scan never switches to
  a reset context.
- `JustLocked` and `HopeInv`: the argument for termination without loss. The
  shared index advances only past slots the scan has seen, so at any time the
  slots a scan has passed are those at most `idx` behind it. While any task is
  not a zombie some worker has *hope*: it holds a task, or has yet to start a scan, or
  the slots its scan passed hold no runnable task. When a task becomes
  runnable, it is by a worker that will scan again (it returns to
  `sched_loop` from `sched_release`, or it runs the fiber that submitted). A
  failed `try_lock` does count in `i` but does not advance the index. This is
  safe because the slot the scan stays on is held by a worker that has hope
  itself. So the last worker to leave has seen every slot without a runnable
  task, and `tasks_wait` returns only then. This is precisely what `MLFQ` and
  `CFS` lack: the worker that fails a `try_lock` there takes the task from the
  worker with hope.

`Conservation` counts: each step changes one of the three numbers it adds up by one
and another, or `submitted`, by one, or none. `DataTheorems` has what that needs of sums
over functions; from `StateInv` comes that no two workers are counted for one slot.

`OneTurnEach` is why it is called round-robin, and `TurnsInv` why it is true: the slots that
had a turn since a task began to wait are behind the shared index, nearer to it than
that task is (`Behind`). A scan switches to the slot the index has just passed (`JustLocked`), so a
second turn of a slot would mean that the index had come round, past the waiting task; but the
index passes a runnable task only by locking it, and then that task is the one to
run. `SchedRRTurns` adds the history `turns`, which no step of the scheduler reads.

The refinement maps a slot's state to idle, ready or running, and the holder of a
running slot's lock to its runner. `Schedy_proofs` shows action by action that each
step of the core is the abstract one or a stutter, under `StateInv`; the scan
stutters, and `HopeInv` makes the end of `sched_wait` a `Close`.

**MLFQ and CFS.** To `StateInv` they add one idea, `Places`: a task is in a queue if and
only if it is `AtRest`, runnable and kept by no worker; otherwise it is `InOneHand`, kept
by at most one worker, by none only as a zombie, and runnable while the one who
has it dequeued it without its lock. Every step either leaves a task as it is
(`StaysPut`) or moves one task between a queue and a hand. This holds although
the hand and the lock are not the same: a yielded task is queued, and may be stolen, before
its lock is free. With the queues holding no task twice, `OnePlace` follows by
counting (for MLFQ by the pigeonhole principle: a queue without duplicates is no
longer than the table). `KeyStable` and `LevelMatchesQueue` follow since the
callbacks write the key and the level of a kept task only, which is in no queue.
`CFSTypeCorrect` needs one fact more, that a yield is not due on a task that
has used up its bound; the rest is that only its keeper writes a task's vruntime.

`FairTurns` compares the tasks a worker serves: those in its tree, the one it has, the one it
is inserting. `SharesInv` says why they stay within one turn of each other (`Spread`): the
task a worker took from its own tree was the leftmost, so all others are at its vruntime or one turn on, and
so is `min_vruntime` (`Abreast`), from which the tasks it submits start. A thief only
takes out the leftmost task and moves `min_vruntime` up to it, which is within that turn too, so
a submission that read it before or after the theft starts inside it.
A worker steals only when its own tree is empty, so the stolen task is for the time being the only one it
serves, whatever its vruntime. What breaks the order is a stolen task that
submits: the new task starts at the thief's `min_vruntime`, which has nothing to do with the vruntime of the stolen one
(`sched_cfs.c:87`, `:114`). The history `mixed` names the workers to
which that has happened, until their tree is empty again, and `FairTurns` leaves them out. Without
the exception TLC finds it violated; nothing in the repository promises
an order across queues, so this is a limit of the policy and no finding. `NoHeadStart` needs no exception: who puts a task
back raises its vruntime to `min_vruntime` under the queue's lock. Only a new task, whose vruntime was read
without that lock, can be behind (`SubmitsFresh` says that such a task has not run).

The refinement is of the lossy pool: `Wait` is a `CloseEarly` as every worker has left
and so no slot is running, and nothing better is true (finding 1) for two workers or more.
What is left behind is whole (`LeftInOrder`): runnable, in one queue, under no lock.
`OnlyRetriesLose` follows from `Diligent`: a worker that looks into the queues of others, or has left
with attempts to spare (`FoundNone`), has an empty queue itself. It was empty when the worker looked, and nobody
else fills it, since a thief requeues in its own. So what is left behind when all have left is in the queue of a worker
that requeued a task it could not lock with its last attempt. If no worker comes to that there is
nothing left behind, `Wait` is a `Close`, and the pool is not lossy.
Under MLFQ the locks of the run queues are real steps; `QueueExclusion` says where in the code
each is held, on which queue, and that no way out of `dequeue` leaves one taken.

**Spinlock.** That the flag is set exactly while one thread is inside is inductive;
with it the holder of the lock is well defined, and each exchange is an
acquisition or a stutter. This is what lets all other modules take a lock in one step.

**Run queues.** `QueueInvariant` says that some sequence of tasks per level
(`Sequences`) is what the links say (`Linking`): forward from the head, backward from
its `prev`, with no task in two places or at two positions. While a thread is between
two assignments of a macro, `Linking` says which of the links are already those of the
next sequence. The witness changes at one step of each macro, the step at which
`ListOf`, read off the `next` links, changes: there the refinement takes the step
of `FifoLevels`, and everything else stutters. The spinlock enters by `Held` alone:
between two steps of its holder no other thread writes a link.

**The tree.** `TreeInv` says that some function `B` from the tasks to the tasks below them
fits the links (`Shape`: parents and children agree, what is below a task is the task and
what is below its children, and is on the side `cfs_task_cmp` puts it), and
that some function `H` to numbers counts the black tasks on every way down (`Heights`).
Both witnesses are needed since a recursive definition is of no use to the prover; that
the links have only one such `B`, the `Subtrees` of the properties, is proved by
induction over the finite set of tasks (`AncestorInduction`, `SubtreesAreBelow`).
With each stage of a call goes what it may break, and where: a task to be inserted is outside,
and the way down has led to where it belongs; while `RB_INSERT_COLOR` runs its task may be
red below a red parent; while `RB_REMOVE_COLOR` runs one side of `above` is one black
task short; the way to a successor, a neighbour or an extreme has left nothing nearer behind
(`Approach`, `Ascent`, `Extremity`), the way of a search nothing that is not less but
the last task passed on the left and greater ones (`Hunt`).
Each change of links (rotation, attaching, detaching, handing a place to the
successor) is a lemma of its own about `B`, and one about `H` and the colours; it is stated
for a side and its opposite, so that the mirrored halves of the macros need one proof.
What `RB_NEXT` returns must come before tasks it never saw, outside the subtree it went
through: such a task is on the same side of all that is below a task (`SameSide`, by
`AncestorInduction` once more).
The four invariants are consequences. `LoopsEnd` follows as well: a turn that goes down
leaves fewer tasks below it, one that climbs or recolours has more, and after a rotation the
parent is black or the task red, so that the next turn is the last. Together with a turn being
possible at every stage (the guards of a stage's actions are exhaustive) this is why each call
returns.

**Contexts.** `ContextInvariant` says of each stack what its words are at every stage of
its life: prepared by a submission (a frame with entry and arguments), suspended (the
callee-saved registers, the address to go on at and the stack pointer below them, as they
were when the fiber left), in use by one kernel thread, or unmapped. A fiber in use has
its frames above `rsp`, one per call that has not returned. A switch moves one stack
from in use to suspended and another one back, so what it loads is what was left.

**Statistics.** A worker's task, if any, is `RUNNING` or `FINISHED` and in no other
hand; a slot that has run has times that grow in the order of submission, first
run, last switch and finish. `RunTimesFit` adds that a worker's run time so far
lies between `sched_start` and its last switch; `TotalsAddUp` that the sums over the
workers and those over the slots grow together; `P95Reported` that an index below
`share` of a sorted list has that many entries at or below it.

**Sleep.** `start` is the reading at the time of the call, and a reading is between the
clock less a second and the clock, plus the hops of the second term; the
theorems subtract two such readings.

**Event.** Only an eventer that has stored the result fires, and who is out of the
wait has seen it fired. A step of the eventer is a step of `Sleep` or a stutter, which
carries the bounds of a sleep over.

**Only model-checked.** Liveness (all `~>` and `<>` properties, under fairness,
that of `EventPromise` included) and `ENABLED` are beyond the prover; every safety invariant
and every action property of a run is a theorem. `P95IsNearestRank` and `NoLateYield` are the other way round: they are theorems
without a run, since a few slots and one loop test show no more than the proof does. `TreeInv` itself is not among the invariants of a run, since TLC would have to search
all functions for its witnesses; its consequences are. Induction over numbers and
finite sets is available where it can be stated with sets instead of operators
(`DataTheorems`: a set of numbers that has 0 and every successor is `Nat`). Under CFS
`DequeuedIsRunnable` and `OnlyRetriesLose` are proved and left to the run of MLFQ, with which they share their definitions.

## 6. What is not modelled, and why

- The overflow of a stack: the frames of a body are not in the code; `DEPTH` keeps
  them on the stack. `context`, the first word of a mapping, would be the first to go.
- Signals, floating-point and vector registers: `switch.S` saves none of them
  (all vector registers are caller-saved), the control words stay as they are.
- The memory order of spinlocks and events: all atomics of the code are
  sequentially consistent, and so are the models.
- The counts of steps and yields, and the formatting of the report.
- Task weights other than the default (nothing sets one), wrap-around of `vruntime`.
- The rest of the vendored headers: splay and rank-balanced trees, singly linked and
  BSD lists, which nothing uses.
- Failure of `thrd_create`, `thrd_join` and `calloc`: assertions end the process.
- Starvation by endless submission (a demoted task under MLFQ, `sched_mlfq.c:73`): `SUBMITS`
  ends the stream of new tasks.
- The log, the tests but `test_event.c`, `main.c`: clients of what is modelled.

## 7. Plan

In the order of what matters to a user of the scheduler. Done:

1. `Schedy`, `SchedRR`, `TaskPool`: core and round-robin, safety and progress.
2. `SchedPolicy`, `SchedMLFQ`, `SchedCFS`: queues, stealing and fairness.
3. `Sleep` and `Event`: the clock, the polling loops, fibers that wait for each other.
4. `SchedyInvariant`, `SchedRRInvariant` and the proofs of round-robin.
5. `Uthread`, `Spinlock`, `TailQueue`, `CfsTree`, `Statistics`: what 1 and 2 rest on.
6. Proofs of `Spinlock`, `Statistics`, `Sleep` and the safety of `Event`.
7. Proofs of the safety of MLFQ and CFS and of their refinement.
8. Proofs of `TailQueue` with its refinement, of `Uthread`, of the sums of
   `Conservation` and of the report, and of the fair turns of CFS.
9. `CfsTree` with one step per turn of a loop of the macros, and the proofs that it is
   an ordered set, a red-black tree, and that its loops end.
10. The searches of the tree as calls of the same kind, with the proof that they find; the
    turns of round-robin.

Left:

11. The composition of `Event` with `SchedRR` in place of the fairness that stands for it.
12. Unbounded submission (a counter modulo a bound) for the starvation of demoted
    tasks under MLFQ and of late slots in CFS's order of equal vruntimes.
