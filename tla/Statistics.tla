----------------------------- MODULE Statistics -----------------------------
(***************************************************************************)
(* The times and counters that schedy.c keeps and sched_print_statistics   *)
(* reports, but not the counts of yields and steps: which time is written  *)
(* when, over the reuse of slots and the rounds of main. Which task a      *)
(* worker acquires is left open: any that is ready; and workers may leave  *)
(* with tasks left over, as they can under MLFQ and CFS. A slot is written *)
(* by the holder of its lock only (MutualExclusion of Schedy), so each     *)
(* action is a whole locked region.                                        *)
(***************************************************************************)
EXTENDS Integers, FiniteSets, Functions, Null

CONSTANTS
  SLOTS,        \* of the task table
  STAFF,        \* the workers
  RESUBMITS,    \* bound of the model: submissions per round
  LAST_TIME     \* bound of the model: the last reading of the clock

ASSUME StatisticsAssumption ==
  /\ NULL \notin SLOTS
  /\ IsFiniteSet(SLOTS) /\ IsFiniteSet(STAFF)   \* arrays of a fixed length

VARIABLES
  now,          \* CLOCK_MONOTONIC, which never reads 0 once the system is up
  main,         \* "submitting" before sched_start, "waiting" and "joined"
  sched_start_ts, sched_end_ts,
  \* struct task
  phase, submit_ts, first_run_ts, finish_ts, run_time_ns,
  \* struct worker, and the locals of its sched_switch_to
  task, place, start_ts, worker_run_time, finishes,
  \* history: submissions, those into a slot with a finished task, and the
  \* run time in the slots when they were submitted to again
  resubmitted, overwritten, forgotten

slotTimes   == <<phase, submit_ts, first_run_ts, finish_ts, run_time_ns>>
staffTimes  == <<task, place, start_ts, worker_run_time, finishes>>
history     == <<resubmitted, overwritten, forgotten>>
mainTimes   == <<main, sched_start_ts, sched_end_ts>>
statsVars   == <<now, mainTimes, slotTimes, staffTimes, history>>

Zeros(S) == [x \in S |-> 0]

(* sched_task_init and sched_worker_init                                   *)
StatsInit ==
  /\ now = 1
  /\ main = "submitting"
  /\ sched_start_ts = 0 /\ sched_end_ts = 0
  /\ phase = [s \in SLOTS |-> "ZOMBIE"]
  /\ submit_ts = Zeros(SLOTS)
  /\ first_run_ts = Zeros(SLOTS)
  /\ finish_ts = Zeros(SLOTS)
  /\ run_time_ns = Zeros(SLOTS)
  /\ task = [w \in STAFF |-> NULL]
  /\ place = [w \in STAFF |-> "acquire"]
  /\ start_ts = Zeros(STAFF)
  /\ worker_run_time = Zeros(STAFF)
  /\ finishes = Zeros(STAFF)
  /\ resubmitted = 0 /\ overwritten = 0 /\ forgotten = 0

PassTime ==
  /\ now < LAST_TIME
  /\ now' = now + 1
  /\ UNCHANGED <<mainTimes, slotTimes, staffTimes, history>>

-----------------------------------------------------------------------------

(* Seeded fault: finish_ts keeps the end of the last task of the slot.     *)
NotFinishedStale(s) == UNCHANGED finish_ts

NotFinished(s) == finish_ts' = [finish_ts EXCEPT ![s] = 0]

(* Seeded fault: run_time_ns goes on from the last task of the slot.       *)
NoTimeUsedStale(s) == UNCHANGED run_time_ns

NoTimeUsed(s) == run_time_ns' = [run_time_ns EXCEPT ![s] = 0]

(* The submission into a zombie slot, by main before sched_start or by a   *)
(* fiber.                                                                  *)
Resubmit(s) ==
  /\ resubmitted < RESUBMITS
  /\ main = "submitting" \/ \E w \in STAFF : place[w] = "fiber"
  /\ phase[s] = "ZOMBIE"
  /\ phase' = [phase EXCEPT ![s] = "RUNNABLE"]
  /\ submit_ts' = [submit_ts EXCEPT ![s] = now]
  /\ first_run_ts' = [first_run_ts EXCEPT ![s] = 0]
  /\ NotFinished(s) /\ NoTimeUsed(s)
  /\ resubmitted' = resubmitted + 1
  /\ overwritten' = overwritten + (IF finish_ts[s] = 0 THEN 0 ELSE 1)
  /\ forgotten' = forgotten + run_time_ns[s]
  /\ UNCHANGED <<now, mainTimes, staffTimes>>

(* sched_switch_to, until it is on the fiber's stack.                      *)
SwitchOn(w, s) ==
  /\ main = "waiting"
  /\ place[w] = "acquire" /\ phase[s] = "RUNNABLE"
  /\ phase' = [phase EXCEPT ![s] = "RUNNING"]
  /\ task' = [task EXCEPT ![w] = s]
  /\ place' = [place EXCEPT ![w] = "fiber"]
  /\ start_ts' = [start_ts EXCEPT ![w] = now]
  /\ first_run_ts' = [first_run_ts EXCEPT ![s] = IF @ = 0 THEN now ELSE @]
  /\ UNCHANGED <<now, mainTimes, submit_ts, finish_ts, run_time_ns,
                 worker_run_time, finishes, history>>

(* Seeded fault: the readings are subtracted the wrong way round.          *)
DeltaSwapped(w) == start_ts[w] - now

Delta(w) == now - start_ts[w]

(* Seeded fault: every step counts as a finished task.                     *)
CountEvery(w, outcome) == finishes' = [finishes EXCEPT ![w] = @ + 1]

Count(w, outcome) ==
  finishes' = [finishes EXCEPT ![w] = IF outcome = "FINISHED" THEN @ + 1 ELSE @]

(* The fiber comes back, by task_yield as RUNNING or by task_exit as       *)
(* FINISHED: the rest of sched_switch_to, and the counter of sched_loop.   *)
SwitchOff(w, outcome) ==
  LET s == task[w] IN
  /\ place[w] = "fiber"
  /\ place' = [place EXCEPT ![w] = "release"]
  /\ phase' = [phase EXCEPT ![s] = outcome]
  /\ run_time_ns' = [run_time_ns EXCEPT ![s] = @ + Delta(w)]
  /\ worker_run_time' = [worker_run_time EXCEPT ![w] = @ + Delta(w)]
  /\ start_ts' = [start_ts EXCEPT ![w] = 0]
  /\ Count(w, outcome)
  /\ UNCHANGED <<now, mainTimes, submit_ts, first_run_ts, finish_ts, task,
                 history>>

(* sched_release                                                           *)
SchedRelease(w) ==
  LET s == task[w] IN
  /\ place[w] = "release"
  /\ place' = [place EXCEPT ![w] = "acquire"]
  /\ task' = [task EXCEPT ![w] = NULL]
  /\ IF phase[s] = "FINISHED"
     THEN /\ phase' = [phase EXCEPT ![s] = "ZOMBIE"]
          /\ finish_ts' = [finish_ts EXCEPT ![s] = IF @ = 0 THEN now ELSE @]
     ELSE /\ phase' = [phase EXCEPT ![s] = "RUNNABLE"]
          /\ UNCHANGED finish_ts
  /\ UNCHANGED <<now, mainTimes, submit_ts, first_run_ts, run_time_ns, start_ts,
                 worker_run_time, finishes, history>>

-----------------------------------------------------------------------------

SchedStart ==
  /\ main = "submitting" /\ main' = "waiting"
  /\ sched_start_ts' = now
  /\ UNCHANGED <<now, sched_end_ts, slotTimes, staffTimes, history>>

(* sched_wait, when every worker has left its loop.                        *)
SchedWait ==
  /\ main = "waiting" /\ main' = "joined"
  /\ \A w \in STAFF : place[w] = "acquire"
  /\ sched_end_ts' = now
  /\ UNCHANGED <<now, sched_start_ts, slotTimes, staffTimes, history>>

(* Seeded fault: the run time of the workers goes on from the last round.  *)
RunTimeOfRounds == UNCHANGED worker_run_time

RunTimeOfRound == worker_run_time' = Zeros(STAFF)

(* sched_init of the next round                                            *)
SchedInit ==
  /\ main = "joined" /\ main' = "submitting"
  /\ phase' = [s \in SLOTS |-> "ZOMBIE"]
  /\ submit_ts' = Zeros(SLOTS)
  /\ first_run_ts' = Zeros(SLOTS)
  /\ finish_ts' = Zeros(SLOTS)
  /\ run_time_ns' = Zeros(SLOTS)
  /\ task' = [w \in STAFF |-> NULL]
  /\ place' = [w \in STAFF |-> "acquire"]
  /\ start_ts' = Zeros(STAFF)
  /\ RunTimeOfRound
  /\ finishes' = Zeros(STAFF)
  /\ resubmitted' = 0 /\ overwritten' = 0 /\ forgotten' = 0
  /\ UNCHANGED <<now, sched_start_ts, sched_end_ts>>

StatsNext ==
  \/ PassTime \/ SchedStart \/ SchedWait \/ SchedInit
  \/ \E s \in SLOTS : Resubmit(s)
  \/ \E w \in STAFF :
       \/ SwitchOff(w, "RUNNING") \/ SwitchOff(w, "FINISHED") \/ SchedRelease(w)
       \/ \E s \in SLOTS : SwitchOn(w, s)

StatsSpec == StatsInit /\ [][StatsNext]_statsVars

-----------------------------------------------------------------------------
(* sched_print_statistics, when main has joined the workers.               *)

Measured  == {s \in SLOTS : submit_ts[s] # 0 /\ finish_ts[s] # 0}
latency   == [s \in Measured |-> finish_ts[s] - submit_ts[s]]
response  == [s \in Measured |-> IF first_run_ts[s] > submit_ts[s]
                                 THEN first_run_ts[s] - submit_ts[s] ELSE 0]

P95Index(measured) ==
  LET p95_index == (measured * 95 + 99) \div 100
  IN  (IF p95_index = 0 THEN 1 ELSE p95_index) - 1

(* The value at an index of the array that qsort by sched_u64_cmp leaves.  *)
Sorted(f, index) ==
  CHOOSE v \in Range(f) :
    /\ Cardinality({s \in DOMAIN f : f[s] < v}) <= index
    /\ Cardinality({s \in DOMAIN f : f[s] <= v}) > index

P95(f) == Sorted(f, P95Index(Cardinality(DOMAIN f)))

-----------------------------------------------------------------------------

(* Types, and which slot a worker holds.                                   *)
StatsTypeOK ==
  /\ now \in Nat \ {0}
  /\ main \in {"submitting", "waiting", "joined"}
  /\ {sched_start_ts, sched_end_ts, resubmitted, overwritten, forgotten} \subseteq Nat
  /\ phase \in [SLOTS -> {"ZOMBIE", "RUNNABLE", "RUNNING", "FINISHED"}]
  /\ submit_ts \in [SLOTS -> Nat] /\ first_run_ts \in [SLOTS -> Nat]
  /\ finish_ts \in [SLOTS -> Nat] /\ run_time_ns \in [SLOTS -> Nat]
  /\ task \in [STAFF -> SLOTS \cup {NULL}]
  /\ place \in [STAFF -> {"acquire", "fiber", "release"}]
  /\ start_ts \in [STAFF -> Nat] /\ worker_run_time \in [STAFF -> Nat]
  /\ finishes \in [STAFF -> Nat]

(* The unsigned differences of the report do not wrap, however often the   *)
(* slots are reused: a task that was measured was submitted, then first    *)
(* ran, then finished, and its time on workers fits between the last two.  *)
TimesInOrder ==
  \A s \in SLOTS :
    finish_ts[s] # 0 =>
      /\ 0 < submit_ts[s]
      /\ submit_ts[s] <= first_run_ts[s]
      /\ first_run_ts[s] + run_time_ns[s] <= finish_ts[s]
      /\ finish_ts[s] <= now

(* The differences that the report takes are those of one task each.       *)
TimesAgree == StatsTypeOK /\ TimesInOrder

(* "tasks executed" counts every task, the times only the last one of a    *)
(* slot: the tasks executed are those measured and those whose slot was    *)
(* submitted to again.                                                     *)
ExecutedAndMeasured ==
  main = "joined" =>
    SumFunction(finishes) = Cardinality(Measured) + overwritten

(* No run time is lost or counted twice: what the workers ran is in the    *)
(* slots, or was in slots that were submitted to again.                    *)
RunTimeConserved ==
  SumFunction(worker_run_time) = SumFunction(run_time_ns) + forgotten

(* A worker ran no longer than from sched_start to sched_wait.             *)
RunTimeWithinTotal ==
  main = "joined" =>
    \A w \in STAFF : worker_run_time[w] <= sched_end_ts - sched_start_ts

(* The totals of the report agree with the times of the slots, also when   *)
(* slots were submitted to again and over several rounds of main.          *)
ReportAddsUp == ExecutedAndMeasured /\ RunTimeConserved /\ RunTimeWithinTotal

(* The p95 of the report is the 95th percentile by nearest rank: 95 of 100 *)
(* tasks took no longer, and of no smaller value is that true.             *)
IsP95(f, v) ==
  LET share(u) == 100 * Cardinality({s \in DOMAIN f : f[s] <= u}) IN
  /\ share(v) >= 95 * Cardinality(DOMAIN f)
  /\ \A u \in Range(f) : u < v => share(u) < 95 * Cardinality(DOMAIN f)

P95IsNearestRank ==
  main = "joined" /\ Measured # {} =>
    IsP95(latency, P95(latency)) /\ IsP95(response, P95(response))

=============================================================================
