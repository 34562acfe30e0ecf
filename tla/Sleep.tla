------------------------------- MODULE Sleep --------------------------------
(***************************************************************************)
(* task_sleep (sleep.c): a fiber that polls the monotonic clock between    *)
(* yields. The clock counts milliseconds of which MS_IN_S make a second;   *)
(* what is left of a reading is what timespec2ms makes of it. Between two  *)
(* polls the scheduler may let any time pass.                              *)
(***************************************************************************)
EXTENDS Integers

CONSTANTS
  MS_IN_S,    \* 1000 in the code
  SLEEPS,     \* the arguments of task_sleep
  HORIZON     \* bound of the model: where the clock stops

ASSUME SleepAssumption ==
  /\ MS_IN_S \in Nat \ {0}
  /\ SLEEPS \subseteq Nat
  /\ HORIZON \in Nat

VARIABLES
  clock,
  pc,             \* the fiber: "running", "awake" (polls), "yielded"
  start,          \* the local of task_sleep
  milliseconds,
  called          \* history: the clock when task_sleep was called

vars == <<clock, pc, start, milliseconds, called>>

(* Seeded fault: the milliseconds of a second count double.                *)
Timespec2msDoubled(t) == 2 * (t \div MS_IN_S) * MS_IN_S

(* Seeded fault: only the fraction of the second is read.                  *)
Timespec2msFraction(t) == t % MS_IN_S

(* The second term divides tv_sec, where tv_nsec must have been meant: the *)
(* fraction of a second is lost.                                           *)
timespec2ms(t) ==
  LET tv_sec == t \div MS_IN_S
  IN  tv_sec * MS_IN_S + tv_sec \div (MS_IN_S * MS_IN_S)

Init ==
  /\ clock \in 0 .. HORIZON
  /\ pc = "running"
  /\ start = 0 /\ milliseconds = 0 /\ called = 0

Tick ==
  /\ clock < HORIZON
  /\ clock' = clock + 1
  /\ UNCHANGED <<pc, start, milliseconds, called>>

(* The bound leaves every sleep the time it may need.                      *)
Call(ms) ==
  /\ pc = "running"
  /\ clock + ms + MS_IN_S <= HORIZON
  /\ pc' = "awake"
  /\ start' = timespec2ms(clock)
  /\ milliseconds' = ms
  /\ called' = clock
  /\ UNCHANGED clock

Passed == timespec2ms(clock) - start

Yield ==
  /\ pc = "awake" /\ Passed < milliseconds
  /\ pc' = "yielded"
  /\ UNCHANGED <<clock, start, milliseconds, called>>

Resume ==
  /\ pc = "yielded"
  /\ pc' = "awake"
  /\ UNCHANGED <<clock, start, milliseconds, called>>

Return ==
  /\ pc = "awake" /\ Passed >= milliseconds
  /\ pc' = "running"
  /\ UNCHANGED <<clock, start, milliseconds, called>>

Fiber == Yield \/ Resume \/ Return \/ \E ms \in SLEEPS : Call(ms)

Next == Tick \/ Fiber

(* Time passes, and the scheduler resumes a fiber that yielded (that it    *)
(* does is SchedRR's EveryTaskRuns).                                       *)
Spec == Init /\ [][Next]_vars /\ WF_vars(Tick) /\ WF_vars(Fiber)

-----------------------------------------------------------------------------

Elapsed == clock - called
Returns == pc = "awake" /\ pc' = "running"

(* Types; the unsigned clock_now() - start of the loop never underflows.   *)
TypeOK ==
  /\ clock \in 0 .. HORIZON
  /\ pc \in {"running", "awake", "yielded"}
  /\ {start, milliseconds, called} \subseteq Nat
  /\ Passed \in Nat

(* sleep.h: wait no less than the given number of milliseconds.            *)
NeverEarly == [][Returns => Elapsed >= milliseconds]_vars

(* What the code does keep: a sleep is short by less than a second, plus   *)
(* one millisecond for every MS_IN_S * MS_IN_S seconds boundary inside it. *)
Drift ==
  LET hops(t) == (t \div MS_IN_S) \div (MS_IN_S * MS_IN_S)
  IN  hops(clock) - hops(called)

EarlyByLessThanASecond ==
  [][Returns => Elapsed + Drift > milliseconds - MS_IN_S]_vars

(* A fiber that is resumed late enough does not yield again: the sleep is  *)
(* over at the first poll after the time asked for and a second more.      *)
NoLateYield ==
  [][pc = "awake" /\ pc' = "yielded" =>
       Elapsed < milliseconds + MS_IN_S - 1]_vars

=============================================================================
