---------------------------- MODULE Clock_proofs ----------------------------
(***************************************************************************)
(* What is told by the clock. How far task_sleep is from what sleep.h      *)
(* promises, for every length of the second and of the sleep: the bounds   *)
(* of the error that timespec2ms makes. That a wait for an event sees what *)
(* was stored before it fired, for any number of waiting fibers and of     *)
(* workers. That the report of the statistics adds up, for any number of   *)
(* slots, workers, rounds and readings. Liveness of the sleep and of the   *)
(* wait is left to model checking.                                         *)
(***************************************************************************)
EXTENDS Event, Statistics, DataTheorems

-----------------------------------------------------------------------------
(* Sleep.                                                                  *)

(* The whole seconds of a reading, and the steps of the second term.       *)
Seconds(t) == t \div MS_IN_S
Hops(t) == Seconds(t) \div (MS_IN_S * MS_IN_S)

LEMMA DivisionBounds ==
  ASSUME NEW t \in Nat, NEW m \in Nat \ {0}
  PROVE  /\ t \div m \in Nat
         /\ (t \div m) * m <= t
         /\ t < (t \div m) * m + m
OBVIOUS

LEMMA DivisionMonotone ==
  ASSUME NEW t \in Nat, NEW u \in Nat, NEW m \in Nat \ {0}, t <= u
  PROVE  t \div m <= u \div m
<1>1. (t \div m) * m < (u \div m) * m + m
  BY DivisionBounds
<1>2. t \div m \in Int /\ u \div m \in Int
  BY DivisionBounds
<1>. QED  BY <1>1, <1>2

(* A reading loses less than a second and gains its hops.                  *)
LEMMA ReadingBounds ==
  ASSUME NEW t \in Nat
  PROVE  /\ Hops(t) \in Nat
         /\ timespec2ms(t) \in Nat
         /\ timespec2ms(t) - Hops(t) <= t
         /\ t < timespec2ms(t) - Hops(t) + MS_IN_S
<1>1. MS_IN_S \in Nat \ {0} /\ MS_IN_S * MS_IN_S \in Nat \ {0}
  BY SleepAssumption
<1>2. /\ Seconds(t) \in Nat
      /\ Seconds(t) * MS_IN_S <= t
      /\ t < Seconds(t) * MS_IN_S + MS_IN_S
  BY <1>1, DivisionBounds DEF Seconds
<1>3. Hops(t) \in Nat
  BY <1>1, <1>2, DivisionBounds DEF Hops
<1>4. Seconds(t) * MS_IN_S \in Nat
  BY <1>1, <1>2
<1>5. timespec2ms(t) = Seconds(t) * MS_IN_S + Hops(t)
  BY DEF timespec2ms, Seconds, Hops
<1>. QED  BY <1>1, <1>2, <1>3, <1>4, <1>5

LEMMA HopsMonotone ==
  ASSUME NEW t \in Nat, NEW u \in Nat, t <= u
  PROVE  Hops(t) <= Hops(u)
<1>1. MS_IN_S \in Nat \ {0} /\ MS_IN_S * MS_IN_S \in Nat \ {0}
  BY SleepAssumption
<1>2. Seconds(t) \in Nat /\ Seconds(u) \in Nat /\ Seconds(t) <= Seconds(u)
  BY <1>1, DivisionBounds, DivisionMonotone DEF Seconds
<1>. QED  BY <1>1, <1>2, DivisionMonotone DEF Hops

(* A later reading is no less, as clock_now() - start relies on.           *)
LEMMA ReadingMonotone ==
  ASSUME NEW t \in Nat, NEW u \in Nat, t <= u
  PROVE  timespec2ms(t) <= timespec2ms(u)
<1>1. MS_IN_S \in Nat \ {0}
  BY SleepAssumption
<1>2. Seconds(t) \in Nat /\ Seconds(u) \in Nat /\ Seconds(t) <= Seconds(u)
  BY <1>1, DivisionBounds, DivisionMonotone DEF Seconds
<1>3. Seconds(t) * MS_IN_S <= Seconds(u) * MS_IN_S
  BY <1>1, <1>2
<1>4. Seconds(t) * MS_IN_S \in Nat /\ Seconds(u) * MS_IN_S \in Nat
  BY <1>1, <1>2
<1>5. Hops(t) \in Nat /\ Hops(u) \in Nat /\ Hops(t) <= Hops(u)
  BY HopsMonotone, ReadingBounds
<1>6. /\ timespec2ms(t) = Seconds(t) * MS_IN_S + Hops(t)
      /\ timespec2ms(u) = Seconds(u) * MS_IN_S + Hops(u)
  BY DEF timespec2ms, Seconds, Hops
<1>. QED  BY <1>3, <1>4, <1>5, <1>6

-----------------------------------------------------------------------------

(* The local `start` is the reading at the time of the call, to which the  *)
(* clock has not gone back.                                                *)
SleepInv ==
  /\ clock \in 0 .. HORIZON
  /\ pc \in {"running", "awake", "yielded"}
  /\ milliseconds \in Nat
  /\ called \in 0 .. clock
  /\ start = timespec2ms(called)

LEMMA SleepInvInit == Init => SleepInv
<1>1. timespec2ms(0) = 0
  <2>1. MS_IN_S \in Nat \ {0} /\ MS_IN_S * MS_IN_S \in Nat \ {0}
    BY SleepAssumption
  <2>2. 0 \div MS_IN_S = 0 /\ 0 \div (MS_IN_S * MS_IN_S) = 0
    BY <2>1
  <2>. QED  BY <2>1, <2>2 DEF timespec2ms
<1>. QED  BY <1>1, SleepAssumption DEF Init, SleepInv

LEMMA SleepInvNext == SleepInv /\ [Next]_vars => SleepInv'
<1> SUFFICES ASSUME SleepInv, [Next]_vars PROVE SleepInv'
  OBVIOUS
<1>. USE SleepAssumption DEF SleepInv
<1>1. CASE Tick
  BY <1>1 DEF Tick
<1>2. ASSUME NEW ms \in SLEEPS, Call(ms) PROVE SleepInv'
  BY <1>2 DEF Call
<1>3. CASE Yield
  BY <1>3 DEF Yield
<1>4. CASE Resume
  BY <1>4 DEF Resume
<1>5. CASE Return
  BY <1>5 DEF Return
<1>6. CASE UNCHANGED vars
  BY <1>6 DEF vars
<1>. QED  BY <1>1, <1>2, <1>3, <1>4, <1>5, <1>6 DEF Next, Fiber

LEMMA SleepInvariant == Spec => []SleepInv
BY SleepInvInit, SleepInvNext, PTL DEF Spec

LEMMA SleepInvTypes == SleepInv => TypeOK
<1> SUFFICES ASSUME SleepInv PROVE TypeOK
  OBVIOUS
<1>1. called \in Nat /\ clock \in Nat /\ called <= clock
  BY SleepAssumption DEF SleepInv
<1>2. timespec2ms(called) \in Nat /\ timespec2ms(clock) \in Nat
  BY <1>1, ReadingBounds
<1>3. timespec2ms(called) <= timespec2ms(clock)
  BY <1>1, ReadingMonotone
<1>. QED  BY <1>1, <1>2, <1>3 DEF SleepInv, TypeOK, Passed

(* In every state of a sleep the unsigned difference of two readings that  *)
(* the loop of task_sleep computes does not wrap.                          *)
THEOREM SleepTypeCorrect == Spec => []TypeOK
BY SleepInvTypes, SleepInvariant, PTL

LEMMA EarlyStep ==
  SleepInv /\ [Next]_vars =>
    [Returns => Elapsed + Drift > milliseconds - MS_IN_S]_vars
<1> SUFFICES ASSUME SleepInv, [Next]_vars, Returns
             PROVE  Elapsed + Drift > milliseconds - MS_IN_S
  OBVIOUS
<1>1. Passed >= milliseconds
  BY DEF Returns, Next, Fiber, Tick, Call, Yield, Resume, Return, vars
<1>2. called \in Nat /\ clock \in Nat
  BY SleepAssumption DEF SleepInv
<1>3. /\ Hops(clock) \in Nat /\ Hops(called) \in Nat
      /\ timespec2ms(clock) - Hops(clock) <= clock
      /\ called < timespec2ms(called) - Hops(called) + MS_IN_S
      /\ timespec2ms(clock) \in Nat /\ timespec2ms(called) \in Nat
  BY <1>2, ReadingBounds
<1>4. Drift = Hops(clock) - Hops(called)
  BY DEF Drift, Hops, Seconds
<1>5. timespec2ms(clock) - timespec2ms(called) >= milliseconds
  BY <1>1 DEF Passed, SleepInv
<1>6. milliseconds \in Nat /\ MS_IN_S \in Nat
  BY SleepAssumption DEF SleepInv
<1>7. (clock - called) + (Hops(clock) - Hops(called)) > milliseconds - MS_IN_S
  BY <1>2, <1>3, <1>5, <1>6
<1>. QED  BY <1>4, <1>7 DEF Elapsed

(* Whatever is asked for, task_sleep is short by less than a second, apart *)
(* from the hops of the second term of timespec2ms.                        *)
THEOREM EarlyBySecondAtMost == Spec => EarlyByLessThanASecond
BY EarlyStep, SleepInvariant, PTL DEF Spec, EarlyByLessThanASecond

LEMMA LateStep ==
  SleepInv /\ [Next]_vars =>
    [pc = "awake" /\ pc' = "yielded" =>
       Elapsed < milliseconds + MS_IN_S - 1]_vars
<1> SUFFICES ASSUME SleepInv, [Next]_vars, pc = "awake", pc' = "yielded"
             PROVE  Elapsed < milliseconds + MS_IN_S - 1
  OBVIOUS
<1>1. Passed < milliseconds
  BY DEF Next, Fiber, Tick, Call, Yield, Resume, Return, vars
<1>2. called \in Nat /\ clock \in Nat /\ called <= clock
  BY SleepAssumption DEF SleepInv
<1>3. /\ Hops(clock) \in Nat /\ Hops(called) \in Nat
      /\ timespec2ms(called) - Hops(called) <= called
      /\ clock < timespec2ms(clock) - Hops(clock) + MS_IN_S
      /\ timespec2ms(clock) \in Nat /\ timespec2ms(called) \in Nat
  BY <1>2, ReadingBounds
<1>4. Hops(called) <= Hops(clock)
  BY <1>2, HopsMonotone
<1>5. timespec2ms(clock) - timespec2ms(called) < milliseconds
  BY <1>1 DEF Passed, SleepInv
<1>6. milliseconds \in Nat /\ MS_IN_S \in Nat
  BY SleepAssumption DEF SleepInv
<1>7. clock - called < milliseconds + MS_IN_S - 1
  BY <1>2, <1>3, <1>4, <1>5, <1>6
<1>. QED  BY <1>7 DEF Elapsed

(* Once a second more than asked for has passed the next poll ends the     *)
(* sleep.                                                                  *)
THEOREM YieldsInTime == Spec => NoLateYield
BY LateStep, SleepInvariant, PTL DEF Spec, NoLateYield

-----------------------------------------------------------------------------
(* Event.                                                                  *)

(* Only an eventer that has stored the result fires the event, and a fiber *)
(* that has come out of its wait has seen it fired. Before the eventer is  *)
(* submitted nothing is stored.                                            *)
EventInv ==
  /\ DOMAIN at = Fibers
  /\ is_fired => result = 1
  /\ at[EVENTER] \in {"fire", "end", "exited"} => result = 1
  /\ at[EVENTER] = "unborn" => result = 0
  /\ at[STARTER] = "start" => at[EVENTER] = "unborn"
  /\ \A f \in WAITERS : at[f] \in {"end", "exited"} => is_fired

LEMMA EventInvInit == EventInit => EventInv
BY EventAssumption DEF EventInit, EventInv, Fibers

LEMMA EventInvNext == EventInv /\ [EventNext]_fiberVars => EventInv'
<1> SUFFICES ASSUME EventInv, [EventNext]_fiberVars PROVE EventInv'
  OBVIOUS
<1>. USE EventAssumption DEF EventInv, Fibers, To
<1>1. CASE TimePasses
  BY <1>1 DEF TimePasses, eventVars
<1>2. ASSUME NEW f \in Fibers, TakeOn(f) PROVE EventInv'
  BY <1>2 DEF TakeOn
<1>3. CASE EventerSleeps
  BY <1>3 DEF EventerSleeps
<1>4. CASE EventerYields
  BY <1>4 DEF EventerYields
<1>5. CASE EventerWakes
  BY <1>5 DEF EventerWakes, Woken
<1>6. CASE EventerStores
  BY <1>6 DEF EventerStores
<1>7. CASE event_fire
  BY <1>7 DEF event_fire
<1>8. ASSUME NEW f \in Fibers, EnterWait(f) PROVE EventInv'
  BY <1>8 DEF EnterWait
<1>9. ASSUME NEW f \in Fibers, WaitYield(f) PROVE EventInv'
  BY <1>9 DEF WaitYield
<1>10. ASSUME NEW f \in Fibers, WaitReturn(f) PROVE EventInv'
  BY <1>10 DEF WaitReturn, Fired
<1>11. ASSUME NEW f \in Fibers, Exit(f) PROVE EventInv'
  BY <1>11 DEF Exit
<1>12. CASE UNCHANGED fiberVars
  BY <1>12 DEF fiberVars, eventVars
<1>. QED
  BY <1>1, <1>2, <1>3, <1>4, <1>5, <1>6, <1>7, <1>8, <1>9, <1>10, <1>11, <1>12
  DEF EventNext, Run, Eventer

(* The assertions of test_event.c never fail: event_wait returns only      *)
(* after event_fire, which follows the store.                              *)
THEOREM WaitSeesResult == EventSpec => []WaitersSeeResult
<1>1. EventInv => WaitersSeeResult
  BY EventAssumption DEF EventInv, WaitersSeeResult
<1>. QED  BY <1>1, EventInvInit, EventInvNext, PTL DEF EventSpec

-----------------------------------------------------------------------------
(* The eventer's sleep is Sleep's: every step of the event is one of the   *)
(* sleep or leaves it alone.                                               *)

LEMMA EventSleeps == EventInit => Init
BY DEF EventInit

LEMMA EventStepSleeps == [EventNext]_fiberVars => [Next]_vars
<1> SUFFICES ASSUME [EventNext]_fiberVars PROVE [Next]_vars
  OBVIOUS
<1>1. CASE TimePasses
  BY <1>1 DEF TimePasses, Next
<1>2. ASSUME NEW f \in Fibers, TakeOn(f) PROVE [Next]_vars
  BY <1>2 DEF TakeOn, Next, Fiber
<1>3. CASE Eventer
  BY <1>3 DEF Eventer, EventerSleeps, EventerYields, EventerWakes, EventerStores,
              event_fire, Next, Fiber
<1>4. ASSUME NEW f \in Fibers,
             EnterWait(f) \/ WaitYield(f) \/ WaitReturn(f) \/ Exit(f)
      PROVE  [Next]_vars
  BY <1>4 DEF EnterWait, WaitYield, WaitReturn, Exit
<1>5. CASE UNCHANGED fiberVars
  BY <1>5 DEF fiberVars
<1>. QED  BY <1>1, <1>2, <1>3, <1>4, <1>5 DEF EventNext, Run

LEMMA EventSleepInvariant == EventSpec => []SleepInv
BY EventSleeps, EventStepSleeps, SleepInvInit, SleepInvNext, PTL DEF EventSpec

(* Between fibers that share workers the sleep keeps its two bounds: it is *)
(* short by less than a second, and no poll after a second too many yields *)
(* again (sleep.c:24-29).                                                  *)
THEOREM EventerSleepsInTime == EventSpec => EarlyByLessThanASecond /\ NoLateYield
BY EventStepSleeps, EarlyStep, LateStep, EventSleepInvariant, PTL
DEF EventSpec, EarlyByLessThanASecond, NoLateYield

-----------------------------------------------------------------------------
(* Types. The set of fibers on a worker grows by Room only.                *)

EventTypes ==
  /\ on \subseteq Fibers /\ IsFiniteSet(on) /\ Cardinality(on) <= CREW
  /\ at \in [Fibers -> {"unborn", "start", "wait", "sleep", "store", "fire", "end",
                        "exited"}]
  /\ is_fired \in BOOLEAN /\ result \in {0, 1}

LEMMA InitTypes == EventInit => EventTypes
<1>1. IsFiniteSet({}) /\ Cardinality({}) = 0
  BY FS_EmptySet
<1> SUFFICES ASSUME EventInit PROVE EventTypes
  OBVIOUS
<1>2. on \subseteq Fibers /\ IsFiniteSet(on) /\ Cardinality(on) <= CREW
  BY <1>1, EventAssumption DEF EventInit
<1>. QED  BY <1>2 DEF EventInit, EventTypes

LEMMA NextTypes == EventTypes /\ [EventNext]_fiberVars => EventTypes'
<1> SUFFICES ASSUME EventTypes, [EventNext]_fiberVars PROVE EventTypes'
  OBVIOUS
<1>. USE EventAssumption DEF EventTypes, To
<1>1. Cardinality(on) \in Nat
  BY FS_CardinalityType
<1>2. ASSUME NEW f \in Fibers, on' = on \/ LeavesWorker(f) \/ (Room /\ on' = on \cup {f})
      PROVE  on' \subseteq Fibers /\ IsFiniteSet(on') /\ Cardinality(on') <= CREW
  <2>1. CASE on' = on
    BY <2>1
  <2>2. CASE on' = on \ {f}
    <3>1. IsFiniteSet(on \ {f}) /\ Cardinality(on \ {f}) <= Cardinality(on)
      BY <1>1, FS_RemoveElement
    <3>2. Cardinality(on \ {f}) \in Nat
      BY <3>1, FS_CardinalityType
    <3>. QED  BY <1>1, <2>2, <3>1, <3>2
  <2>3. CASE Room /\ on' = on \cup {f}
    <3>1. /\ IsFiniteSet(on \cup {f})
          /\ Cardinality(on \cup {f}) =
               IF f \in on THEN Cardinality(on) ELSE Cardinality(on) + 1
      BY <1>1, FS_AddElement
    <3>. QED  BY <1>1, <2>3, <3>1 DEF Room
  <2>. QED  BY <1>2, <2>1, <2>2, <2>3 DEF LeavesWorker
<1>3. CASE TimePasses
  BY <1>3 DEF TimePasses, eventVars
<1>4. ASSUME NEW f \in Fibers, TakeOn(f) PROVE EventTypes'
  <2>1. Room /\ on' = on \cup {f} /\ UNCHANGED <<at, is_fired, result>>
    BY <1>4 DEF TakeOn
  <2>. QED  BY <1>2, <2>1
<1>5. CASE EventerYields
  <2>1. EVENTER \in Fibers
    BY DEF Fibers
  <2>2. LeavesWorker(EVENTER) /\ UNCHANGED <<is_fired, result>>
    BY <1>5 DEF EventerYields
  <2>. QED  BY <1>2, <1>5, <2>1, <2>2 DEF EventerYields
<1>6. CASE EventerSleeps \/ EventerWakes \/ EventerStores \/ event_fire
  BY <1>6 DEF EventerSleeps, EventerWakes, Woken, EventerStores, event_fire
<1>7. ASSUME NEW f \in Fibers, WaitYield(f) \/ Exit(f) PROVE EventTypes'
  <2>1. LeavesWorker(f) /\ UNCHANGED <<is_fired, result>>
    BY <1>7 DEF WaitYield, Exit, Poll
  <2>2. at' = [at EXCEPT ![f] = "wait"] \/ at' = [at EXCEPT ![f] = "exited"]
    BY <1>7 DEF WaitYield, Exit
  <2>. QED  BY <1>2, <2>1, <2>2
<1>8. ASSUME NEW f \in Fibers, EnterWait(f) \/ WaitReturn(f) PROVE EventTypes'
  BY <1>8 DEF EnterWait, WaitReturn
<1>9. CASE UNCHANGED fiberVars
  BY <1>9 DEF fiberVars, eventVars
<1>. QED
  BY <1>3, <1>4, <1>5, <1>6, <1>7, <1>8, <1>9 DEF EventNext, Run, Eventer

(* Types, and no more fibers run than there are workers.                   *)
THEOREM EventTypeCorrect == EventSpec => []EventTypeOK
<1>1. EventTypes /\ SleepInv => EventTypeOK
  BY SleepInvTypes DEF EventTypes, EventTypeOK
<1>. QED
  BY <1>1, InitTypes, NextTypes, EventSleepInvariant, PTL DEF EventSpec

-----------------------------------------------------------------------------
(* The refinement: a fiber that polls is blocked for the promise.          *)

FiresLast == is_fired => at[EVENTER] \in {"end", "exited"}

LEMMA NextFiresLast ==
  EventInv /\ FiresLast /\ [EventNext]_fiberVars => FiresLast'
BY EventAssumption
DEF EventInv, FiresLast, Fibers, To, EventNext, TimePasses, eventVars, TakeOn, Run,
    Eventer, EventerSleeps, EventerYields, EventerWakes, Woken, EventerStores,
    event_fire, EnterWait, WaitYield, WaitReturn, Exit, fiberVars

LEMMA StepKeepsPromise ==
  EventTypes /\ EventInv /\ FiresLast /\ [EventNext]_fiberVars
    => [Promise!PromiseNext]_Promise!promiseVars
<1> SUFFICES ASSUME EventTypes, EventInv, FiresLast, [EventNext]_fiberVars
             PROVE  [Promise!PromiseNext]_Promise!promiseVars
  OBVIOUS
<1>. DEFINE blocked == {f \in WAITERS : at[f] = "wait"}
            returned == {f \in WAITERS : at[f] \in {"end", "exited"}}
<1>. USE EventAssumption DEF Fibers, To, Promise!promiseVars
<1>0. DOMAIN at = Fibers
  BY DEF EventTypes
<1>1. ASSUME is_fired' = is_fired,
             \A f \in WAITERS : \/ at'[f] = at[f]
                                \/ at[f] = "end" /\ at'[f] = "exited"
      PROVE  UNCHANGED Promise!promiseVars
  BY <1>1
<1>2. CASE TimePasses \/ UNCHANGED fiberVars
  BY <1>1, <1>2 DEF TimePasses, eventVars, fiberVars
<1>3. ASSUME NEW f \in Fibers, TakeOn(f) \/ WaitYield(f) \/ Exit(f)
      PROVE  UNCHANGED Promise!promiseVars
  BY <1>0, <1>1, <1>3 DEF TakeOn, WaitYield, Exit
<1>4. CASE EventerSleeps \/ EventerYields \/ EventerWakes \/ EventerStores
  <2>1. is_fired' = is_fired /\ \A f \in WAITERS : at'[f] = at[f]
    BY <1>0, <1>4 DEF EventerSleeps, EventerYields, EventerWakes, Woken, EventerStores
  <2>. QED  BY <1>1, <2>1
<1>5. CASE event_fire
  <2>1. ~is_fired /\ is_fired' = TRUE /\ \A f \in WAITERS : at'[f] = at[f]
    BY <1>0, <1>5 DEF event_fire, FiresLast, EventTypes
  <2>. QED  BY <2>1 DEF Promise!PromiseNext, Promise!FireOnce
<1>6. ASSUME NEW f \in Fibers, EnterWait(f) PROVE Promise!PromiseNext
  <2>1. /\ f \in WAITERS /\ at[f] = "start" /\ at'[f] = "wait"
        /\ is_fired' = is_fired /\ \A g \in WAITERS \ {f} : at'[g] = at[g]
    BY <1>6 DEF EnterWait
  <2>2. blocked' = blocked \cup {f} /\ returned' = returned
    BY <2>1
  <2>. QED  BY <2>1, <2>2 DEF Promise!PromiseNext, Promise!Block
<1>7. ASSUME NEW f \in Fibers, WaitReturn(f) PROVE Promise!PromiseNext
  <2>1. /\ f \in WAITERS /\ at[f] = "wait" /\ at'[f] = "end" /\ is_fired
        /\ is_fired' = is_fired /\ \A g \in WAITERS \ {f} : at'[g] = at[g]
    BY <1>0, <1>7 DEF WaitReturn, Fired
  <2>2. blocked' = blocked \ {f} /\ returned' = returned \cup {f}
    BY <2>1
  <2>. QED  BY <2>1, <2>2 DEF Promise!PromiseNext, Promise!Unblock
<1>. QED
  BY <1>2, <1>3, <1>4, <1>5, <1>6, <1>7 DEF EventNext, Run, Eventer

(* The safety part of KeepsEventPromise: the event fires once, and no      *)
(* event_wait (event.c:12-22) returns before it has.                       *)
THEOREM PollingKeepsPromise ==
  EventSpec => Promise!PromiseInit /\ [][Promise!PromiseNext]_Promise!promiseVars
<1>1. EventInit => Promise!PromiseInit /\ FiresLast
  BY EventAssumption DEF EventInit, Promise!PromiseInit, FiresLast, Fibers
<1>. QED
  BY <1>1, InitTypes, NextTypes, EventInvInit, EventInvNext, NextFiresLast,
     StepKeepsPromise, PTL DEF EventSpec

-----------------------------------------------------------------------------
(* The statistics *)

(* The index of the 95th percentile is inside the array of the measured    *)
(* times, and one more is the least rank that 95 of 100 of them do not     *)
(* exceed (schedy.c:447-451), so that P95 satisfies IsP95.                 *)
THEOREM P95IndexIsNearestRank ==
  ASSUME NEW measured \in Nat \ {0}
  PROVE  /\ P95Index(measured) \in 0 .. measured - 1
         /\ 100 * (P95Index(measured) + 1) >= 95 * measured
         /\ 100 * P95Index(measured) < 95 * measured
<1> DEFINE rank == (measured * 95 + 99) \div 100
<1>1. /\ rank \in Int
      /\ 100 * rank <= measured * 95 + 99
      /\ measured * 95 + 99 < 100 * rank + 100
  BY Z3
<1>2. rank \in 1 .. measured
  BY <1>1
<1>3. P95Index(measured) = rank - 1
  BY <1>2 DEF P95Index
<1> HIDE DEF rank
<1> QED
  BY <1>1, <1>2, <1>3

-----------------------------------------------------------------------------

(* The invariant. A worker that has switched to a task holds its slot, and *)
(* holds it alone.                                                         *)
InHand(w) == place[w] \in {"fiber", "release"}

HeldByOne ==
  /\ \A w \in STAFF : InHand(w) => task[w] \in SLOTS
  /\ \A w \in STAFF : place[w] = "fiber" => phase[task[w]] = "RUNNING"
  /\ \A w \in STAFF : place[w] = "release" => phase[task[w]] \in {"RUNNING", "FINISHED"}
  /\ \A v, w \in STAFF : InHand(v) /\ InHand(w) /\ task[v] = task[w] => v = w

(* A live task has not finished.                                           *)
LiveUnfinished ==
  \A s \in SLOTS :
    /\ submit_ts[s] <= now
    /\ phase[s] # "ZOMBIE" => 0 < submit_ts[s] /\ finish_ts[s] = 0

(* The time a task has run so far fits after its first run ...             *)
Begun ==
  \A s \in SLOTS :
    /\ first_run_ts[s] = 0 => run_time_ns[s] = 0
    /\ first_run_ts[s] # 0 => /\ 0 < submit_ts[s] /\ submit_ts[s] <= first_run_ts[s]
                              /\ first_run_ts[s] + run_time_ns[s] <= now

(* ... and, while it runs, before the last switch to it.                   *)
SwitchedTo ==
  \A w \in STAFF :
    /\ InHand(w) => first_run_ts[task[w]] # 0
    /\ place[w] = "fiber" =>
         /\ start_ts[w] <= now
         /\ first_run_ts[task[w]] + run_time_ns[task[w]] <= start_ts[w]

TimesInvariant ==
  StatsTypeOK /\ HeldByOne /\ LiveUnfinished /\ Begun /\ SwitchedTo /\ TimesInOrder

USE StatisticsAssumption
USE DEF statsVars, mainTimes, slotTimes, staffTimes, history

LEMMA StatsInitInvariant == StatsInit => TimesInvariant
BY DEF StatsInit, Zeros, TimesInvariant, StatsTypeOK, HeldByOne, InHand, LiveUnfinished,
       Begun, SwitchedTo, TimesInOrder

LEMMA PassTimeInvariant == TimesInvariant /\ PassTime => TimesInvariant'
BY DEF PassTime, TimesInvariant, StatsTypeOK, HeldByOne, InHand, LiveUnfinished, Begun,
       SwitchedTo, TimesInOrder

LEMMA MainInvariant ==
  TimesInvariant /\ (SchedStart \/ SchedWait) => TimesInvariant'
BY DEF SchedStart, SchedWait, TimesInvariant, StatsTypeOK, HeldByOne, InHand,
       LiveUnfinished, Begun, SwitchedTo, TimesInOrder

LEMMA SchedInitInvariant == TimesInvariant /\ SchedInit => TimesInvariant'
BY DEF SchedInit, RunTimeOfRound, Zeros, TimesInvariant, StatsTypeOK, HeldByOne,
       InHand, LiveUnfinished, Begun, SwitchedTo, TimesInOrder

(* A zombie slot is in nobody's hands.                                     *)
LEMMA ResubmitInvariant ==
  ASSUME TimesInvariant, NEW s \in SLOTS, Resubmit(s) PROVE TimesInvariant'
<1> USE DEF Resubmit, NotFinished, NoTimeUsed, TimesInvariant
<1>1. StatsTypeOK'
  BY DEF StatsTypeOK
<1>2. \A w \in STAFF : InHand(w) => task[w] # s
  BY DEF HeldByOne, InHand
<1>3. HeldByOne'
  BY <1>2 DEF HeldByOne, InHand, StatsTypeOK
<1>4. LiveUnfinished' /\ Begun'
  BY DEF LiveUnfinished, Begun, StatsTypeOK
<1>5. SwitchedTo'
  BY <1>2 DEF SwitchedTo, InHand, HeldByOne, StatsTypeOK
<1>6. TimesInOrder'
  BY DEF TimesInOrder, StatsTypeOK
<1> QED
  BY <1>1, <1>3, <1>4, <1>5, <1>6

LEMMA SwitchOnInvariant ==
  ASSUME TimesInvariant, NEW w \in STAFF, NEW s \in SLOTS, SwitchOn(w, s)
  PROVE  TimesInvariant'
<1> USE DEF SwitchOn, TimesInvariant
<1>1. StatsTypeOK'
  BY DEF StatsTypeOK
<1>2. \A v \in STAFF : InHand(v) => task[v] # s /\ v # w
  BY DEF HeldByOne, InHand
<1>3. HeldByOne'
  BY <1>2 DEF HeldByOne, InHand, StatsTypeOK
<1>4. LiveUnfinished' /\ Begun'
  BY DEF LiveUnfinished, Begun, StatsTypeOK
<1>5. SwitchedTo'
  BY <1>2 DEF SwitchedTo, InHand, HeldByOne, StatsTypeOK, Begun
<1>6. TimesInOrder'
  BY DEF TimesInOrder, StatsTypeOK, LiveUnfinished
<1> QED
  BY <1>1, <1>3, <1>4, <1>5, <1>6

LEMMA SwitchOffInvariant ==
  ASSUME TimesInvariant, NEW w \in STAFF, NEW outcome \in {"RUNNING", "FINISHED"},
         SwitchOff(w, outcome)
  PROVE  TimesInvariant'
<1> USE DEF SwitchOff, TimesInvariant, Delta, Count
<1>0. /\ task[w] \in SLOTS /\ Delta(w) \in Nat
      /\ \A v \in STAFF : InHand(v) /\ v # w => task[v] # task[w]
  BY DEF HeldByOne, InHand, SwitchedTo, StatsTypeOK
<1>1. StatsTypeOK'
  BY <1>0 DEF StatsTypeOK
<1>3. HeldByOne'
  BY <1>0 DEF HeldByOne, InHand, StatsTypeOK
<1>4. LiveUnfinished'
  BY <1>0 DEF LiveUnfinished, StatsTypeOK, HeldByOne
<1>5. Begun'
  BY <1>0 DEF Begun, StatsTypeOK, SwitchedTo, InHand
<1>6. SwitchedTo'
  BY <1>0 DEF SwitchedTo, InHand, HeldByOne, StatsTypeOK
<1>7. TimesInOrder'
  BY <1>0 DEF TimesInOrder, StatsTypeOK, LiveUnfinished, HeldByOne
<1> QED
  BY <1>1, <1>3, <1>4, <1>5, <1>6, <1>7

LEMMA SchedReleaseInvariant ==
  ASSUME TimesInvariant, NEW w \in STAFF, SchedRelease(w) PROVE TimesInvariant'
<1> USE DEF SchedRelease, TimesInvariant
<1>0. /\ task[w] \in SLOTS
      /\ \A v \in STAFF : InHand(v) /\ v # w => task[v] # task[w]
  BY DEF HeldByOne, InHand
<1>1. StatsTypeOK'
  BY <1>0 DEF StatsTypeOK
<1>3. HeldByOne'
  BY <1>0 DEF HeldByOne, InHand, StatsTypeOK
<1>4. LiveUnfinished' /\ Begun'
  BY <1>0 DEF LiveUnfinished, Begun, StatsTypeOK, HeldByOne
<1>5. SwitchedTo'
  BY <1>0 DEF SwitchedTo, InHand, HeldByOne, StatsTypeOK
<1>6. TimesInOrder'
  BY <1>0 DEF TimesInOrder, StatsTypeOK, LiveUnfinished, Begun, SwitchedTo, InHand, HeldByOne
<1> QED
  BY <1>1, <1>3, <1>4, <1>5, <1>6

LEMMA StatsNextInvariant ==
  TimesInvariant /\ [StatsNext]_statsVars => TimesInvariant'
<1> SUFFICES ASSUME TimesInvariant, [StatsNext]_statsVars PROVE TimesInvariant'
  OBVIOUS
<1>1. CASE UNCHANGED statsVars
  BY <1>1 DEF TimesInvariant, StatsTypeOK, HeldByOne, InHand, LiveUnfinished, Begun,
              SwitchedTo, TimesInOrder
<1> QED
  BY <1>1, PassTimeInvariant, MainInvariant, SchedInitInvariant, ResubmitInvariant,
     SwitchOnInvariant, SwitchOffInvariant, SchedReleaseInvariant DEF StatsNext

(* Through every reuse of a slot and every round, the times of a finished  *)
(* task are in order, so the unsigned subtractions of                      *)
(* sched_print_statistics (schedy.c:432-436) do not wrap.                  *)
THEOREM TimesAlwaysInOrder == StatsSpec => []TimesAgree
<1>1. TimesInvariant => TimesAgree
  BY DEF TimesInvariant, TimesAgree
<1> QED
  BY <1>1, StatsInitInvariant, StatsNextInvariant, PTL DEF StatsSpec

-----------------------------------------------------------------------------

(* What a worker has run so far fits between sched_start and its last      *)
(* switch to a fiber.                                                      *)
RunTimeInvariant ==
  /\ main # "waiting" => \A w \in STAFF : place[w] = "acquire"
  /\ main = "submitting" => \A w \in STAFF : worker_run_time[w] = 0
  /\ main = "waiting" => \A w \in STAFF :
       /\ sched_start_ts + worker_run_time[w] <= now
       /\ place[w] = "fiber" =>
            sched_start_ts + worker_run_time[w] <= start_ts[w] /\ start_ts[w] <= now
  /\ RunTimeWithinTotal

LEMMA InitRunTime == StatsInit => RunTimeInvariant
BY DEF StatsInit, Zeros, RunTimeInvariant, RunTimeWithinTotal

LEMMA NextRunTime ==
  StatsTypeOK /\ RunTimeInvariant /\ [StatsNext]_statsVars => RunTimeInvariant'
<1> SUFFICES ASSUME StatsTypeOK, RunTimeInvariant, [StatsNext]_statsVars
             PROVE  RunTimeInvariant'
  OBVIOUS
<1> USE DEF StatsTypeOK, RunTimeInvariant, RunTimeWithinTotal
<1>1. CASE PassTime
  BY <1>1 DEF PassTime
<1>2. CASE SchedStart
  BY <1>2 DEF SchedStart
<1>3. CASE SchedWait
  BY <1>3 DEF SchedWait
<1>4. CASE SchedInit
  BY <1>4 DEF SchedInit, RunTimeOfRound, Zeros
<1>5. ASSUME NEW s \in SLOTS, Resubmit(s) PROVE RunTimeInvariant'
  BY <1>5 DEF Resubmit
<1>6. ASSUME NEW w \in STAFF, NEW s \in SLOTS, SwitchOn(w, s) PROVE RunTimeInvariant'
  BY <1>6 DEF SwitchOn
<1>7. ASSUME NEW w \in STAFF, NEW outcome \in {"RUNNING", "FINISHED"},
             SwitchOff(w, outcome)
      PROVE  RunTimeInvariant'
  <2>1. main = "waiting" /\ Delta(w) \in Nat
    BY <1>7 DEF SwitchOff, Delta
  <2>2. \A v \in STAFF : sched_start_ts' + worker_run_time'[v] <= now'
    BY <1>7, <2>1 DEF SwitchOff, Delta
  <2>3. \A v \in STAFF : place'[v] = "fiber" =>
          sched_start_ts' + worker_run_time'[v] <= start_ts'[v] /\ start_ts'[v] <= now'
    BY <1>7, <2>1 DEF SwitchOff
  <2> QED
    BY <1>7, <2>1, <2>2, <2>3 DEF SwitchOff
<1>8. ASSUME NEW w \in STAFF, SchedRelease(w) PROVE RunTimeInvariant'
  BY <1>8 DEF SchedRelease
<1>9. CASE UNCHANGED statsVars
  BY <1>9
<1> QED
  BY <1>1, <1>2, <1>3, <1>4, <1>5, <1>6, <1>7, <1>8, <1>9 DEF StatsNext

(* No worker has run longer than the scheduler was up, in any round: the   *)
(* measurements around uthread_switch (schedy.c:144-152) do not overlap.   *)
THEOREM RunTimesFit == StatsSpec => []RunTimeWithinTotal
<1>1. TimesAgree => StatsTypeOK
  BY DEF TimesAgree
<1>2. RunTimeInvariant => RunTimeWithinTotal
  BY DEF RunTimeInvariant
<1> QED
  BY <1>1, <1>2, InitRunTime, NextRunTime, TimesAlwaysInOrder, PTL
  DEF StatsSpec

-----------------------------------------------------------------------------

(* The totals of the report. A finished task is counted before its slot    *)
(* has a finish time: while its worker is on the way to sched_release.     *)
Finishing ==
  {w \in STAFF : place[w] = "release" /\ phase[task[w]] = "FINISHED"}

TotalsInvariant ==
  /\ SumFunction(finishes) =
       Cardinality(Measured) + overwritten + Cardinality(Finishing)
  /\ RunTimeConserved

LEMMA CountsFinite ==
  ASSUME StatsTypeOK
  PROVE  /\ IsFiniteSet(Measured) /\ Cardinality(Measured) \in Nat
         /\ IsFiniteSet(Finishing) /\ Cardinality(Finishing) \in Nat
         /\ SumFunction(finishes) \in Int
         /\ SumFunction(worker_run_time) \in Int
         /\ SumFunction(run_time_ns) \in Int
<1>1. Measured \in SUBSET SLOTS /\ Finishing \in SUBSET STAFF
  BY DEF Measured, Finishing
<1>2. IsFiniteSet(Measured) /\ IsFiniteSet(Finishing)
  BY <1>1, FS_Subset
<1>3. /\ finishes \in [STAFF -> Int] /\ worker_run_time \in [STAFF -> Int]
      /\ run_time_ns \in [SLOTS -> Int]
  BY DEF StatsTypeOK
<1>. QED  BY <1>2, <1>3, FS_CardinalityType, SumType

LEMMA InitTotals == StatsInit => TotalsInvariant
<1> SUFFICES ASSUME StatsInit PROVE TotalsInvariant
  OBVIOUS
<1>1. Measured = {} /\ Finishing = {}
  BY DEF StatsInit, Zeros, Measured, Finishing
<1>2. SumFunction(finishes) = 0 /\ SumFunction(worker_run_time) = 0
  BY SumZero DEF StatsInit, Zeros
<1>3. SumFunction(run_time_ns) = 0
  BY SumZero DEF StatsInit, Zeros
<1>4. overwritten = 0 /\ forgotten = 0
  BY DEF StatsInit
<1>. QED
  BY <1>1, <1>2, <1>3, <1>4, FS_EmptySet DEF TotalsInvariant, RunTimeConserved

LEMMA SchedInitTotals == SchedInit => TotalsInvariant'
<1> SUFFICES ASSUME SchedInit PROVE TotalsInvariant'
  OBVIOUS
<1>1. Measured' = {} /\ Finishing' = {}
  BY DEF SchedInit, Zeros, Measured, Finishing
<1>2. SumFunction(finishes') = 0 /\ SumFunction(worker_run_time') = 0
  BY SumZero DEF SchedInit, RunTimeOfRound, Zeros
<1>3. SumFunction(run_time_ns') = 0
  BY SumZero DEF SchedInit, Zeros
<1>4. overwritten' = 0 /\ forgotten' = 0
  BY DEF SchedInit
<1>. QED
  BY <1>1, <1>2, <1>3, <1>4, FS_EmptySet DEF TotalsInvariant, RunTimeConserved

(* A slot that is submitted to again takes its task out of the measured    *)
(* ones, and its run time along.                                           *)
LEMMA ResubmitTotals ==
  ASSUME TimesInvariant, TotalsInvariant, NEW s \in SLOTS, Resubmit(s)
  PROVE  TotalsInvariant'
<1>. USE DEF TimesInvariant, TotalsInvariant
<1>1. Measured' = Measured \ {s}
  BY DEF Resubmit, NotFinished, Measured, StatsTypeOK
<1>2. finish_ts[s] # 0 <=> s \in Measured
  BY DEF Measured, TimesInOrder, StatsTypeOK
<1>3. Cardinality(Measured') + overwritten' = Cardinality(Measured) + overwritten
  <2>1. IsFiniteSet(Measured) /\ Cardinality(Measured) \in Nat /\ overwritten \in Nat
    BY CountsFinite DEF StatsTypeOK
  <2>2. Cardinality(Measured') =
          IF s \in Measured THEN Cardinality(Measured) - 1 ELSE Cardinality(Measured)
    BY <1>1, <2>1, FS_RemoveElement
  <2>3. overwritten' = overwritten + (IF s \in Measured THEN 1 ELSE 0)
    BY <1>2 DEF Resubmit
  <2>. QED  BY <2>1, <2>2, <2>3
<1>4. Finishing' = Finishing
  BY DEF Resubmit, Finishing, HeldByOne, InHand, StatsTypeOK
<1>5. SumFunction(run_time_ns') = SumFunction(run_time_ns) - run_time_ns[s]
  <2>1. run_time_ns \in [SLOTS -> Int]
    BY DEF StatsTypeOK
  <2>2. SumFunction([run_time_ns EXCEPT ![s] = 0]) =
          SumFunction(run_time_ns) - run_time_ns[s] + 0
    BY ONLY <2>1, SumExcept, StatisticsAssumption, s \in SLOTS, 0 \in Int
  <2>. QED  BY <2>1, <2>2, CountsFinite DEF Resubmit, NoTimeUsed
<1>6. RunTimeConserved'
  BY <1>5, CountsFinite DEF Resubmit, RunTimeConserved, StatsTypeOK
<1>. QED
  BY <1>3, <1>4, <1>6, CountsFinite DEF Resubmit, StatsTypeOK

(* A switch from a fiber adds the same time to the worker and to the slot, *)
(* and a finished task to those counted.                                   *)
LEMMA SwitchOffTotals ==
  ASSUME TimesInvariant, TotalsInvariant, NEW w \in STAFF,
         NEW outcome \in {"RUNNING", "FINISHED"}, SwitchOff(w, outcome)
  PROVE  TotalsInvariant'
<1>. USE DEF TimesInvariant, TotalsInvariant
<1>. DEFINE s == task[w]
            one == IF outcome = "FINISHED" THEN 1 ELSE 0
<1>1. s \in SLOTS /\ place[w] = "fiber"
  BY DEF SwitchOff, HeldByOne, InHand
<1>2. Delta(w) \in Int
  BY DEF Delta, StatsTypeOK
<1>3. /\ SumFunction(worker_run_time') = SumFunction(worker_run_time) + Delta(w)
      /\ SumFunction(run_time_ns') = SumFunction(run_time_ns) + Delta(w)
      /\ SumFunction(finishes') = SumFunction(finishes) + one
  <2>1. /\ worker_run_time \in [STAFF -> Int] /\ finishes \in [STAFF -> Int]
        /\ run_time_ns \in [SLOTS -> Int]
    BY DEF StatsTypeOK
  <2>2. /\ worker_run_time' \in [STAFF -> Int] /\ finishes' \in [STAFF -> Int]
        /\ run_time_ns' \in [SLOTS -> Int]
    BY <1>1, <1>2, <2>1 DEF SwitchOff, Count
  <2>3. /\ worker_run_time'[w] = worker_run_time[w] + Delta(w)
        /\ \A v \in STAFF \ {w} : worker_run_time'[v] = worker_run_time[v]
    BY <2>1 DEF SwitchOff
  <2>4. /\ run_time_ns'[s] = run_time_ns[s] + Delta(w)
        /\ \A v \in SLOTS \ {s} : run_time_ns'[v] = run_time_ns[v]
    BY <1>1, <2>1 DEF SwitchOff
  <2>5. /\ finishes'[w] = finishes[w] + one
        /\ \A v \in STAFF \ {w} : finishes'[v] = finishes[v]
    BY <2>1 DEF SwitchOff, Count
  <2>6. one \in Int
    OBVIOUS
  <2>. HIDE DEF s, one
  <2>. QED  BY ONLY <1>1, <1>2, <2>1, <2>2, <2>3, <2>4, <2>5, <2>6, SumAdd,
               StatisticsAssumption, w \in STAFF
<1>4. Measured' = Measured
  BY DEF SwitchOff, Measured
<1>5. Cardinality(Finishing') = Cardinality(Finishing) + one
  <2>1. \A v \in STAFF \ {w} : v \in Finishing' <=> v \in Finishing
    BY <1>1 DEF SwitchOff, Finishing, HeldByOne, InHand, StatsTypeOK
  <2>2. w \notin Finishing /\ (w \in Finishing' <=> outcome = "FINISHED")
    BY <1>1 DEF SwitchOff, Finishing, StatsTypeOK
  <2>3. Finishing \in SUBSET STAFF /\ Finishing' \in SUBSET STAFF
    BY DEF Finishing
  <2>4. Finishing' = IF outcome = "FINISHED" THEN Finishing \cup {w} ELSE Finishing
    BY <2>1, <2>2, <2>3
  <2>5. IsFiniteSet(Finishing) /\ Cardinality(Finishing) \in Nat
    BY CountsFinite
  <2>6. Cardinality(Finishing \cup {w}) = Cardinality(Finishing) + 1
    BY <2>2, <2>5, FS_AddElement
  <2>. QED  BY <2>4, <2>5, <2>6
<1>6. RunTimeConserved'
  BY <1>2, <1>3, CountsFinite DEF SwitchOff, RunTimeConserved, StatsTypeOK
<1>. QED
  BY <1>3, <1>4, <1>5, <1>6, CountsFinite DEF SwitchOff, StatsTypeOK

(* sched_release of a finished task makes it one of the measured.          *)
LEMMA SchedReleaseTotals ==
  ASSUME TimesInvariant, TotalsInvariant, NEW w \in STAFF, SchedRelease(w)
  PROVE  TotalsInvariant'
<1>. USE DEF TimesInvariant, TotalsInvariant
<1>. DEFINE s == task[w]
<1>1. s \in SLOTS /\ place[w] = "release"
  BY DEF SchedRelease, HeldByOne, InHand
<1>2. \A v \in STAFF \ {w} : v \in Finishing' <=> v \in Finishing
  BY <1>1 DEF SchedRelease, Finishing, HeldByOne, InHand, StatsTypeOK
<1>3. w \notin Finishing' /\ (w \in Finishing <=> phase[s] = "FINISHED")
  BY <1>1 DEF SchedRelease, Finishing, StatsTypeOK
<1>4. Finishing' = Finishing \ {w}
  <2>1. Finishing \in SUBSET STAFF /\ Finishing' \in SUBSET STAFF
    BY DEF Finishing
  <2>. QED  BY <1>2, <1>3, <2>1
<1>5. 0 < submit_ts[s] /\ finish_ts[s] = 0
  BY <1>1 DEF LiveUnfinished, HeldByOne
<1>6. s \notin Measured
  BY <1>5 DEF Measured
<1>7. Measured' = IF phase[s] = "FINISHED" THEN Measured \cup {s} ELSE Measured
  BY <1>1, <1>5 DEF SchedRelease, Measured, StatsTypeOK
<1>8. Cardinality(Measured') + Cardinality(Finishing') =
        Cardinality(Measured) + Cardinality(Finishing)
  <2>. HIDE DEF s
  <2>1. /\ IsFiniteSet(Finishing) /\ Cardinality(Finishing) \in Nat
        /\ IsFiniteSet(Measured) /\ Cardinality(Measured) \in Nat
    BY CountsFinite
  <2>2. CASE phase[s] = "FINISHED"
    <3>1. Cardinality(Measured \cup {s}) = Cardinality(Measured) + 1
      BY <1>6, <2>1, FS_AddElement
    <3>2. Cardinality(Finishing \ {w}) = Cardinality(Finishing) - 1
      BY <1>3, <2>1, <2>2, FS_RemoveElement
    <3>. QED  BY <1>4, <1>7, <2>1, <2>2, <3>1, <3>2
  <2>3. CASE phase[s] # "FINISHED"
    <3>1. Finishing' = Finishing
      BY <1>3, <1>4, <2>3
    <3>. QED  BY <1>7, <2>3, <3>1
  <2>. QED  BY <2>2, <2>3
<1>9. /\ SumFunction(finishes') = Cardinality(Measured) + overwritten' + Cardinality(Finishing)
      /\ RunTimeConserved'
  BY DEF SchedRelease, RunTimeConserved
<1>10. overwritten' \in Nat
  BY DEF SchedRelease, StatsTypeOK
<1>11. /\ Cardinality(Measured) \in Nat /\ Cardinality(Finishing) \in Nat
       /\ Cardinality(Measured') \in Nat /\ Cardinality(Finishing') \in Nat
  BY <1>4, <1>6, <1>7, CountsFinite, FS_AddElement, FS_RemoveElement, FS_CardinalityType
<1>. QED
  BY <1>8, <1>9, <1>10, <1>11 DEF TotalsInvariant

LEMMA NextTotals ==
  TimesInvariant /\ TotalsInvariant /\ [StatsNext]_statsVars => TotalsInvariant'
<1> SUFFICES ASSUME TimesInvariant, TotalsInvariant, [StatsNext]_statsVars
             PROVE  TotalsInvariant'
  OBVIOUS
<1>1. ASSUME UNCHANGED <<submit_ts, finish_ts, run_time_ns, worker_run_time,
                         finishes, overwritten, forgotten, Finishing>>
      PROVE  TotalsInvariant'
  BY <1>1 DEF TotalsInvariant, RunTimeConserved, Measured
<1>2. CASE PassTime \/ SchedStart \/ SchedWait \/ UNCHANGED statsVars
  BY <1>1, <1>2 DEF PassTime, SchedStart, SchedWait, Finishing
<1>3. ASSUME NEW w \in STAFF, NEW s \in SLOTS, SwitchOn(w, s) PROVE TotalsInvariant'
  <2>1. \A v \in STAFF : v \in Finishing' <=> v \in Finishing
    BY <1>3 DEF SwitchOn, Finishing, TimesInvariant, StatsTypeOK, HeldByOne, InHand
  <2>2. Finishing' = Finishing
    BY <2>1 DEF Finishing
  <2>. QED  BY <1>1, <1>3, <2>2 DEF SwitchOn
<1>. QED
  BY <1>2, <1>3, SchedInitTotals, ResubmitTotals, SwitchOffTotals,
     SchedReleaseTotals DEF StatsNext

(* The totals of sched_print_statistics agree with the times of the slots: *)
(* the finished tasks that sched_loop counts (schedy.c:184) are those      *)
(* measured and those whose slot was submitted to again, and no run time   *)
(* of sched_switch_to (schedy.c:149-152) is lost or counted twice.         *)
THEOREM TotalsAddUp == StatsSpec => []ReportAddsUp
<1>1. RunTimeInvariant /\ TotalsInvariant /\ StatsTypeOK => ReportAddsUp
  <2> SUFFICES ASSUME RunTimeInvariant, TotalsInvariant, StatsTypeOK, main = "joined"
               PROVE  ExecutedAndMeasured
    BY DEF ReportAddsUp, TotalsInvariant, RunTimeInvariant, ExecutedAndMeasured
  <2>1. Finishing = {}
    BY DEF RunTimeInvariant, Finishing
  <2>2. Cardinality(Finishing) = 0
    BY <2>1, FS_EmptySet
  <2> QED
    BY <2>2, CountsFinite DEF TotalsInvariant, ExecutedAndMeasured, StatsTypeOK
<1>2. TimesInvariant => StatsTypeOK
  BY DEF TimesInvariant
<1> QED
  BY <1>1, <1>2, InitRunTime, NextRunTime, StatsInitInvariant, StatsNextInvariant,
     InitTotals, NextTotals, PTL DEF StatsSpec

-----------------------------------------------------------------------------
(* The percentile. UpTo(f, v) are the tasks that took no longer than v.    *)

UpTo(f, v)  == {s \in DOMAIN f : f[s] <= v}
Below(f, v) == {s \in DOMAIN f : f[s] < v}

(* The sorted array has a value at every index.                            *)
LEMMA SortedExists ==
  ASSUME NEW S, IsFiniteSet(S), NEW f \in [S -> Int],
         NEW index \in 0 .. Cardinality(S) - 1
  PROVE  /\ Sorted(f, index) \in Range(f)
         /\ Cardinality(Below(f, Sorted(f, index))) <= index
         /\ Cardinality(UpTo(f, Sorted(f, index))) > index
<1>. DEFINE High == {v \in Range(f) : Cardinality(UpTo(f, v)) > index}
<1>1. IsFiniteSet(Range(f)) /\ Range(f) \subseteq Int
  BY RangeFinite DEF Range
<1>2. High # {}
  <2>1. S # {}
    BY FS_EmptySet, FS_CardinalityType
  <2>2. Range(f) # {}
    BY <2>1 DEF Range
  <2>3. PICK v \in Range(f) : \A u \in Range(f) : u <= v
    BY <1>1, <2>2, ExtremesExist DEF Extremes
  <2>4. UpTo(f, v) = S
    BY <2>3 DEF UpTo, Range
  <2>5. Cardinality(S) > index
    BY FS_CardinalityType
  <2>. QED  BY <2>4, <2>5
<1>3. PICK v \in High : \A u \in High : v <= u
  <2>1. IsFiniteSet(High) /\ High \subseteq Int
    BY <1>1, FS_Subset
  <2>. HIDE DEF High
  <2>. QED  BY <1>2, <2>1, ExtremesExist DEF Extremes
<1>4. Cardinality(Below(f, v)) <= index
  <2>1. CASE Below(f, v) = {}
    BY <2>1, FS_EmptySet
  <2>2. CASE Below(f, v) # {}
    <3>. DEFINE Low == {u \in Range(f) : u < v}
    <3>1. Low # {} /\ Low \subseteq Int /\ IsFiniteSet(Low)
      <4>1. Low \in SUBSET Range(f)
        OBVIOUS
      <4>2. Low # {}
        BY <2>2 DEF Below, Range
      <4>. QED  BY <1>1, <4>1, <4>2, FS_Subset
    <3>2. PICK u \in Low : \A x \in Low : x <= u
      <4>. HIDE DEF Low
      <4>. QED  BY <3>1, ExtremesExist DEF Extremes
    <3>3. Below(f, v) = UpTo(f, u)
      <4>1. \A s \in S : f[s] < v => f[s] <= u
        BY <3>2 DEF Range
      <4>2. u < v /\ u \in Int /\ v \in Int /\ \A s \in S : f[s] \in Int
        BY <1>1
      <4>3. \A s \in S : f[s] < v <=> f[s] <= u
        BY <4>1, <4>2
      <4>. QED  BY <4>3 DEF Below, UpTo
    <3>4. u \notin High
      BY <1>1, <1>3, <3>2
    <3>5. Cardinality(UpTo(f, u)) \in Nat
      <4>1. UpTo(f, u) \in SUBSET S
        BY DEF UpTo
      <4>. QED  BY <4>1, FS_Subset, FS_CardinalityType
    <3>. QED  BY <3>2, <3>3, <3>4, <3>5
  <2>. QED  BY <2>1, <2>2
<1>5. \E u \in Range(f) :
        /\ Cardinality({s \in DOMAIN f : f[s] < u}) <= index
        /\ Cardinality({s \in DOMAIN f : f[s] <= u}) > index
  BY <1>3, <1>4 DEF Below, UpTo
<1>. HIDE DEF High
<1>. QED  BY <1>5 DEF Sorted, Below, UpTo

(* The value at the index of the 95th percentile is the 95th percentile.   *)
LEMMA P95IsP95 ==
  ASSUME NEW S, IsFiniteSet(S), S # {}, NEW f \in [S -> Int]
  PROVE  IsP95(f, P95(f))
<1>. DEFINE n == Cardinality(S)
            index == P95Index(n)
            v == Sorted(f, index)
<1>1. n \in Nat \ {0}
  BY FS_EmptySet, FS_CardinalityType
<1>2. index \in 0 .. n - 1 /\ 100 * (index + 1) >= 95 * n /\ 100 * index < 95 * n
  <2>. HIDE DEF n
  <2>. QED  BY <1>1, P95IndexIsNearestRank
<1>3. /\ v \in Range(f)
      /\ Cardinality(Below(f, v)) <= index /\ Cardinality(UpTo(f, v)) > index
  <2>. HIDE DEF index
  <2>. QED  BY <1>2, SortedExists
<1>4. P95(f) = v
  BY DEF P95
<1>. HIDE DEF v, index
<1>5. ASSUME NEW u \in Range(f)
      PROVE  Cardinality(UpTo(f, u)) \in Nat
  <2>1. UpTo(f, u) \in SUBSET S
    BY DEF UpTo
  <2>. QED  BY <2>1, FS_Subset, FS_CardinalityType
<1>6. 100 * Cardinality(UpTo(f, v)) >= 95 * n
  <2>1. Cardinality(UpTo(f, v)) \in Nat
    BY <1>3, <1>5
  <2>. HIDE DEF n
  <2>. QED  BY <1>1, <1>2, <1>3, <2>1
<1>7. ASSUME NEW u \in Range(f), u < v
      PROVE  100 * Cardinality(UpTo(f, u)) < 95 * n
  <2>1. UpTo(f, u) \in SUBSET Below(f, v) /\ Below(f, v) \in SUBSET S
    BY <1>3, <1>7 DEF UpTo, Below, Range
  <2>2. Cardinality(UpTo(f, u)) <= Cardinality(Below(f, v))
    BY <2>1, FS_Subset
  <2>3. Cardinality(UpTo(f, u)) \in Nat /\ Cardinality(Below(f, v)) \in Nat
    BY <1>5, <2>1, FS_Subset, FS_CardinalityType
  <2>. HIDE DEF n
  <2>. QED  BY <1>1, <1>2, <1>3, <2>2, <2>3
<1>. QED  BY <1>4, <1>6, <1>7 DEF IsP95, UpTo

(* The percentiles that sched_print_statistics reports (schedy.c:447-453)  *)
(* are the 95th by nearest rank, for any number of measured tasks.         *)
THEOREM P95Reported == StatsSpec => []P95IsNearestRank
<1>1. StatsTypeOK => P95IsNearestRank
  <2> SUFFICES ASSUME StatsTypeOK, Measured # {}
               PROVE  IsP95(latency, P95(latency)) /\ IsP95(response, P95(response))
    BY DEF P95IsNearestRank
  <2>1. IsFiniteSet(Measured)
    BY CountsFinite
  <2>2. latency \in [Measured -> Int] /\ response \in [Measured -> Int]
    BY DEF latency, response, Measured, StatsTypeOK
  <2> QED
    BY <2>1, <2>2, P95IsP95
<1>2. TimesInvariant => StatsTypeOK
  BY DEF TimesInvariant
<1> QED
  BY <1>1, <1>2, StatsInitInvariant, StatsNextInvariant, PTL DEF StatsSpec

=============================================================================
