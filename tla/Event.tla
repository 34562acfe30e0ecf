------------------------------- MODULE Event --------------------------------
(***************************************************************************)
(* event.c between fibers that share workers: the test test_event.c, with  *)
(* any number of fibers that wait. One of them submits the eventer, which  *)
(* sleeps, stores the result and fires; the waits poll between yields. The *)
(* eventer's task_sleep is Sleep.                                          *)
(*                                                                         *)
(* Of the scheduler there is what TaskPool and EveryTaskRuns say of it: at *)
(* most CREW fibers are on a worker, and one that is ready gets its turn.  *)
(***************************************************************************)
EXTENDS Sleep, FiniteSets

CONSTANTS
  WAITERS,       \* the fibers that run event_test
  STARTER,       \* the one that submits the eventer
  EVENTER,
  CREW           \* the number of workers

ASSUME EventAssumption ==
  /\ STARTER \in WAITERS /\ EVENTER \notin WAITERS
  /\ CREW \in Nat \ {0}

Fibers == WAITERS \cup {EVENTER}

VARIABLES
  on,            \* the fibers that are on a worker
  at,            \* where a fiber is in its body
  is_fired,
  result         \* `state` of test_event.c

eventVars == <<on, at, is_fired, result>>
fiberVars == <<vars, eventVars>>

(* The test has submitted the waiters. What the clock reads when the       *)
(* eventer begins to sleep is any value.                                   *)
EventInit ==
  /\ Init
  /\ \A ms \in SLEEPS : clock + ms + MS_IN_S <= HORIZON
  /\ on = {}
  /\ at = [f \in Fibers |-> IF f = EVENTER THEN "unborn" ELSE "start"]
  /\ is_fired = FALSE
  /\ result = 0

To(f, from, to) ==
  /\ f \in on /\ at[f] = from
  /\ at' = [at EXCEPT ![f] = to]

LeavesWorker(f) == on' = on \ {f}

-----------------------------------------------------------------------------

(* Seeded fault: a worker takes a second fiber.                            *)
RoomForOneMore == Cardinality(on) <= CREW

Room == Cardinality(on) < CREW

(* A worker takes a ready fiber; the eventer may return into task_sleep.   *)
TakeOn(f) ==
  /\ f \notin on /\ at[f] \notin {"unborn", "exited"}
  /\ Room
  /\ on' = on \cup {f}
  /\ IF f = EVENTER /\ pc = "yielded" THEN Resume ELSE UNCHANGED vars
  /\ UNCHANGED <<at, is_fired, result>>

(* task_exit                                                               *)
Exit(f) ==
  /\ To(f, "end", "exited")
  /\ LeavesWorker(f)
  /\ UNCHANGED <<vars, is_fired, result>>

(* event_test: GO(eventer), then EVENT_WAIT                                *)
EnterWait(f) ==
  /\ f \in on \cap WAITERS /\ at[f] = "start"
  /\ at' = [g \in Fibers |-> IF g = f THEN "wait"
                             ELSE IF g = EVENTER /\ f = STARTER THEN "start"
                             ELSE at[g]]
  /\ UNCHANGED <<vars, on, is_fired, result>>

(* Seeded fault: the wait spins without giving up its worker.              *)
PollSpinning(f) == UNCHANGED on

Poll(f) == LeavesWorker(f)

(* Seeded fault: the wait does not look at the event.                      *)
FiredUnread == TRUE

Fired == is_fired

(* event_wait finds the event not fired, and yields.                       *)
WaitYield(f) ==
  /\ f \in WAITERS
  /\ To(f, "wait", "wait")
  /\ ~Fired
  /\ Poll(f)
  /\ UNCHANGED <<vars, is_fired, result>>

WaitReturn(f) ==
  /\ f \in WAITERS
  /\ To(f, "wait", "end")
  /\ Fired
  /\ UNCHANGED <<vars, on, is_fired, result>>

-----------------------------------------------------------------------------
(* The eventer: SLEEP, then the store, then event_fire.                    *)

EventerSleeps ==
  /\ To(EVENTER, "start", "sleep")
  /\ \E ms \in SLEEPS : Call(ms)
  /\ UNCHANGED <<on, is_fired, result>>

EventerYields ==
  /\ To(EVENTER, "sleep", "sleep")
  /\ Yield
  /\ LeavesWorker(EVENTER)
  /\ UNCHANGED <<is_fired, result>>

(* Seeded fault: the event is fired before the result is stored.           *)
WokenFires == is_fired' = TRUE

Woken == UNCHANGED is_fired

EventerWakes ==
  /\ To(EVENTER, "sleep", "store")
  /\ Return
  /\ Woken
  /\ UNCHANGED <<on, result>>

EventerStores ==
  /\ To(EVENTER, "store", "fire")
  /\ result' = 1
  /\ UNCHANGED <<vars, on, is_fired>>

event_fire ==
  /\ To(EVENTER, "fire", "end")
  /\ is_fired' = TRUE
  /\ UNCHANGED <<vars, on, result>>

Eventer ==
  \/ EventerSleeps \/ EventerYields \/ EventerWakes \/ EventerStores \/ event_fire

Run(f) ==
  \/ f = EVENTER /\ Eventer
  \/ EnterWait(f) \/ WaitYield(f) \/ WaitReturn(f) \/ Exit(f)

(* Time is read in task_sleep only.                                        *)
TimePasses == pc # "running" /\ Tick /\ UNCHANGED eventVars

EventNext == TimePasses \/ \E f \in Fibers : TakeOn(f) \/ Run(f)

(* Time passes; the operating system runs the workers, so that a fiber on  *)
(* one goes on; and the scheduler takes on a ready fiber some time when    *)
(* it again and again could (SchedRR's EveryTaskRuns).                     *)
EventSpec ==
  /\ EventInit /\ [][EventNext]_fiberVars
  /\ WF_fiberVars(TimePasses)
  /\ \A f \in Fibers : WF_fiberVars(Run(f)) /\ SF_fiberVars(TakeOn(f))

-----------------------------------------------------------------------------

(* Types; no more fibers run than there are workers.                       *)
EventTypeOK ==
  /\ TypeOK
  /\ on \subseteq Fibers /\ Cardinality(on) <= CREW
  /\ at \in [Fibers -> {"unborn", "start", "wait", "sleep", "store", "fire", "end",
                        "exited"}]
  /\ is_fired \in BOOLEAN /\ result \in {0, 1}

(* The assertions of test_event.c: a fiber that has waited sees what was   *)
(* stored before the event was fired, and one that has not yet submitted   *)
(* the eventer does not.                                                   *)
WaitersSeeResult ==
  /\ \A f \in WAITERS : at[f] \in {"end", "exited"} => result = 1
  /\ at[STARTER] = "start" => result = 0

(* Every wait ends, though the waiting fibers keep all the workers busy    *)
(* with polling while the eventer has yet to run, sleep and fire; and so   *)
(* does every fiber.                                                       *)
EveryFiberExits == \A f \in Fibers : <>(at[f] = "exited")

Promise == INSTANCE EventPromise WITH
  fired <- is_fired,
  blocked <- {f \in WAITERS : at[f] = "wait"},
  returned <- {f \in WAITERS : at[f] \in {"end", "exited"}}

(* Polling between yields is as good as parking the waiting fiber: no wait *)
(* ends before the event, and each does after it.                          *)
KeepsEventPromise == Promise!PromiseSpec

=============================================================================
