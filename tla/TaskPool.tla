------------------------------ MODULE TaskPool ------------------------------
(***************************************************************************)
(* What a caller of the scheduler relies on, without locks, contexts,      *)
(* queues or scans: a slot holds at most one task, a task runs on at most  *)
(* one worker and a worker runs at most one task, a task leaves its slot   *)
(* only by finishing while it runs, and the wait of the main thread ends   *)
(* only when no task is left.                                              *)
(***************************************************************************)
CONSTANTS Tasks, Workers, NULL

VARIABLES
  status,   \* of each slot: "idle", "ready" or "running"
  runner,   \* the worker that runs the slot's task, or NULL
  waited    \* the main thread has returned from waiting

poolVars == <<status, runner, waited>>

Init ==
  /\ status = [t \in Tasks |-> "idle"]
  /\ runner = [t \in Tasks |-> NULL]
  /\ waited = FALSE

Move(t, from, to, w) ==
  /\ ~waited
  /\ status[t] = from
  /\ status' = [status EXCEPT ![t] = to]
  /\ runner' = [runner EXCEPT ![t] = w]
  /\ UNCHANGED waited

Submit(t) == Move(t, "idle", "ready", NULL)

Start(t, w) ==
  /\ \A s \in Tasks : runner[s] # w
  /\ Move(t, "ready", "running", w)

Yield(t) == Move(t, "running", "ready", NULL)

Finish(t) == Move(t, "running", "idle", NULL)

AllIdle == \A t \in Tasks : status[t] = "idle"

Close ==
  /\ AllIdle
  /\ ~waited /\ waited' = TRUE
  /\ UNCHANGED <<status, runner>>

Reopen ==
  /\ waited /\ waited' = FALSE
  /\ UNCHANGED <<status, runner>>

Operate ==
  \E t \in Tasks :
    \/ Submit(t) \/ Yield(t) \/ Finish(t)
    \/ \E w \in Workers : Start(t, w)

Next == Operate \/ Close \/ Reopen

Spec == Init /\ [][Next]_poolVars

(* The weaker promise of a pool whose wait may end too early: closing it   *)
(* may leave ready tasks behind, and reopening it forgets them.            *)
CloseEarly ==
  /\ \A t \in Tasks : status[t] # "running"
  /\ ~waited /\ waited' = TRUE
  /\ UNCHANGED <<status, runner>>

Forget ==
  /\ waited /\ waited' = FALSE
  /\ status' = [t \in Tasks |-> "idle"]
  /\ UNCHANGED runner

LossySpec == Init /\ [][Operate \/ CloseEarly \/ Forget]_poolVars

=============================================================================
