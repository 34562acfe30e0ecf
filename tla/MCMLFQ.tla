------------------------------- MODULE MCMLFQ -------------------------------
(***************************************************************************)
(* Model checking of SchedMLFQ: two or three slots, two workers, two       *)
(* levels with quanta of one and two yields, SUBMITS submissions per       *)
(* round. The queues are dealt out and stolen from in the order of the     *)
(* worker index, so workers are not symmetric.                             *)
(***************************************************************************)
EXTENDS SchedMLFQ

(* The comment of task_yield: it gives way to other fibers. So as long as  *)
(* some worker is in its loop, a task that waits in a queue gets its turn  *)
(* (run mlfq_starvation refutes it).                                       *)
YieldGivesWay ==
  \A t \in Tasks :
    state[t] = "RUNNABLE" ~>
      (state[t] # "RUNNABLE" \/ Aborted \/ \A w \in Workers : pc[w] = "exited")

(* The programs that submit all their tasks before tasks_start: a task     *)
(* more than the workers have hands then fits into the model.              *)
SubmitFirstSpec ==
  /\ Init
  /\ [][Next /\ (mpc = "submit" /\ mpc' # "submit" => submitted = SUBMITS)]_vars
  /\ Fairness

(* No task waits forever beside the tasks that the workers keep yielding   *)
(* and stealing, until a worker has given up: it is run, or some worker    *)
(* has left its loop.                                                      *)
EveryTaskRunsWhileStaffed ==
  \A t \in Tasks :
    state[t] = "RUNNABLE" ~>
      (state[t] # "RUNNABLE" \/ Aborted \/ \E w \in Workers : pc[w] = "exited")

=============================================================================
