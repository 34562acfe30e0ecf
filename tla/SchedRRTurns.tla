---------------------------- MODULE SchedRRTurns ----------------------------
(***************************************************************************)
(* Who gets a turn while others wait: SchedRR with a history of the turns. *)
(* The scheduler has no such variable, and no step depends on it.          *)
(***************************************************************************)
EXTENDS SchedRRInvariant

VARIABLE turns    \* the slots that had a turn since t began to wait

turnsVars == <<vars, turns>>

(* t is runnable and no worker has picked it.                              *)
Waiting(t) ==
  /\ state[t] = "RUNNABLE"
  /\ \A w \in Workers : pc[w] \in {"check", "switch"} => cur[w] # t

(* The worker whose scan ends in this step with a task to switch to.       *)
Picks(w) == pc[w] = "check" /\ pc'[w] = "switch"

NoteTurns ==
  turns' = [t \in Tasks |->
              IF Waiting(t) /\ Waiting(t)'
              THEN turns[t] \cup {cur[w] : w \in {v \in Workers : Picks(v)}}
              ELSE {}]

TurnsInit == Init /\ turns = [t \in Tasks |-> {}]

TurnsNext == Next /\ NoteTurns

TurnsSpec == TurnsInit /\ [][TurnsNext]_turnsVars

(* The fairness of SchedRR: the history hinders no step.                   *)
FairTurnsSpec == TurnsSpec /\ Fairness

-----------------------------------------------------------------------------

(* Round robin, with any number of workers that scan, yield and submit at  *)
(* once: while a task waits, no other slot of the table gets a second      *)
(* turn. So the one shared next_task_index is enough, although a scan that *)
(* meets a locked slot counts without advancing it, and although slots are *)
(* filled behind and in front of it meanwhile (sched_acquire_next_rr).     *)
OneTurnEach ==
  [][\A w \in Workers : Picks(w) =>
       \A t \in Tasks : Waiting(t) => cur[w] \notin turns[t]]_turnsVars

(* The slots that had a turn are those the index has passed since.         *)
TurnsInv ==
  /\ turns \in [Tasks -> SUBSET Tasks]
  /\ \A t \in Tasks : Waiting(t) =>
       /\ \A s \in turns[t] : Behind(s) < Behind(t)
       /\ \A w \in Workers : pc[w] = "check" => cur[w] \notin turns[t]

=============================================================================
