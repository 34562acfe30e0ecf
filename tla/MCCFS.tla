------------------------------- MODULE MCCFS --------------------------------
(***************************************************************************)
(* Model checking of SchedCFS: two workers that steal from each other's    *)
(* trees. MAX_VRUNTIME bounds the yields of a task.                        *)
(***************************************************************************)
EXTENDS SchedCFSTurns

(* Main submits one task, in slot 0, that one the task of slot 1, and this *)
(* one all others: fewer orders of submissions, and room for four slots.   *)
(* Slot 0 goes first among equals, so a task that submits while others are *)
(* a turn ahead of it is not in that slot.                                 *)
ChainNext ==
  /\ TurnsNext
  /\ submitted' > submitted =>
       \/ mpc = "submit" /\ submitted = 0
       \/ \E w \in Workers :
            /\ pc[w] = "fiber" /\ pc'[w] = "submit"
            /\ cur[w] = IF submitted = 1 THEN 0 ELSE 1

ChainSpec == TurnsInit /\ [][ChainNext]_turnsVars
=============================================================================
