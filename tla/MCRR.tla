-------------------------------- MODULE MCRR --------------------------------
(***************************************************************************)
(* Model checking of SchedRR: the slots and workers are few, the retry     *)
(* bound ATTEMPTS is 1 or 2 instead of 16 and SUBMITS bounds a round. The  *)
(* scan visits the slots in order, so neither slots nor workers are        *)
(* symmetric. Here is also the statement of a comment that run rr_full     *)
(* refutes.                                                                *)
(***************************************************************************)
EXTENDS SchedRRTurns

(* The comment of SCHED_THREADS_LIMIT: so many fibers can be in the        *)
(* scheduler at once. While no more than that were ever submitted, the     *)
(* assertion "Can't create a task" of a submission does not fail.          *)
LimitTasksFit == submitted <= LIMIT => ~Aborted

=============================================================================
