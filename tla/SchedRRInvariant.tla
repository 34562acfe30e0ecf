-------------------------- MODULE SchedRRInvariant --------------------------
(***************************************************************************)
(* The inductive invariant of SchedRR: what holds in every state, strong   *)
(* enough that each step preserves it. SchedRR_proofs proves it, the run   *)
(* rr checks it on a small instance.                                       *)
(***************************************************************************)
EXTENDS SchedRR, SchedyInvariant

(* The slots that a scan has looked at, and the one it has locked.         *)
ScanInv ==
  \A w \in Workers :
    /\ pc[w] = "scan" => idx[w] \in 0 .. LIMIT
    /\ pc[w] = "check" => idx[w] < LIMIT

RRInv == StateInv /\ TypeOK /\ ScanInv /\ ScanExclusion

(* Slots that a scan has passed: next_task_index is Behind(t) slots past t *)
(* (LIMIT when it is on t), and the slot that is being checked is not yet  *)
(* passed.                                                                 *)
Behind(t) ==
  IF t < next_task_index THEN next_task_index - t
                         ELSE next_task_index + LIMIT - t

JustLocked ==
  \A w \in Workers : pc[w] = "check" => Behind(cur[w]) = 1

Passed(w) == {t \in Tasks : Behind(t) <= idx[w]}

PassedInCheck(w) == {t \in Tasks : 1 < Behind(t) /\ Behind(t) <= idx[w] + 1}

Bound == {"unborn", "acquire"} \cup (OwnsCur \ {"check"})

(* A worker that will look at every runnable task before it may leave: it  *)
(* has yet to start a scan, or the scan it is in passed no runnable task.  *)
Hope(w) ==
  \/ pc[w] \in Bound
  \/ pc[w] = "scan" /\ \A t \in Passed(w) : state[t] # "RUNNABLE"
  \/ pc[w] = "check" /\ \A t \in PassedInCheck(w) : state[t] # "RUNNABLE"

HopeInv ==
  (\E t \in Tasks : state[t] # "ZOMBIE") => \E w \in Workers : Hope(w)

IInv == RRInv /\ JustLocked /\ HopeInv

=============================================================================
