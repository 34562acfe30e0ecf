-------------------------- MODULE SchedyInvariant ---------------------------
(***************************************************************************)
(* What holds of the locks, slots and contexts of Schedy in every state,   *)
(* whichever policy finds the tasks. It is the common part of the          *)
(* inductive invariants of SchedRR, SchedMLFQ and SchedCFS.                *)
(***************************************************************************)
EXTENDS Schedy

(* Where the locals of a worker point, and who is on which fiber.          *)
LocalsInv ==
  \A w \in Workers :
    /\ pc[w] \in OwnsCur => cur[w] \in Tasks
    /\ pc[w] \in OwnsSlot => idx[w] \in Tasks /\ idx[w] # cur[w]
    /\ pc[w] = "submit" => idx[w] \in 0 .. LIMIT
    /\ pc[w] \in OnFiber => worker[cur[w]] = w

LockInv == CoreTypeOK /\ LocalsInv /\ MutualExclusion

(* What the state of a slot says about its context and its lock. Outside   *)
(* of a worker's run of the task it is runnable or a zombie.               *)
Resting(t) == state[t] \in {"RUNNABLE", "ZOMBIE"}

SlotInv ==
  \A t \in Tasks :
    /\ state[t] = "RUNNABLE" =>
         thread[t] \in {"entry", "saved"} \/ mpc = "destroyed"
    /\ state[t] = "ZOMBIE" => thread[t] \in {"NULL", "reset", "freed"}
    /\ ~Resting(t) => /\ lock[t] \in Workers
                      /\ cur[lock[t]] = t
                      /\ pc[lock[t]] \in OnFiber \cup {"release"}
    /\ worker[t] # NULL => /\ pc[worker[t]] \in OnFiber
                           /\ cur[worker[t]] = t

WorkerInv ==
  \A w \in Workers :
    /\ pc[w] \in OnFiber =>
         state[cur[w]] = "RUNNING" /\ thread[cur[w]] = "live"
    /\ pc[w] \in {"check", "unlock"} => Resting(cur[w])
    /\ pc[w] \in {"switch", "on_yield", "yield_insert"} => IsReady(cur[w])
    /\ pc[w] = "release" =>
         state[cur[w]] \in {"RUNNING", "FINISHED"} /\ thread[cur[w]] = "saved"
    /\ pc[w] \in OwnsSlot => Resting(idx[w])
    /\ pc[w] \in {"on_submit", "submit_insert"} => IsReady(idx[w])

(* Before the first worker runs and after the last has returned.           *)
MainInv ==
  /\ mpc = "submit" => \A w \in Workers : pc[w] = "unborn"
  /\ mpc \in {"joined", "destroyed"} => \A w \in Workers : pc[w] = "exited"

StateInv == LockInv /\ SlotInv /\ WorkerInv /\ MainInv

=============================================================================
