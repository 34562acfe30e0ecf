---------------------------- MODULE EventPromise ----------------------------
(***************************************************************************)
(* What event.h promises: an event that fires at most once, on which a     *)
(* fiber is blocked until then, as it would be parked in the scheduler.    *)
(***************************************************************************)
CONSTANT WAITERS

VARIABLES fired, blocked, returned

promiseVars == <<fired, blocked, returned>>

PromiseInit == fired = FALSE /\ blocked = {} /\ returned = {}

Block(f) ==
  /\ f \notin blocked \cup returned
  /\ blocked' = blocked \cup {f}
  /\ UNCHANGED <<fired, returned>>

FireOnce == ~fired /\ fired' = TRUE /\ UNCHANGED <<blocked, returned>>

Unblock(f) ==
  /\ fired /\ f \in blocked
  /\ blocked' = blocked \ {f}
  /\ returned' = returned \cup {f}
  /\ UNCHANGED fired

PromiseNext == FireOnce \/ \E f \in WAITERS : Block(f) \/ Unblock(f)

PromiseSpec ==
  /\ PromiseInit /\ [][PromiseNext]_promiseVars
  /\ \A f \in WAITERS : WF_promiseVars(Unblock(f))

=============================================================================
