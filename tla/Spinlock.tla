------------------------------ MODULE Spinlock ------------------------------
(***************************************************************************)
(* spinlock.c: a lock that is one atomic flag, and the threads that call   *)
(* spinlock_lock, spinlock_try_lock and spinlock_unlock. A step of a       *)
(* thread is one atomic access to the flag, or the call of spinlock_lock.  *)
(***************************************************************************)
EXTENDS Null

CONSTANT THREADS

ASSUME SpinlockAssumption == NULL \notin THREADS

VARIABLES
  is_locked,
  at            \* where a thread is: "out", "spin" (the loop of
                \* spinlock_lock) or "in" (it has the lock)

lockVars == <<is_locked, at>>

(* spinlock_init *)
SpinlockInit ==
  /\ is_locked = FALSE
  /\ at = [p \in THREADS |-> "out"]

Go(p, place) == at' = [at EXCEPT ![p] = place]

(* Seeded fault: the flag is read, and set whatever was read.              *)
ExchangeUnread(p, failed) == is_locked' = TRUE /\ Go(p, "in")

(* atomic_exchange(&lock->is_locked, true), which tells p whether it got   *)
(* the lock.                                                               *)
Exchange(p, failed) ==
  /\ is_locked' = TRUE
  /\ Go(p, IF is_locked THEN failed ELSE "in")

spinlock_lock(p) == at[p] = "out" /\ Go(p, "spin") /\ UNCHANGED is_locked

Spin(p) == at[p] = "spin" /\ Exchange(p, "spin")

spinlock_try_lock(p) == at[p] = "out" /\ Exchange(p, "out")

(* Seeded fault: the flag stays set.                                       *)
StoreNothing == UNCHANGED is_locked

StoreFalse == is_locked' = FALSE

spinlock_unlock(p) == at[p] = "in" /\ Go(p, "out") /\ StoreFalse

SpinlockStep(p) ==
  spinlock_lock(p) \/ Spin(p) \/ spinlock_try_lock(p) \/ spinlock_unlock(p)

SpinlockNext == \E p \in THREADS : SpinlockStep(p)

SpinlockSpec == SpinlockInit /\ [][SpinlockNext]_lockVars

-----------------------------------------------------------------------------

SpinlockTypeOK ==
  /\ is_locked \in BOOLEAN
  /\ at \in [THREADS -> {"out", "spin", "in"}]

(* At most one thread is between a successful exchange and its unlock, and *)
(* the flag is set exactly while there is one: the lock is never lost with *)
(* no one to release it.                                                   *)
FlagMeansHeld ==
  /\ \A p, r \in THREADS : at[p] = "in" /\ at[r] = "in" => p = r
  /\ is_locked <=> \E p \in THREADS : at[p] = "in"

Holder ==
  IF \E p \in THREADS : at[p] = "in"
  THEN CHOOSE p \in THREADS : at[p] = "in"
  ELSE NULL

(* The spinlock is a lock that is taken and released in one step.          *)
Lock == INSTANCE Mutex WITH holder <- Holder

IsMutex == Lock!MutexSpec

=============================================================================
