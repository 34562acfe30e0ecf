------------------------------- MODULE Mutex --------------------------------
(***************************************************************************)
(* What spinlock.h promises and the models of the scheduler take a lock    *)
(* for: it is free or held by one thread, and taking it is one step.       *)
(***************************************************************************)
CONSTANTS THREADS, NULL

VARIABLE holder

MutexInit == holder = NULL

Acquire(p) == holder = NULL /\ holder' = p
Release(p) == holder = p /\ holder' = NULL

MutexNext == \E p \in THREADS : Acquire(p) \/ Release(p)

MutexSpec == MutexInit /\ [][MutexNext]_holder

=============================================================================
