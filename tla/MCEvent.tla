------------------------------ MODULE MCEvent -------------------------------
(***************************************************************************)
(* Model checking of Event and Sleep: more fibers than workers, and a      *)
(* second of two milliseconds, so that the clock passes MS_IN_S * MS_IN_S  *)
(* seconds, where the second term of timespec2ms steps, inside a sleep.    *)
(***************************************************************************)
EXTENDS Event

MCSleeps == 0 .. 5

=============================================================================
