------------------------------ MODULE MCSleep -------------------------------
(***************************************************************************)
(* Model checking of Sleep with a second of two milliseconds, so that the  *)
(* clock passes MS_IN_S * MS_IN_S seconds, where the second term of        *)
(* timespec2ms steps, inside a sleep.                                      *)
(***************************************************************************)
EXTENDS Sleep

MCSleeps == 0 .. 5

=============================================================================
