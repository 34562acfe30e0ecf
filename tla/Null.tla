-------------------------------- MODULE Null --------------------------------
(***************************************************************************)
(* The null pointer that the data structures and the contexts share.       *)
(***************************************************************************)
CONSTANT NULL

=============================================================================
