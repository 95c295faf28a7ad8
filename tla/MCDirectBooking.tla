-------------------------- MODULE MCDirectBooking --------------------------
(***************************************************************************)
(* DirectBooking on instances small enough for TLC.  The .cfg files give   *)
(* the bounds; each one opens the part of the system its run is about.     *)
(***************************************************************************)
EXTENDS DirectBooking, TLC

Symmetry == Permutations(Workers)
=============================================================================
