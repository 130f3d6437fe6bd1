--------------------------- MODULE MCDowningSystem --------------------------
(***************************************************************************)
(* Three players in one room, so that two rescuers may work on one         *)
(* patient.  No symmetry, for the run checks liveness too.                 *)
(***************************************************************************)
EXTENDS DowningSystem
=============================================================================
