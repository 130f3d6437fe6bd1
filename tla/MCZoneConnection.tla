-------------------------- MODULE MCZoneConnection --------------------------
(***************************************************************************)
(* One page and two zones, with everything a user or the network may do.   *)
(***************************************************************************)
EXTENDS ZoneConnection
=============================================================================
