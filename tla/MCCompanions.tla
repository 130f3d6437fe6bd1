---------------------------- MODULE MCCompanions ----------------------------
(***************************************************************************)
(* Three players: a leader, one who stays and one who comes and goes.  One *)
(* of them consents, and the others are alike.                             *)
(***************************************************************************)
EXTENDS Companions, TLC

Symmetry == Permutations(Player \ Consenting)
=============================================================================
