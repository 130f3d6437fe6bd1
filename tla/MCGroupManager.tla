--------------------------- MODULE MCGroupManager ---------------------------
(***************************************************************************)
(* Five players and groups of at most three: two groups coexist, one is    *)
(* full while a candidate waits, and a kick leaves a single member.        *)
(***************************************************************************)
EXTENDS GroupManager, TLC

Symmetry == Permutations(Player)
=============================================================================
