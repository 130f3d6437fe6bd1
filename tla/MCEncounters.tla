---------------------------- MODULE MCEncounters ----------------------------
(***************************************************************************)
(* Two players and two creatures: two fights that merge, a fight that goes *)
(* on when somebody flees, a strike from one fight into another.           *)
(***************************************************************************)
EXTENDS Encounters, TLC

Symmetry == Permutations(Player) \cup Permutations(Creature) \cup Permutations(Room)
=============================================================================
