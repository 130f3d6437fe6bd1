------------------------------ MODULE MCLoadout -----------------------------
(***************************************************************************)
(* Two calls of one player, two slots that take anything and one that does *)
(* not suit every item, and a stash too weak for all items at once.        *)
(***************************************************************************)
EXTENDS Loadout, Naturals, FiniteSets

CONSTANTS i1, s1, CAPACITY

AnyButFirst == [s \in Slot |-> IF s = s1 THEN Item \ {i1} ELSE Item]

UpToCapacity == {is \in SUBSET Item : Cardinality(is) <= CAPACITY}
=============================================================================
