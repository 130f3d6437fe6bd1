---------------------------- MODULE MCCreatures ----------------------------
(***************************************************************************)
(* A den, which is the sandbox arena too, with a guard that attacks on     *)
(* sight, the hall next to it, and from the hall a way into another zone,  *)
(* from which nobody comes back.  The sandbox has animals, which do not    *)
(* attack.                                                                 *)
(***************************************************************************)
EXTENDS Creatures, TLC

CONSTANTS den, hall, abroad

MCExits == (den :> {hall}) @@ (hall :> {den, abroad})
MCHome == [s \in Spawn |-> IF s = 1 THEN den ELSE hall]
=============================================================================
