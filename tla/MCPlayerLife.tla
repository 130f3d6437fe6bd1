---------------------------- MODULE MCPlayerLife ----------------------------
(***************************************************************************)
(* Two players.  p1 may come back once, with a second session; p2 is the   *)
(* one who rescues, fights and may be lost.                                *)
(***************************************************************************)
EXTENDS PlayerLife, TLC

CONSTANTS p1, p2

OneReturn == [p \in Player |-> IF p = p1 THEN 2 ELSE 1]

NoReturn == [p \in Player |-> 1]
=============================================================================
