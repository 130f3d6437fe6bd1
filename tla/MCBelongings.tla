---------------------------- MODULE MCBelongings ----------------------------
(* Two characters of one account in three situations, small enough to be     *)
(* checked together; who comes no more has been here before.                 *)
EXTENDS Belongings, TLC

CONSTANTS p1, p2, a1, blade, charm, ore

MCOwner == [p \in Player |-> a1]
MCWeight == (blade :> 2) @@ (charm :> 1) @@ (ore :> 2)
MCKit == [NoItems EXCEPT ![charm] = 1]
MCFirst == NoItems
MCCopies == [k \in Kind |-> IF k = blade THEN 2 ELSE 1]
MCSessions == [p \in Player |-> 2]

\* begun  sessions that are over     without  who has had no starter kit
\* lies   what lies in the room
Situation ==
    {[begun |-> (p1 :> 1) @@ (p2 :> 2), without |-> {p1}, lies |-> One(blade)],
     [begun |-> (p1 :> 0) @@ (p2 :> 2), without |-> {}, lies |-> One(blade)],
     [begun |-> (p1 :> 1) @@ (p2 :> 1), without |-> {}, lies |-> One(ore)]}

MCInit ==
    /\ Deserted
    /\ \E s \in Situation :
          /\ sessions = s.begun
          /\ kitGranted = Player \ s.without
          /\ roomItems = s.lies

MCSpec == MCInit /\ [][RoomNext]_roomVars
=============================================================================
