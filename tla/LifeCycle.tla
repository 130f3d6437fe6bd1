----------------------------- MODULE LifeCycle ------------------------------
(***************************************************************************)
(* What ZoneRoom promises of a player's life, whatever happens to the      *)
(* connection: one dies only by way of being downed, nobody gets up again  *)
(* once dying, and dying ends with the player out of the room.             *)
(***************************************************************************)
CONSTANT Player

VARIABLE status

Status == {"absent", "up", "downed", "dying"}

\* A downing record may outlive its player's stay (absent, then downed on the
\* return); there is no other way into "dying" than from "downed".
Passages ==
    {<<"absent", "up">>,   <<"up", "absent">>,
     <<"up", "downed">>,   <<"downed", "up">>,
     <<"downed", "dying">>, <<"dying", "absent">>,
     <<"downed", "absent">>, <<"absent", "downed">>}

Init == status = [p \in Player |-> "absent"]

\* One tick may change the status of several players.
Next ==
    /\ status' \in [Player -> Status]
    /\ \A p \in Player :
          status'[p] = status[p] \/ <<status[p], status'[p]>> \in Passages

DyingEnds == \A p \in Player : status[p] = "dying" ~> status[p] # "dying"

Spec == Init /\ [][Next]_status /\ DyingEnds
=============================================================================
