-------------------------------- MODULE Vault -------------------------------
(***************************************************************************)
(* What LoadoutService promises of one player's stash and equipment: every *)
(* operation is atomic, it moves items and neither makes nor loses any.    *)
(*                                                                         *)
(* The promise ends (`intact`) when an operation is interrupted between    *)
(* its writes: by a repository that fails, or by a death.                  *)
(***************************************************************************)
CONSTANTS Item, Slot, None

VARIABLES kept, worn, intact

vars == <<kept, worn, intact>>

Somewhere(i) == i \in kept \/ \E s \in Slot : worn[s] = i

Init ==
    /\ kept \subseteq Item
    /\ worn = [s \in Slot |-> None]
    /\ intact = TRUE

\* Out of the stash into a slot; what the slot held goes into the stash.
Equip(i, s) ==
    /\ i \in kept
    /\ kept' = (kept \ {i}) \cup ({worn[s]} \ {None})
    /\ worn' = [worn EXCEPT ![s] = i]
    /\ UNCHANGED intact

\* From the pack into a slot; what the slot held goes into the pack.
Wear(i, s) ==
    /\ ~Somewhere(i)
    /\ worn' = [worn EXCEPT ![s] = i]
    /\ UNCHANGED <<kept, intact>>

\* Out of a slot into the stash.
Unequip(s) ==
    /\ worn[s] # None
    /\ kept' = kept \cup {worn[s]}
    /\ worn' = [worn EXCEPT ![s] = None]
    /\ UNCHANGED intact

\* Death between operations.
Wipe ==
    /\ worn' = [s \in Slot |-> None]
    /\ UNCHANGED <<kept, intact>>

\* From here on nothing is promised.
Interrupt == intact' = FALSE

Next ==
    \/ \E i \in Item, s \in Slot : Equip(i, s) \/ Wear(i, s)
    \/ \E s \in Slot : Unequip(s)
    \/ Wipe
    \/ Interrupt

Spec == Init /\ [][Next]_vars
=============================================================================
