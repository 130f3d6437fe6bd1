----------------------------- MODULE MCHandoff -----------------------------
(* One player with one blade to carry between two zones. *)
EXTENDS Handoff, TLC

CONSTANTS p1, a1, blade

MCOwner == [p \in Player |-> a1]
MCWeight == [k \in Kind |-> 1]
MCKit == [k \in Kind |-> 0]
MCFirst == [k \in Kind |-> 1]
MCSessions == [p \in Player |-> 2]
MCVisits == [p \in Player |-> 1]
MCCopies == [k \in Kind |-> 1]

\* The player has come to the hub, with nothing to load, and stands by the blade.
MCInit ==
    /\ players = [p \in Player |-> [pack |-> NoItems, worn |-> Nothing]]
    /\ connected = Player
    /\ sessions = [p \in Player |-> 1]
    /\ joinHydrationTasks = EmptyMap
    /\ inventorySaveTimers = EmptyMap
    /\ inventoryRepo = [a \in Account |-> NoItems]
    /\ unstored = {}
    /\ kitGranted = {}
    /\ roomItems = MCFirst
    /\ corpses = EmptyMap
    /\ leaves = {}
    /\ deaths = EmptyMap
    /\ Wilds!RoomInit
    /\ page = [p \in Player |-> InZone("hub")]
    /\ straddling = {}

\* Bound: a player that straddles after its last join is followed no further;
\* whatever it does, neither property says anything of it any more.
MCNext ==
    /\ \A p \in straddling : sessions[p] + wSessions[p] < MaxJoins
    /\ Next

MCSpec == MCInit /\ [][MCNext]_vars
=============================================================================
