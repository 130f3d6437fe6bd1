----------------------------- MODULE Companions -----------------------------
(***************************************************************************)
(* Following, consent and groups in a ZoneRoom: what players keep of each  *)
(* other in their PlayerStates, and the GroupManager behind the group      *)
(* command, across joins, refreshes, deaths and departures.                *)
(*                                                                         *)
(* Names stand for players one to one, and commands that look for a player *)
(* find anyone who is online: where players stand is left out.  So is      *)
(* PlayerState.groupId, which repeats playerGroup and which nothing reads. *)
(***************************************************************************)
EXTENDS GroupManager

CONSTANT
    Consenting        \* bound: players who use the consent command

ASSUME ConsentAssumption == Consenting \subseteq Player

VARIABLES
    online,           \* the keys of ZoneRoom.players
    following,        \* map: PlayerState.followingPlayerId, where not null
    followers,        \* PlayerState.followers, {} for a player not online
    consented         \* PlayerState.consentedPlayers, likewise

socialVars == <<online, following, followers, consented>>
vars == <<groups, playerGroup, nextGroupId, online, following, followers, consented>>

Init ==
    /\ GroupInit
    /\ online = {}
    /\ following = EmptyMap
    /\ followers = [p \in Player |-> {}]
    /\ consented = [p \in Player |-> {}]

-----------------------------------------------------------------------------
(* Coming and going                                                        *)

\* new PlayerState(p)
FreshState(p) ==
    /\ following' = Without(following, {p})
    /\ followers' = [followers EXCEPT ![p] = {}]
    /\ consented' = [consented EXCEPT ![p] = {}]

Join(p) ==
    /\ p \notin online
    /\ online' = online \cup {p}
    /\ FreshState(p)
    /\ UNCHANGED groupVars

\* A duplicate join: p gets a fresh PlayerState, what others and the group
\* manager have of p stays.
Refresh(p) ==
    /\ p \in online
    /\ FreshState(p)
    /\ UNCHANGED <<online, groupVars>>

\* Mutant: followers keep following.
StillLed(f, p) == f

\* Those who follow p stop.
Unled(f, p) == Without(f, {q \in DOMAIN f : f[q] = p})

\* cleanupFollowRelationships: p out of every follower set, and those who
\* follow p stop.  The player's own leader and followers are not touched.
CleanupFollow(p) ==
    /\ following' = Unled(following, p)
    /\ followers' = [q \in Player |-> followers[q] \ {p}]

\* Mutant: the member is forgotten without the group hearing of it.
ForgetMember(p) ==
    /\ playerGroup' = Without(playerGroup, {p})
    /\ UNCHANGED <<groups, nextGroupId>>

\* Mutant: the group is not left at all.
KeepMembership(p) == UNCHANGED groupVars

\* cleanupGroupMembership.
CleanupGroup(p) == HandlePlayerLeave(p)

\* handlePlayerDeath, up to its first await: the player stays for now.
StartDeath(p) ==
    /\ p \in online
    /\ CleanupFollow(p)
    /\ CleanupGroup(p)
    /\ UNCHANGED <<online, consented>>

\* players.delete, then cleanupPlayerCaches: the end of onLeave and of a death.
Leave(p) ==
    /\ p \in online
    /\ online' = online \ {p}
    /\ following' = Unled(Without(following, {p}), p)
    /\ followers' = [q \in Player |-> IF q = p THEN {} ELSE followers[q] \ {p}]
    /\ consented' = [consented EXCEPT ![p] = {}]
    /\ CleanupGroup(p)

-----------------------------------------------------------------------------
(* Commands                                                                *)

Follow(p, leader) ==
    /\ {p, leader} \subseteq online
    /\ p # leader
    /\ p \notin DOMAIN following
    /\ following' = Put(following, p, leader)
    /\ followers' = [followers EXCEPT ![leader] = @ \cup {p}]
    /\ UNCHANGED <<online, consented, groupVars>>

Unfollow(p) ==
    /\ p \in online \cap DOMAIN following
    /\ following' = Without(following, {p})
    /\ followers' = [followers EXCEPT ![following[p]] = @ \ {p}]
    /\ UNCHANGED <<online, consented, groupVars>>

Consent(p, q) ==
    /\ {p, q} \subseteq online
    /\ p # q
    /\ p \in Consenting
    /\ consented' = [consented EXCEPT ![p] = @ \cup {q}]
    /\ UNCHANGED <<online, following, followers, groupVars>>

Unconsent(p, q) ==
    /\ p \in online
    /\ q \in consented[p] \cap online
    /\ consented' = [consented EXCEPT ![p] = @ \ {q}]
    /\ UNCHANGED <<online, following, followers, groupVars>>

\* group form: of the followers who are still to be found.
GroupForm(p) ==
    /\ p \in online
    /\ FormGroup(p, followers[p] \cap online)
    /\ UNCHANGED socialVars

\* group add: of a follower, or of one who consented.
GroupAdd(p, q) ==
    /\ {p, q} \subseteq online
    /\ q \in followers[p] \/ p \in consented[q]
    /\ AddMember(p, q)
    /\ UNCHANGED socialVars

\* group remove and group leave; who is told of it is left out.
GroupRemove(p, q) ==
    /\ p \in online
    /\ RemoveMember(p, q)
    /\ UNCHANGED socialVars

GroupLeave(p) ==
    /\ p \in online
    /\ RemoveMember(p, p)
    /\ UNCHANGED socialVars

GroupDisband(p) ==
    /\ p \in online
    /\ IsLeader(p)
    /\ Disband(playerGroup[p])
    /\ UNCHANGED socialVars

GroupLeader(p, q) ==
    /\ p \in online
    /\ TransferLeadership(p, q)
    /\ UNCHANGED socialVars

GroupShare(p, enabled) ==
    /\ p \in online
    /\ SetLootSharing(p, enabled)
    /\ UNCHANGED socialVars

Next ==
    \/ \E p \in Player : Join(p)
    \/ \E p \in Player : Refresh(p)
    \/ \E p \in Player : StartDeath(p)
    \/ \E p \in Player : Leave(p)
    \/ \E p \in Player, q \in Player : Follow(p, q)
    \/ \E p \in Player : Unfollow(p)
    \/ \E p \in Player, q \in Player : Consent(p, q)
    \/ \E p \in Player, q \in Player : Unconsent(p, q)
    \/ \E p \in Player : GroupForm(p)
    \/ \E p \in Player, q \in Player : GroupAdd(p, q)
    \/ \E p \in Player, q \in Player : GroupRemove(p, q)
    \/ \E p \in Player : GroupLeave(p)
    \/ \E p \in Player : GroupDisband(p)
    \/ \E p \in Player, q \in Player : GroupLeader(p, q)
    \/ \E p \in Player, b \in BOOLEAN : GroupShare(p, b)

Spec == Init /\ [][Next]_vars

-----------------------------------------------------------------------------
(* Properties that hold                                                    *)

\* Every field holds players, and every map well-formed entries.
TypeOK ==
    /\ GroupTypeOK
    /\ online \subseteq Player
    /\ IsMap(following, Player, Player)
    /\ followers \in [Player -> SUBSET Player]
    /\ consented \in [Player -> SUBSET Player]

\* Nobody is in a group without being in the room: deaths, departures and
\* refreshes leave no absent members behind.
MembersAreOnline == DOMAIN playerGroup \subseteq online

\* Nobody follows a player who is gone, and no player who is gone is counted
\* among the followers that a move drags along or a new group takes in.
TiesAreOnline ==
    /\ \A p \in DOMAIN following : {p, following[p]} \subseteq online
    /\ \A p \in Player : followers[p] \subseteq online

\* Whatever handlers and clean-ups run, the GroupManager is only ever driven
\* through its own operations: its guarantees hold in the room too.
DrivesGroupManager == GroupSpec

=============================================================================
