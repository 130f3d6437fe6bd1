---------------------------- MODULE GroupManager ----------------------------
(***************************************************************************)
(* systems/GroupManager.ts: the room's groups, kept in two maps that must  *)
(* tell the same story.  One action per method; a refused call changes     *)
(* nothing, so an action is the accepted call.                             *)
(***************************************************************************)
EXTENDS Integers, FiniteSets, Maps

CONSTANTS
    Player,          \* player ids
    MAX_GROUP_SIZE,  \* 20 in the source
    MaxGroupId       \* bound: how many groups a behaviour may form

ASSUME GroupAssumptions ==
    /\ IsFiniteSet(Player)
    /\ MAX_GROUP_SIZE \in Nat \ {0, 1}
    /\ MaxGroupId \in Nat

VARIABLES
    groups,       \* group id -> Group
    playerGroup,  \* player -> group id
    nextGroupId

groupVars == <<groups, playerGroup, nextGroupId>>

GroupId == 1..MaxGroupId

Group == [leaderId : Player, members : SUBSET Player, lootSharing : BOOLEAN]

GroupInit ==
    /\ groups = EmptyMap
    /\ playerGroup = EmptyMap
    /\ nextGroupId = 1

-----------------------------------------------------------------------------

InGroup(p) == p \in DOMAIN playerGroup

\* getGroup(p) finds a group; GroupOf(p) is what it finds.
HasGroup(p) == InGroup(p) /\ playerGroup[p] \in DOMAIN groups
GroupOf(p) == groups[playerGroup[p]]

IsLeader(p) == HasGroup(p) /\ GroupOf(p).leaderId = p

\* Mutant: every candidate is taken.
Everyone(candidates) == candidates

\* The candidates formGroup takes: those not in a group already.
Eligible(candidates) == {q \in candidates : ~InGroup(q)}

FormGroup(leader, candidates) ==
    LET members == {leader} \cup Eligible(candidates)
    IN  /\ nextGroupId \in GroupId
        /\ ~InGroup(leader)
        /\ Eligible(candidates) # {}
        /\ 1 + Cardinality(Eligible(candidates)) <= MAX_GROUP_SIZE
        /\ groups' = Put(groups, nextGroupId,
                [leaderId |-> leader, members |-> members, lootSharing |-> FALSE])
        /\ playerGroup' = [p \in DOMAIN playerGroup \cup members |->
                IF p \in members THEN nextGroupId ELSE playerGroup[p]]
        /\ nextGroupId' = nextGroupId + 1

\* Mutant: off by one at the limit.
AddOneTooMany(requester, target) ==
    LET g == playerGroup[requester]
    IN  /\ IsLeader(requester)
        /\ ~InGroup(target)
        /\ Cardinality(groups[g].members) <= MAX_GROUP_SIZE
        /\ groups' = Put(groups, g,
                [groups[g] EXCEPT !.members = @ \cup {target}])
        /\ playerGroup' = Put(playerGroup, target, g)
        /\ UNCHANGED nextGroupId

AddMember(requester, target) ==
    LET g == playerGroup[requester]
    IN  /\ IsLeader(requester)
        /\ ~InGroup(target)
        /\ Cardinality(groups[g].members) < MAX_GROUP_SIZE
        /\ groups' = Put(groups, g,
                [groups[g] EXCEPT !.members = @ \cup {target}])
        /\ playerGroup' = Put(playerGroup, target, g)
        /\ UNCHANGED nextGroupId

Disband(g) ==
    /\ playerGroup' = Without(playerGroup, groups[g].members)
    /\ groups' = Without(groups, {g})
    /\ UNCHANGED nextGroupId

\* Mutant: the last member's entry survives the disbanding.
TakeOutOnly(g, p) ==
    LET rest == groups[g].members \ {p}
    IN  /\ playerGroup' = Without(playerGroup, {p})
        /\ groups' = IF Cardinality(rest) <= 1
                     THEN Without(groups, {g})
                     ELSE Put(groups, g, [groups[g] EXCEPT !.members = rest])
        /\ UNCHANGED nextGroupId

\* p is taken out of group g; a group left with one member is disbanded.
TakeOut(g, p) ==
    LET rest == groups[g].members \ {p}
    IN  /\ playerGroup' = Without(playerGroup,
                {p} \cup IF Cardinality(rest) <= 1 THEN rest ELSE {})
        /\ groups' = IF Cardinality(rest) <= 1
                     THEN Without(groups, {g})
                     ELSE Put(groups, g, [groups[g] EXCEPT !.members = rest])
        /\ UNCHANGED nextGroupId

\* Mutant: the leader may leave like anyone.
RemoveAnyone(requester, target) ==
    /\ HasGroup(requester)
    /\ IsLeader(requester) \/ target = requester
    /\ target \in GroupOf(requester).members
    /\ TakeOut(playerGroup[requester], target)

\* The leader may take out anyone else, a member only itself.
RemoveMember(requester, target) ==
    /\ HasGroup(requester)
    /\ IF IsLeader(requester) THEN target # requester ELSE target = requester
    /\ target \in GroupOf(requester).members
    /\ TakeOut(playerGroup[requester], target)

DisbandGroup(g) == g \in DOMAIN groups /\ Disband(g)

TransferLeadership(requester, newLeader) ==
    /\ IsLeader(requester)
    /\ newLeader # requester
    /\ newLeader \in GroupOf(requester).members
    /\ groups' = Put(groups, playerGroup[requester],
            [GroupOf(requester) EXCEPT !.leaderId = newLeader])
    /\ UNCHANGED <<playerGroup, nextGroupId>>

SetLootSharing(requester, enabled) ==
    /\ IsLeader(requester)
    /\ groups' = Put(groups, playerGroup[requester],
            [GroupOf(requester) EXCEPT !.lootSharing = enabled])
    /\ UNCHANGED <<playerGroup, nextGroupId>>

\* A player leaves the room or dies.  Without a group, at most the id of one
\* that is gone is forgotten.
HandlePlayerLeave(p) ==
    \/ /\ ~HasGroup(p)
       /\ playerGroup' = Without(playerGroup, {p})
       /\ UNCHANGED <<groups, nextGroupId>>
    \/ IsLeader(p) /\ Disband(playerGroup[p])
    \/ HasGroup(p) /\ ~IsLeader(p) /\ TakeOut(playerGroup[p], p)

\* Callers pass a leader's followers, which never include the leader.
GroupNext ==
    \/ \E p \in Player : \E qs \in SUBSET (Player \ {p}) : FormGroup(p, qs)
    \/ \E p \in Player, q \in Player : AddMember(p, q)
    \/ \E p \in Player, q \in Player : RemoveMember(p, q)
    \/ \E g \in GroupId : DisbandGroup(g)
    \/ \E p \in Player, q \in Player : TransferLeadership(p, q)
    \/ \E p \in Player, b \in BOOLEAN : SetLootSharing(p, b)
    \/ \E p \in Player : HandlePlayerLeave(p)

GroupSpec == GroupInit /\ [][GroupNext]_groupVars

-----------------------------------------------------------------------------
(* Properties                                                              *)

\* The maps hold well-formed entries and no id ahead of the counter is in use.
GroupTypeOK ==
    /\ IsMap(groups, GroupId, Group)
    /\ IsMap(playerGroup, Player, GroupId)
    /\ nextGroupId \in 1..(MaxGroupId + 1)
    /\ \A g \in DOMAIN groups : g < nextGroupId

\* The two maps agree in both directions: a player's entry names a live group
\* that lists the player, and every listed member has an entry naming the
\* group.  So nobody is in two groups, and no group survives as a ghost.
MapsAgree ==
    /\ \A p \in DOMAIN playerGroup :
          /\ playerGroup[p] \in DOMAIN groups
          /\ p \in groups[playerGroup[p]].members
    /\ \A g \in DOMAIN groups : \A p \in groups[g].members :
          p \in DOMAIN playerGroup /\ playerGroup[p] = g

\* Leadership never dangles: whoever leaves, is kicked or hands over, the
\* leader is one of the members.
LeaderIsMember ==
    \A g \in DOMAIN groups : groups[g].leaderId \in groups[g].members

\* A group has at least two members and at most MAX_GROUP_SIZE.
SizeInBounds ==
    \A g \in DOMAIN groups :
        Cardinality(groups[g].members) \in 2..MAX_GROUP_SIZE

\* Nobody passes from one group to another without being out of both: not
\* poached by another leader's form or add.
NoPoachingStep ==
    \A p \in DOMAIN playerGroup \cap DOMAIN playerGroup' :
        playerGroup'[p] = playerGroup[p]

NoPoaching == [][NoPoachingStep]_groupVars
=============================================================================
