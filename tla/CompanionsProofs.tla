-------------------------- MODULE CompanionsProofs --------------------------
(***************************************************************************)
(* For every finite set of players and every bound.  Of the GroupManager   *)
(* by itself: its two maps agree, leaders are members, sizes stay in       *)
(* bounds and nobody is poached.  Of the room: it drives the GroupManager  *)
(* only through its own operations, so the same holds there, and members,  *)
(* leaders and followers are online.                                       *)
(*                                                                         *)
(* The pieces lean on each other.  In GroupInv, sizes need the agreement   *)
(* (a candidate without an entry is in no member list, so adding it makes  *)
(* the group larger by one), and agreement needs ids below the counter (a  *)
(* new group overwrites none).  In CompanionsInv, group form hands the     *)
(* GroupManager the follower set, which must not hold the leader itself;   *)
(* that a member who leaves is out of every group needs GroupInv.          *)
(***************************************************************************)
EXTENDS Companions, TLAPS, FiniteSetTheorems

-----------------------------------------------------------------------------
(* The GroupManager *)

GroupInv == GroupTypeOK /\ MapsAgree /\ LeaderIsMember /\ SizeInBounds

\* map.delete of an absent key does nothing.
LEMMA WithoutAbsent ==
    ASSUME NEW K, NEW V, NEW m, IsMap(m, K, V), NEW k, k \notin DOMAIN m
    PROVE  Without(m, {k}) = m
<1>1. m = [x \in DOMAIN m |-> m[x]]
  BY DEF IsMap
<1>2. DOMAIN m \ {k} = DOMAIN m
  OBVIOUS
<1>3. Without(m, {k}) = [x \in DOMAIN m |-> m[x]]
  BY <1>2 DEF Without
<1>4. QED
  BY <1>1, <1>3

\* What the type invariant says of one group.
LEMMA GroupFields ==
    ASSUME GroupTypeOK, NEW g \in DOMAIN groups
    PROVE  /\ g \in GroupId
           /\ groups[g] \in Group
           /\ groups[g].leaderId \in Player
           /\ groups[g].members \in SUBSET Player
           /\ IsFiniteSet(groups[g].members)
<1>1. g \in GroupId /\ groups[g] \in Group
  BY DEF GroupTypeOK, IsMap
<1>2. groups[g].leaderId \in Player /\ groups[g].members \in SUBSET Player
  BY <1>1 DEF Group
<1>3. IsFiniteSet(groups[g].members)
  BY <1>2, FS_Subset, GroupAssumptions
<1>4. QED
  BY <1>1, <1>2, <1>3

-----------------------------------------------------------------------------
(* Every method either writes one group's record, with the entries that go *)
(* with it, or drops one group with all of its entries.                    *)

\* The record of group g becomes rec and exactly the members of rec have an
\* entry that names g.
LEMMA WriteGroup ==
    ASSUME GroupInv, NEW g \in GroupId, NEW rec \in Group,
           rec.leaderId \in rec.members,
           Cardinality(rec.members) \in 2..MAX_GROUP_SIZE,
           groups' = Put(groups, g, rec),
           playerGroup' =
                [x \in {y \in DOMAIN playerGroup : playerGroup[y] # g}
                            \cup rec.members |->
                    IF x \in rec.members THEN g ELSE playerGroup[x]],
           \A x \in rec.members \cap DOMAIN playerGroup : playerGroup[x] = g,
           nextGroupId' \in 1..(MaxGroupId + 1),
           nextGroupId <= nextGroupId', g < nextGroupId'
    PROVE  GroupInv'
<1>1. /\ DOMAIN groups' = DOMAIN groups \cup {g}
      /\ groups'[g] = rec
      /\ \A h \in DOMAIN groups : h # g => groups'[h] = groups[h]
  BY DEF Put
<1>2. GroupTypeOK'
  <2>1. IsMap(groups', GroupId, Group)
    BY DEF GroupInv, GroupTypeOK, IsMap, Put
  <2>2. rec.members \subseteq Player
    BY DEF Group
  <2>3. IsMap(playerGroup', Player, GroupId)
    BY <2>2 DEF GroupInv, GroupTypeOK, IsMap
  <2>4. ASSUME NEW h \in DOMAIN groups'
        PROVE  h < nextGroupId'
    <3>1. CASE h = g
      BY <3>1
    <3>2. CASE h # g
      <4>1. h \in DOMAIN groups /\ nextGroupId \in 1..(MaxGroupId + 1)
        BY <1>1, <2>4, <3>2 DEF GroupInv, GroupTypeOK
      <4>2. h \in 1..MaxGroupId /\ h < nextGroupId
        BY <4>1, GroupFields DEF GroupInv, GroupTypeOK, GroupId
      <4>3. QED
        BY <4>1, <4>2, GroupAssumptions
    <3>3. QED
      BY <3>1, <3>2
  <2>5. QED
    BY <2>1, <2>3, <2>4 DEF GroupTypeOK
<1>3. MapsAgree'
  <2>1. ASSUME NEW x \in DOMAIN playerGroup'
        PROVE  playerGroup'[x] \in DOMAIN groups' /\ x \in groups'[playerGroup'[x]].members
    <3>1. CASE x \in rec.members
      BY <1>1, <3>1
    <3>2. CASE x \notin rec.members
      <4>1. x \in DOMAIN playerGroup /\ playerGroup[x] # g /\ playerGroup'[x] = playerGroup[x]
        BY <2>1, <3>2
      <4>2. QED
        BY <1>1, <4>1 DEF GroupInv, MapsAgree
    <3>3. QED
      BY <3>1, <3>2
  <2>2. ASSUME NEW h \in DOMAIN groups', NEW x \in groups'[h].members
        PROVE  x \in DOMAIN playerGroup' /\ playerGroup'[x] = h
    <3>1. CASE h = g
      BY <1>1, <2>2, <3>1
    <3>2. CASE h # g
      <4>1. x \in DOMAIN playerGroup /\ playerGroup[x] = h
        BY <1>1, <2>2, <3>2 DEF GroupInv, MapsAgree
      <4>2. x \notin rec.members
        BY <3>2, <4>1
      <4>3. QED
        BY <3>2, <4>1, <4>2
    <3>3. QED
      BY <3>1, <3>2
  <2>3. QED
    BY <2>1, <2>2 DEF MapsAgree
<1>4. ASSUME NEW h \in DOMAIN groups'
      PROVE  /\ groups'[h].leaderId \in groups'[h].members
             /\ Cardinality(groups'[h].members) \in 2..MAX_GROUP_SIZE
  <2>1. CASE h = g
    BY <1>1, <2>1
  <2>2. CASE h # g
    BY <1>1, <1>4, <2>2 DEF GroupInv, LeaderIsMember, SizeInBounds
  <2>3. QED
    BY <2>1, <2>2
<1>5. LeaderIsMember'
  BY <1>4 DEF LeaderIsMember
<1>6. SizeInBounds'
  BY <1>4 DEF SizeInBounds
<1>7. QED
  BY <1>2, <1>3, <1>5, <1>6 DEF GroupInv

\* Group g goes, and the entries of its members with it.
LEMMA DropGroup ==
    ASSUME GroupInv, NEW g \in DOMAIN groups,
           groups' = Without(groups, {g}),
           playerGroup' = Without(playerGroup, groups[g].members),
           nextGroupId' = nextGroupId
    PROVE  GroupInv'
<1>1. /\ DOMAIN groups' = DOMAIN groups \ {g}
      /\ \A h \in DOMAIN groups' : groups'[h] = groups[h]
      /\ DOMAIN playerGroup' = DOMAIN playerGroup \ groups[g].members
      /\ \A x \in DOMAIN playerGroup' : playerGroup'[x] = playerGroup[x]
  BY DEF Without
<1>2. GroupTypeOK'
  BY <1>1 DEF GroupInv, GroupTypeOK, IsMap, Without
<1>3. MapsAgree'
  <2>1. ASSUME NEW x \in DOMAIN playerGroup'
        PROVE  playerGroup'[x] \in DOMAIN groups' /\ x \in groups'[playerGroup'[x]].members
    <3>1. x \in groups[playerGroup[x]].members /\ playerGroup[x] \in DOMAIN groups
      BY <1>1, <2>1 DEF GroupInv, MapsAgree
    <3>2. playerGroup[x] # g
      BY <1>1, <2>1, <3>1
    <3>3. QED
      BY <1>1, <2>1, <3>1, <3>2
  <2>2. ASSUME NEW h \in DOMAIN groups', NEW x \in groups'[h].members
        PROVE  x \in DOMAIN playerGroup' /\ playerGroup'[x] = h
    <3>1. x \in DOMAIN playerGroup /\ playerGroup[x] = h /\ h # g
      BY <1>1, <2>2 DEF GroupInv, MapsAgree
    <3>2. x \notin groups[g].members
      BY <3>1 DEF GroupInv, MapsAgree
    <3>3. QED
      BY <1>1, <3>1, <3>2
  <2>3. QED
    BY <2>1, <2>2 DEF MapsAgree
<1>4. LeaderIsMember' /\ SizeInBounds'
  BY <1>1 DEF GroupInv, LeaderIsMember, SizeInBounds
<1>5. QED
  BY <1>2, <1>3, <1>4 DEF GroupInv

-----------------------------------------------------------------------------
(* One lemma per method.                                                   *)

LEMMA FormGroupStep ==
    ASSUME GroupInv, NEW p \in Player, NEW qs \in SUBSET (Player \ {p}),
           FormGroup(p, qs)
    PROVE  GroupInv'
<1> DEFINE ms  == {p} \cup Eligible(qs)
           rec == [leaderId |-> p, members |-> ms, lootSharing |-> FALSE]
<1>1. /\ Eligible(qs) \subseteq qs
      /\ \A x \in ms : x \notin DOMAIN playerGroup
  BY DEF Eligible, InGroup, FormGroup
<1>2. rec \in Group /\ rec.members = ms /\ rec.leaderId = p
  BY <1>1 DEF Group
<1>3. Cardinality(ms) \in 2..MAX_GROUP_SIZE
  <2>1. IsFiniteSet(Eligible(qs))
    BY <1>1, FS_Subset, GroupAssumptions
  <2>2. Cardinality(Eligible(qs)) \in Nat /\ Cardinality(Eligible(qs)) # 0
    BY <2>1, FS_CardinalityType, FS_EmptySet DEF FormGroup
  <2>3. ms = Eligible(qs) \cup {p} /\ p \notin Eligible(qs)
    BY <1>1
  <2>4. Cardinality(ms) = Cardinality(Eligible(qs)) + 1
    BY <2>1, <2>3, FS_AddElement
  <2>5. QED
    BY <2>2, <2>4, GroupAssumptions DEF FormGroup
<1>4. \A x \in DOMAIN playerGroup : playerGroup[x] # nextGroupId
  <2>1. ASSUME NEW x \in DOMAIN playerGroup
        PROVE  playerGroup[x] < nextGroupId /\ playerGroup[x] \in 1..MaxGroupId
    BY GroupFields DEF GroupInv, MapsAgree, GroupTypeOK, GroupId
  <2>2. QED
    BY <2>1 DEF FormGroup, GroupId
<1>5. playerGroup' =
        [x \in {y \in DOMAIN playerGroup : playerGroup[y] # nextGroupId} \cup rec.members |->
            IF x \in rec.members THEN nextGroupId ELSE playerGroup[x]]
  <2>1. {y \in DOMAIN playerGroup : playerGroup[y] # nextGroupId} = DOMAIN playerGroup
    BY <1>4
  <2>2. QED
    BY <2>1 DEF FormGroup
<1>6. /\ nextGroupId \in GroupId
      /\ groups' = Put(groups, nextGroupId, rec)
      /\ nextGroupId' = nextGroupId + 1
  BY DEF FormGroup
<1>7. /\ nextGroupId' \in 1..(MaxGroupId + 1)
      /\ nextGroupId <= nextGroupId' /\ nextGroupId < nextGroupId'
  BY <1>6, GroupAssumptions DEF GroupId
<1> HIDE DEF rec
<1>8. QED
  BY <1>1, <1>2, <1>3, <1>5, <1>6, <1>7, WriteGroup

\* A method that rewrites the record of a live group, keeping its id.
LEMMA RewriteGroup ==
    ASSUME GroupInv, NEW g \in DOMAIN groups, NEW rec \in Group,
           rec.leaderId \in rec.members,
           Cardinality(rec.members) \in 2..MAX_GROUP_SIZE,
           groups' = Put(groups, g, rec),
           playerGroup' =
                [x \in {y \in DOMAIN playerGroup : playerGroup[y] # g}
                            \cup rec.members |->
                    IF x \in rec.members THEN g ELSE playerGroup[x]],
           \A x \in rec.members \cap DOMAIN playerGroup : playerGroup[x] = g,
           nextGroupId' = nextGroupId
    PROVE  GroupInv'
<1>1. g \in GroupId /\ g < nextGroupId /\ nextGroupId \in 1..(MaxGroupId + 1)
  BY GroupFields DEF GroupInv, GroupTypeOK
<1>2. nextGroupId <= nextGroupId' /\ nextGroupId' \in 1..(MaxGroupId + 1)
  BY <1>1, GroupAssumptions
<1>3. QED
  BY <1>1, <1>2, WriteGroup

\* The entries that name a live group are those of its members.
LEMMA EntriesOf ==
    ASSUME GroupInv, NEW g \in DOMAIN groups
    PROVE  /\ groups[g].members \subseteq DOMAIN playerGroup
           /\ \A x \in DOMAIN playerGroup :
                playerGroup[x] = g <=> x \in groups[g].members
BY DEF GroupInv, MapsAgree

LEMMA AddMemberStep ==
    ASSUME GroupInv, NEW p \in Player, NEW q \in Player, AddMember(p, q)
    PROVE  GroupInv'
<1> DEFINE rec(g) == [groups[g] EXCEPT !.members = @ \cup {q}]
<1>1. PICK g \in DOMAIN groups :
        /\ q \notin DOMAIN playerGroup
        /\ Cardinality(groups[g].members) < MAX_GROUP_SIZE
        /\ groups' = Put(groups, g, rec(g))
        /\ playerGroup' = Put(playerGroup, q, g)
        /\ nextGroupId' = nextGroupId
  BY DEF AddMember, IsLeader, HasGroup, InGroup
<1>2. /\ groups[g] \in Group /\ IsFiniteSet(groups[g].members)
      /\ groups[g].leaderId \in groups[g].members
      /\ Cardinality(groups[g].members) \in 2..MAX_GROUP_SIZE
  BY GroupFields DEF GroupInv, LeaderIsMember, SizeInBounds
<1>3. /\ rec(g) \in Group
      /\ rec(g).members = groups[g].members \cup {q}
      /\ rec(g).leaderId \in rec(g).members
  BY <1>2 DEF Group
<1>4. Cardinality(rec(g).members) \in 2..MAX_GROUP_SIZE
  <2>1. q \notin groups[g].members
    BY <1>1, EntriesOf
  <2>2. Cardinality(rec(g).members) = Cardinality(groups[g].members) + 1
    BY <1>2, <1>3, <2>1, FS_AddElement
  <2>3. QED
    BY <1>1, <1>2, <2>2, GroupAssumptions
<1>5. /\ \A x \in rec(g).members \cap DOMAIN playerGroup : playerGroup[x] = g
      /\ playerGroup' =
            [x \in {y \in DOMAIN playerGroup : playerGroup[y] # g} \cup rec(g).members |->
                IF x \in rec(g).members THEN g ELSE playerGroup[x]]
  <2> HIDE DEF rec
  <2>1. \A x \in rec(g).members \cap DOMAIN playerGroup : playerGroup[x] = g
    BY <1>1, <1>3, EntriesOf
  <2>2. {y \in DOMAIN playerGroup : playerGroup[y] # g} \cup rec(g).members
            = DOMAIN playerGroup \cup {q}
    BY <1>1, <1>3, EntriesOf
  <2>3. \A x \in DOMAIN playerGroup \cup {q} :
            (IF x = q THEN g ELSE playerGroup[x])
                = (IF x \in rec(g).members THEN g ELSE playerGroup[x])
    BY <1>1, <1>3, EntriesOf
  <2>4. QED
    BY <1>1, <2>1, <2>2, <2>3 DEF Put
<1> HIDE DEF rec
<1>6. QED
  BY <1>1, <1>3, <1>4, <1>5, RewriteGroup

LEMMA TakeOutStep ==
    ASSUME GroupInv, NEW g \in DOMAIN groups, NEW p \in groups[g].members,
           p # groups[g].leaderId, TakeOut(g, p)
    PROVE  GroupInv'
<1> DEFINE rest == groups[g].members \ {p}
           rec  == [groups[g] EXCEPT !.members = rest]
<1>1. /\ groups[g] \in Group /\ IsFiniteSet(groups[g].members)
      /\ groups[g].leaderId \in rest
      /\ Cardinality(groups[g].members) \in 2..MAX_GROUP_SIZE
  BY GroupFields DEF GroupInv, LeaderIsMember, SizeInBounds
<1>2. CASE Cardinality(rest) <= 1
  <2>1. {p} \cup rest = groups[g].members
    OBVIOUS
  <2>2. /\ groups' = Without(groups, {g})
        /\ playerGroup' = Without(playerGroup, groups[g].members)
        /\ nextGroupId' = nextGroupId
    BY <1>2, <2>1 DEF TakeOut
  <2>3. QED
    BY <2>2, DropGroup
<1>3. CASE ~(Cardinality(rest) <= 1)
  <2>1. rec \in Group /\ rec.members = rest /\ rec.leaderId \in rec.members
    BY <1>1 DEF Group
  <2>2. Cardinality(rest) \in 2..MAX_GROUP_SIZE
    <3>1. IsFiniteSet(rest) /\ Cardinality(rest) = Cardinality(groups[g].members) - 1
      BY <1>1, FS_RemoveElement
    <3>2. QED
      BY <1>1, <1>3, <3>1, GroupAssumptions
  <2>3. /\ groups' = Put(groups, g, rec)
        /\ playerGroup' = Without(playerGroup, {p})
        /\ nextGroupId' = nextGroupId
    BY <1>3 DEF TakeOut
  <2>4. \A x \in rest : x \in DOMAIN playerGroup /\ playerGroup[x] = g
    BY EntriesOf
  <2>5. {y \in DOMAIN playerGroup : playerGroup[y] # g} \cup rest
            = DOMAIN playerGroup \ {p}
    BY EntriesOf
  <2>6. \A x \in DOMAIN playerGroup \ {p} :
            playerGroup[x] = (IF x \in rest THEN g ELSE playerGroup[x])
    BY <2>4
  <2>7. playerGroup' =
            [x \in {y \in DOMAIN playerGroup : playerGroup[y] # g} \cup rest |->
                IF x \in rest THEN g ELSE playerGroup[x]]
    BY <2>3, <2>5, <2>6 DEF Without
  <2> HIDE DEF rec
  <2>8. QED
    BY <2>1, <2>2, <2>3, <2>4, <2>7, RewriteGroup
<1>4. QED
  BY <1>2, <1>3

\* Leadership and loot sharing change the record and no entry.
LEMMA SameMembersStep ==
    ASSUME GroupInv, NEW g \in DOMAIN groups, NEW rec \in Group,
           rec.members = groups[g].members, rec.leaderId \in rec.members,
           groups' = Put(groups, g, rec),
           UNCHANGED <<playerGroup, nextGroupId>>
    PROVE  GroupInv'
<1>1. Cardinality(rec.members) \in 2..MAX_GROUP_SIZE
  BY DEF GroupInv, SizeInBounds
<1>2. \A x \in rec.members \cap DOMAIN playerGroup : playerGroup[x] = g
  BY EntriesOf
<1>3. {y \in DOMAIN playerGroup : playerGroup[y] # g} \cup rec.members = DOMAIN playerGroup
  BY EntriesOf
<1>4. playerGroup = [x \in DOMAIN playerGroup |->
                        IF x \in rec.members THEN g ELSE playerGroup[x]]
  <2>1. playerGroup = [x \in DOMAIN playerGroup |-> playerGroup[x]]
    BY DEF GroupInv, GroupTypeOK, IsMap
  <2>2. QED
    BY <1>2, <2>1
<1>5. QED
  BY <1>1, <1>2, <1>3, <1>4, RewriteGroup

\* Writing the sharing flag keeps the other fields, whatever set of values the
\* flag is drawn from.
LEMMA SharingField ==
    ASSUME NEW L, NEW M, NEW S, NEW b \in S,
           NEW r \in [leaderId : L, members : M, lootSharing : S]
    PROVE  /\ [r EXCEPT !.lootSharing = b] \in [leaderId : L, members : M, lootSharing : S]
           /\ [r EXCEPT !.lootSharing = b].members = r.members
           /\ [r EXCEPT !.lootSharing = b].leaderId = r.leaderId
OBVIOUS

-----------------------------------------------------------------------------

\* A new GroupManager satisfies the invariant.
LEMMA GroupInitially ==
    ASSUME GroupInit
    PROVE  GroupInv
<1>1. /\ IsMap(groups, GroupId, Group) /\ DOMAIN groups = {}
      /\ IsMap(playerGroup, Player, GroupId) /\ DOMAIN playerGroup = {}
  BY DEF GroupInit, IsMap, EmptyMap
<1>2. nextGroupId \in 1..(MaxGroupId + 1)
  BY GroupAssumptions DEF GroupInit
<1>3. QED
  BY <1>1, <1>2 DEF GroupInv, GroupTypeOK, MapsAgree, LeaderIsMember, SizeInBounds

\* Every call preserves the invariant.
LEMMA GroupStep ==
    ASSUME GroupInv, [GroupNext]_groupVars
    PROVE  GroupInv'
<1>1. ASSUME NEW p \in Player, NEW qs \in SUBSET (Player \ {p}), FormGroup(p, qs)
      PROVE  GroupInv'
  BY <1>1, FormGroupStep
<1>2. ASSUME NEW p \in Player, NEW q \in Player, AddMember(p, q)
      PROVE  GroupInv'
  BY <1>2, AddMemberStep
<1>3. ASSUME NEW p \in Player, NEW q \in Player, RemoveMember(p, q)
      PROVE  GroupInv'
  <2>1. /\ playerGroup[p] \in DOMAIN groups
        /\ q \in groups[playerGroup[p]].members
        /\ q # groups[playerGroup[p]].leaderId
        /\ TakeOut(playerGroup[p], q)
    BY <1>3 DEF RemoveMember, IsLeader, HasGroup, GroupOf
  <2>2. QED
    BY <2>1, TakeOutStep
<1>4. ASSUME NEW g \in GroupId, DisbandGroup(g)
      PROVE  GroupInv'
  BY <1>4, DropGroup DEF DisbandGroup, Disband
<1>5. ASSUME NEW p \in Player, NEW q \in Player, TransferLeadership(p, q)
      PROVE  GroupInv'
  <2>1. PICK g \in DOMAIN groups :
          /\ q \in groups[g].members
          /\ groups' = Put(groups, g, [groups[g] EXCEPT !.leaderId = q])
          /\ UNCHANGED <<playerGroup, nextGroupId>>
    BY <1>5 DEF TransferLeadership, IsLeader, HasGroup, GroupOf
  <2>2. groups[g] \in Group
    BY GroupFields DEF GroupInv
  <2>3. PICK rec \in Group :
          /\ rec = [groups[g] EXCEPT !.leaderId = q]
          /\ rec.members = groups[g].members /\ rec.leaderId \in rec.members
    BY <2>1, <2>2 DEF Group
  <2>4. QED
    BY <2>1, <2>3, SameMembersStep
<1>6. ASSUME NEW p \in Player, NEW b \in BOOLEAN, SetLootSharing(p, b)
      PROVE  GroupInv'
  <2>1. PICK g \in DOMAIN groups :
          /\ groups' = Put(groups, g, [groups[g] EXCEPT !.lootSharing = b])
          /\ UNCHANGED <<playerGroup, nextGroupId>>
    BY <1>6 DEF SetLootSharing, IsLeader, HasGroup, GroupOf
  <2>2. groups[g] \in Group /\ groups[g].leaderId \in groups[g].members
    BY GroupFields DEF GroupInv, LeaderIsMember
  <2> DEFINE rec == [groups[g] EXCEPT !.lootSharing = b]
  <2>3. rec \in Group /\ rec.members = groups[g].members /\ rec.leaderId \in rec.members
    BY <2>2, SharingField DEF Group
  <2>4. groups' = Put(groups, g, rec)
    BY <2>1
  <2> HIDE DEF rec
  <2>5. QED
    BY <2>1, <2>3, <2>4, SameMembersStep
<1>7. ASSUME NEW p \in Player, HandlePlayerLeave(p)
      PROVE  GroupInv'
  <2>1. InGroup(p) => HasGroup(p) /\ p \in GroupOf(p).members
    BY DEF InGroup, HasGroup, GroupOf, GroupInv, MapsAgree
  <2>2. CASE /\ ~HasGroup(p)
             /\ playerGroup' = Without(playerGroup, {p})
             /\ UNCHANGED <<groups, nextGroupId>>
    <3>1. p \notin DOMAIN playerGroup
      BY <2>1, <2>2 DEF InGroup
    <3>2. playerGroup' = playerGroup
      BY <2>2, <3>1, WithoutAbsent DEF GroupInv, GroupTypeOK
    <3>3. QED
      BY <2>2, <3>2 DEF GroupInv, GroupTypeOK, MapsAgree, LeaderIsMember, SizeInBounds
  <2>3. CASE IsLeader(p) /\ Disband(playerGroup[p])
    BY <2>3, DropGroup DEF Disband, IsLeader, HasGroup
  <2>4. CASE HasGroup(p) /\ ~IsLeader(p) /\ TakeOut(playerGroup[p], p)
    <3>1. /\ playerGroup[p] \in DOMAIN groups
          /\ p \in groups[playerGroup[p]].members
          /\ p # groups[playerGroup[p]].leaderId
      BY <2>1, <2>4 DEF IsLeader, HasGroup, GroupOf
    <3>2. QED
      BY <2>4, <3>1, TakeOutStep
  <2>5. QED
    BY <1>7, <2>1, <2>2, <2>3, <2>4 DEF HandlePlayerLeave
<1>8. CASE UNCHANGED groupVars
  BY <1>8 DEF groupVars, GroupInv, GroupTypeOK, MapsAgree, LeaderIsMember, SizeInBounds
<1>9. QED
  BY <1>1, <1>2, <1>3, <1>4, <1>5, <1>6, <1>7, <1>8 DEF GroupNext

\* The two maps agree, every leader is a member and every group is neither a
\* lone player nor too large, in every reachable state.
THEOREM GroupInvariance == GroupSpec => []GroupInv
<1>1. GroupInit => GroupInv
  BY GroupInitially
<1>2. GroupInv /\ [GroupNext]_groupVars => GroupInv'
  BY GroupStep
<1>3. QED
  BY <1>1, <1>2, PTL DEF GroupSpec

\* A player's entry and the member lists never contradict each other.
THEOREM MapsAlwaysAgree == GroupSpec => []MapsAgree
BY GroupInvariance, PTL DEF GroupInv

\* Every leader is a member of the group it leads.
THEOREM LeadersAreMembers == GroupSpec => []LeaderIsMember
BY GroupInvariance, PTL DEF GroupInv

\* No group of one and no group beyond MAX_GROUP_SIZE.
THEOREM SizesInBounds == GroupSpec => []SizeInBounds
BY GroupInvariance, PTL DEF GroupInv

\* No call moves a player straight from one group into another.
THEOREM NobodyIsPoached == GroupSpec => NoPoaching
<1>1. ASSUME GroupNext PROVE NoPoachingStep
  <2>1. ASSUME NEW p \in Player, NEW qs \in SUBSET (Player \ {p}), FormGroup(p, qs)
        PROVE  NoPoachingStep
    BY <2>1 DEF FormGroup, Eligible, InGroup, NoPoachingStep
  <2>2. ASSUME NEW p \in Player, NEW q \in Player, AddMember(p, q)
        PROVE  NoPoachingStep
    BY <2>2 DEF AddMember, InGroup, Put, NoPoachingStep
  <2>3. ASSUME NEW ks, playerGroup' = Without(playerGroup, ks)
        PROVE  NoPoachingStep
    BY <2>3 DEF Without, NoPoachingStep
  <2>4. ASSUME NEW g, NEW p, TakeOut(g, p)
        PROVE  NoPoachingStep
    BY <2>3, <2>4 DEF TakeOut
  <2>5. ASSUME NEW p \in Player, HandlePlayerLeave(p)
        PROVE  NoPoachingStep
    BY <2>3, <2>4, <2>5 DEF HandlePlayerLeave, Disband, NoPoachingStep, groupVars
  <2>6. QED
    BY <1>1, <2>1, <2>2, <2>3, <2>4, <2>5
    DEF GroupNext, RemoveMember, DisbandGroup, Disband, TransferLeadership,
        SetLootSharing, NoPoachingStep
<1>2. QED
  BY <1>1, PTL DEF GroupSpec, NoPoaching

-----------------------------------------------------------------------------
(* The room *)

\* No player is its own follower.
Irreflexive == \A p \in Player : p \notin followers[p]

SocialTypeOK ==
    /\ online \subseteq Player
    /\ followers \in [Player -> SUBSET Player]

CompanionsInv ==
    /\ GroupInv
    /\ SocialTypeOK
    /\ Irreflexive
    /\ TiesAreOnline
    /\ MembersAreOnline

\* Every handler calls the GroupManager at most once, as it may be called.
LEMMA StepDrivesGroups ==
    ASSUME CompanionsInv, [Next]_vars
    PROVE  [GroupNext]_groupVars
<1>1. ASSUME NEW p \in Player, CleanupGroup(p)
      PROVE  GroupNext
  BY <1>1 DEF CleanupGroup, GroupNext
<1>2. ASSUME NEW p \in Player, GroupForm(p)
      PROVE  GroupNext
  <2>1. followers[p] \cap online \in SUBSET (Player \ {p})
    BY DEF CompanionsInv, SocialTypeOK, Irreflexive
  <2>2. QED
    BY <1>2, <2>1 DEF GroupForm, GroupNext
<1>3. ASSUME NEW p \in Player, GroupDisband(p)
      PROVE  GroupNext
  <2>1. playerGroup[p] \in DOMAIN groups /\ Disband(playerGroup[p])
    BY <1>3 DEF GroupDisband, IsLeader, HasGroup
  <2>2. playerGroup[p] \in GroupId
    BY <2>1, GroupFields DEF CompanionsInv, GroupInv
  <2>3. QED
    BY <2>1, <2>2 DEF DisbandGroup, GroupNext
<1>4. ASSUME NEW p \in Player, NEW q \in Player,
             \/ GroupAdd(p, q) \/ GroupRemove(p, q)
             \/ GroupLeave(p) \/ GroupLeader(p, q)
      PROVE  GroupNext
  BY <1>4 DEF GroupAdd, GroupRemove, GroupLeave, GroupLeader, GroupNext
<1>5. ASSUME NEW p \in Player, NEW b \in BOOLEAN, GroupShare(p, b)
      PROVE  GroupNext
  BY <1>5 DEF GroupShare, GroupNext
<1>6. ASSUME NEW p \in Player, NEW q \in Player,
             \/ Join(p) \/ Refresh(p) \/ Follow(p, q) \/ Unfollow(p)
             \/ Consent(p, q) \/ Unconsent(p, q)
      PROVE  UNCHANGED groupVars
  BY <1>6 DEF Join, Refresh, Follow, Unfollow, Consent, Unconsent, groupVars
<1>7. ASSUME NEW p \in Player, StartDeath(p) \/ Leave(p)
      PROVE  GroupNext
  BY <1>1, <1>7 DEF StartDeath, Leave
<1>8. CASE UNCHANGED vars
  BY <1>8 DEF vars, groupVars
<1>9. CASE Next
  BY <1>9, <1>2, <1>3, <1>4, <1>5, <1>6, <1>7 DEF Next
<1>10. QED
  BY <1>8, <1>9

-----------------------------------------------------------------------------
(* Who is in a group after a call                                          *)

\* After handlePlayerLeave the player is in no group, and nobody new is.
LEMMA LeftNoGroup ==
    ASSUME GroupInv, NEW p \in Player, HandlePlayerLeave(p)
    PROVE  DOMAIN playerGroup' \subseteq DOMAIN playerGroup \ {p}
<1>1. CASE playerGroup' = Without(playerGroup, {p})
  BY <1>1 DEF Without
<1>2. CASE IsLeader(p) /\ Disband(playerGroup[p])
  <2>1. p \in groups[playerGroup[p]].members
    BY <1>2 DEF IsLeader, HasGroup, GroupOf, GroupInv, LeaderIsMember
  <2>2. QED
    BY <1>2, <2>1 DEF Disband, Without
<1>3. CASE TakeOut(playerGroup[p], p)
  BY <1>3 DEF TakeOut, Without
<1>4. QED
  BY <1>1, <1>2, <1>3 DEF HandlePlayerLeave

\* Nobody but the candidates, the leader and the player added gets in.
LEMMA NobodyAbsentJoins ==
    ASSUME CompanionsInv, Next, online' = online
    PROVE  DOMAIN playerGroup' \subseteq online
<1>1. DOMAIN playerGroup \subseteq online
  BY DEF CompanionsInv, MembersAreOnline
<1>2. ASSUME NEW p \in Player, GroupForm(p)
      PROVE  DOMAIN playerGroup' \subseteq online
  BY <1>1, <1>2 DEF GroupForm, FormGroup, Eligible
<1>3. ASSUME NEW p \in Player, NEW q \in Player, GroupAdd(p, q)
      PROVE  DOMAIN playerGroup' \subseteq online
  BY <1>1, <1>3 DEF GroupAdd, AddMember, Put
<1>4. ASSUME NEW ks, playerGroup' = Without(playerGroup, ks)
      PROVE  DOMAIN playerGroup' \subseteq online
  BY <1>1, <1>4 DEF Without
<1>5. ASSUME NEW p \in Player, NEW q \in Player,
             GroupRemove(p, q) \/ GroupLeave(p) \/ GroupDisband(p)
      PROVE  DOMAIN playerGroup' \subseteq online
  BY <1>4, <1>5
  DEF GroupRemove, GroupLeave, GroupDisband, RemoveMember, TakeOut, Disband
<1>6. ASSUME NEW p \in Player, StartDeath(p)
      PROVE  DOMAIN playerGroup' \subseteq online
  BY <1>1, <1>6, LeftNoGroup DEF StartDeath, CleanupGroup, CompanionsInv
<1>7. ASSUME NEW p \in Player, Leave(p)
      PROVE  DOMAIN playerGroup' \subseteq online
  BY <1>1, <1>7, LeftNoGroup DEF Leave, CleanupGroup, CompanionsInv
<1>8. ASSUME playerGroup' = playerGroup
      PROVE  DOMAIN playerGroup' \subseteq online
  BY <1>1, <1>8
<1>9. QED
  BY <1>2, <1>3, <1>5, <1>6, <1>7, <1>8
  DEF Next, Join, Refresh, Follow, Unfollow, Consent, Unconsent, GroupLeader,
      GroupShare, TransferLeadership, SetLootSharing, groupVars

-----------------------------------------------------------------------------
(* Who follows whom after a step                                           *)

\* The ties stay among the online when followers are only taken away and the
\* players themselves stay.
LEMMA FewerTies ==
    ASSUME CompanionsInv, online \subseteq online', online' \subseteq Player,
           followers' \in [Player -> SUBSET Player],
           \A q \in Player : followers'[q] \subseteq followers[q],
           NEW ks, following' = Without(following, ks)
    PROVE  (SocialTypeOK /\ Irreflexive /\ TiesAreOnline)'
BY DEF CompanionsInv, SocialTypeOK, Irreflexive, TiesAreOnline, Without

\* The same with everything about followers as it was.
LEMMA SameTies ==
    ASSUME CompanionsInv, UNCHANGED <<online, following, followers>>
    PROVE  (SocialTypeOK /\ Irreflexive /\ TiesAreOnline)'
BY DEF CompanionsInv, SocialTypeOK, Irreflexive, TiesAreOnline

LEMMA StepKeepsTies ==
    ASSUME CompanionsInv, [Next]_vars
    PROVE  (SocialTypeOK /\ Irreflexive /\ TiesAreOnline)'
<1> USE DEF SocialTypeOK
<1>1. online \subseteq Player /\ followers \in [Player -> SUBSET Player]
  BY DEF CompanionsInv
<1>2. ASSUME NEW p \in Player, Join(p) \/ Refresh(p)
      PROVE  (SocialTypeOK /\ Irreflexive /\ TiesAreOnline)'
  <2>1. following' = Without(following, {p}) /\ followers' = [followers EXCEPT ![p] = {}]
    BY <1>2 DEF Join, Refresh, FreshState
  <2>2. online \subseteq online' /\ online' \subseteq Player
    BY <1>1, <1>2 DEF Join, Refresh
  <2>3. /\ followers' \in [Player -> SUBSET Player]
        /\ \A q \in Player : followers'[q] \subseteq followers[q]
    BY <1>1, <2>1
  <2>4. QED
    BY <2>1, <2>2, <2>3, FewerTies
<1>3. ASSUME NEW p \in Player, StartDeath(p)
      PROVE  (SocialTypeOK /\ Irreflexive /\ TiesAreOnline)'
  <2>1. /\ online' = online
        /\ followers' = [q \in Player |-> followers[q] \ {p}]
        /\ following' = Without(following, {q \in DOMAIN following : following[q] = p})
    BY <1>3 DEF StartDeath, CleanupFollow, Unled
  <2>2. /\ followers' \in [Player -> SUBSET Player]
        /\ \A q \in Player : followers'[q] \subseteq followers[q]
    BY <1>1, <2>1
  <2>3. QED
    BY <1>1, <2>1, <2>2, FewerTies
<1>4. ASSUME NEW p \in Player, Leave(p)
      PROVE  (SocialTypeOK /\ Irreflexive /\ TiesAreOnline)'
  <2>1. /\ online' = online \ {p}
        /\ followers' = [q \in Player |-> IF q = p THEN {} ELSE followers[q] \ {p}]
    BY <1>4 DEF Leave
  <2>2. \A q \in DOMAIN following' :
           /\ q \in DOMAIN following \ {p}
           /\ following'[q] = following[q]
           /\ following[q] # p
    BY <1>4 DEF Leave, Unled, Without
  <2>3. (SocialTypeOK /\ Irreflexive)'
    BY <1>1, <2>1 DEF Irreflexive, CompanionsInv
  <2>4. TiesAreOnline'
    BY <1>1, <2>1, <2>2 DEF TiesAreOnline, CompanionsInv
  <2>5. QED
    BY <2>3, <2>4
<1>5. ASSUME NEW p \in Player, NEW leader \in Player, Follow(p, leader)
      PROVE  (SocialTypeOK /\ Irreflexive /\ TiesAreOnline)'
  <2>1. /\ online' = online /\ {p, leader} \subseteq online /\ p # leader
        /\ followers' = [followers EXCEPT ![leader] = @ \cup {p}]
        /\ following' = Put(following, p, leader)
    BY <1>5 DEF Follow
  <2>2. (SocialTypeOK /\ Irreflexive)'
    BY <1>1, <2>1 DEF Irreflexive, CompanionsInv
  <2>3. \A q \in DOMAIN following' : {q, following'[q]} \subseteq online
    BY <2>1 DEF Put, TiesAreOnline, CompanionsInv
  <2>4. QED
    BY <1>1, <2>1, <2>2, <2>3 DEF TiesAreOnline, CompanionsInv
<1>6. ASSUME NEW p \in Player, Unfollow(p)
      PROVE  (SocialTypeOK /\ Irreflexive /\ TiesAreOnline)'
  <2>1. /\ online' = online
        /\ followers' = [followers EXCEPT ![following[p]] = @ \ {p}]
        /\ following' = Without(following, {p})
    BY <1>6 DEF Unfollow
  <2>2. /\ followers' \in [Player -> SUBSET Player]
        /\ \A q \in Player : followers'[q] \subseteq followers[q]
    BY <1>1, <2>1
  <2>3. QED
    BY <1>1, <2>1, <2>2, FewerTies
<1>7. CASE UNCHANGED <<online, following, followers>>
  BY <1>7, SameTies
<1>8. QED
  BY <1>2, <1>3, <1>4, <1>5, <1>6, <1>7
  DEF Next, vars, socialVars, Consent, Unconsent, GroupForm, GroupAdd,
      GroupRemove, GroupLeave, GroupDisband, GroupLeader, GroupShare

-----------------------------------------------------------------------------

\* Group membership, follower sets and the players online fit together in
\* every reachable state.
THEOREM CompanionsInvariance == Spec => []CompanionsInv
<1>1. Init => CompanionsInv
  <2> SUFFICES ASSUME Init PROVE CompanionsInv
    OBVIOUS
  <2>1. GroupInv
    BY GroupInitially DEF Init
  <2>2. DOMAIN playerGroup = {} /\ DOMAIN following = {}
    BY DEF Init, GroupInit, EmptyMap
  <2>3. QED
    BY <2>1, <2>2
    DEF Init, CompanionsInv, SocialTypeOK, Irreflexive, TiesAreOnline, MembersAreOnline
<1>2. CompanionsInv /\ [Next]_vars => CompanionsInv'
  <2> SUFFICES ASSUME CompanionsInv, [Next]_vars PROVE CompanionsInv'
    OBVIOUS
  <2>1. GroupInv'
    BY StepDrivesGroups, GroupStep DEF CompanionsInv
  <2>2. (SocialTypeOK /\ Irreflexive /\ TiesAreOnline)'
    BY StepKeepsTies
  <2>3. MembersAreOnline'
    <3>1. ASSUME NEW p \in Player, Leave(p)
          PROVE  MembersAreOnline'
      BY <3>1, LeftNoGroup
      DEF Leave, CleanupGroup, CompanionsInv, MembersAreOnline
    <3>2. ASSUME NEW p \in Player, Join(p)
          PROVE  MembersAreOnline'
      BY <3>2 DEF Join, groupVars, CompanionsInv, MembersAreOnline
    <3>3. CASE Next /\ online' = online
      BY <3>3, NobodyAbsentJoins DEF MembersAreOnline
    <3>4. CASE UNCHANGED vars
      BY <3>4 DEF vars, CompanionsInv, MembersAreOnline
    <3>5. Next => \/ online' = online
                  \/ \E p \in Player : Join(p) \/ Leave(p)
      BY DEF Next, socialVars, Refresh, StartDeath, Follow, Unfollow, Consent,
             Unconsent, GroupForm, GroupAdd, GroupRemove, GroupLeave,
             GroupDisband, GroupLeader, GroupShare
    <3>6. QED
      BY <3>1, <3>2, <3>3, <3>4, <3>5
  <2>4. QED
    BY <2>1, <2>2, <2>3 DEF CompanionsInv
<1>3. QED
  BY <1>1, <1>2, PTL DEF Spec

\* The room implements GroupSpec: whatever joins, refreshes, deaths and
\* departures do, the GroupManager sees a sequence of its own operations.
THEOREM RoomImplementsGroups == Spec => DrivesGroupManager
<1>1. Init => GroupInit
  BY DEF Init
<1>2. CompanionsInv /\ [Next]_vars => [GroupNext]_groupVars
  BY StepDrivesGroups
<1>3. QED
  BY <1>1, <1>2, CompanionsInvariance, PTL DEF Spec, DrivesGroupManager, GroupSpec

\* No group has an absent member.
THEOREM MembersAlwaysOnline == Spec => []MembersAreOnline
BY CompanionsInvariance, PTL DEF CompanionsInv

\* No follow relation has an absent end.
THEOREM TiesAlwaysOnline == Spec => []TiesAreOnline
BY CompanionsInvariance, PTL DEF CompanionsInv
=============================================================================
