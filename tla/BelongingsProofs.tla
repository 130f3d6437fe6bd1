-------------------------- MODULE BelongingsProofs --------------------------
(***************************************************************************)
(* What a ZoneRoom keeps to with the belongings of its players, and what   *)
(* two of them and the pages between them do, for any number of players,   *)
(* sessions and kinds of items.                                            *)
(*                                                                         *)
(* That a departure has saved what it removes is not inductive: between    *)
(* the save and the removal nothing may reach the pack or the stored       *)
(* inventory any more, neither a command, nor a hydration, nor a save that *)
(* was due.  That a page which waits is in one zone at a time rests on     *)
(* what its room does meanwhile: a player still there is being seen off.   *)
(***************************************************************************)
EXTENDS Handoff, TLAPS

\* Of a player's departures the latest session's is the last, and what it
\* awaits is the hydration of a session that is no older than its own.
SessionsInOrder ==
    \A t \in leaves :
        /\ t.session <= sessions[t.who]
        /\ t.stage = "hydrating" =>
               t.session <= t.awaited /\ t.awaited <= sessions[t.who]

\* While the latest session is leaving nobody commands the player.
LatestIsGone == \A t \in leaves : ~Displaced(t) => t.who \notin connected

\* A session leaves once.
OneEach ==
    \A t, u \in leaves : t.who = u.who /\ t.session = u.session => t = u

\* A departure that is past the hydration has none left to wait for.
LatestHydrated ==
    \A t \in leaves :
        ~Displaced(t) /\ t.stage \in {"saving", "removing"} => t.who \notin Hydrating

\* What p has on it is what is stored, as far as the store had its way.
SavedAs(p) == p \notin unstored => players[p].pack = Stored(p)

\* What has been saved stays as it is: no save is due that could replace it.
LatestSaved ==
    \A t \in leaves :
        ~Displaced(t) /\ t.stage = "removing" /\ t.who \in Present =>
            t.who \notin DOMAIN inventorySaveTimers /\ SavedAs(t.who)

Departures ==
    /\ SessionsInOrder
    /\ LatestIsGone
    /\ OneEach
    /\ LatestHydrated
    /\ LatestSaved

BelongingsInv == RoomTypeOK /\ Departures

-----------------------------------------------------------------------------
(* Bags                                                                    *)

\* The bags of no item and of one.
LEMMA SmallBags == NoItems \in Bag /\ \A k \in Kind : One(k) \in Bag
BY DEF NoItems, One, Bag

\* Putting bags together makes a bag.
LEMMA PlusType ==
    ASSUME NEW a \in Bag, NEW b \in Bag
    PROVE  Plus(a, b) \in Bag
BY DEF Plus, Bag

\* Taking out an item that is there leaves a bag.
LEMMA MinusType ==
    ASSUME NEW a \in Bag, NEW k \in Kind, a[k] > 0
    PROVE  Minus(a, One(k)) \in Bag
BY DEF Minus, One, NoItems, Bag

\* A part of a bag is a bag.
LEMMA OnlyType ==
    ASSUME NEW a \in Bag, NEW ks
    PROVE  Only(a, ks) \in Bag
BY DEF Only, Bag

\* What is got out of a bag is a bag.
LEMMA GotType ==
    ASSUME NEW a, NEW got \in BagsIn(a)
    PROVE  got \in Bag
<1> DEFINE most == CHOOSE m : BagsIn(a) = [Kind -> 0..m]
<1>1. \E m : BagsIn(a) = [Kind -> 0..m]
  BY DEF BagsIn
<1>2. BagsIn(a) = [Kind -> 0..most]
  BY <1>1
<1> HIDE DEF most
<1>3. got \in [Kind -> 0..most]
  BY <1>2
<1>4. QED
  BY <1>3 DEF Bag

-----------------------------------------------------------------------------
(* Types                                                                   *)

\* What a PlayerState is made of.
LEMMA StateFields ==
    ASSUME RoomTypeOK, NEW p \in Present
    PROVE  /\ p \in Player
           /\ players[p] \in PlayerState
           /\ players[p].pack \in Bag
           /\ players[p].worn \in Kind \cup {Nothing}
           /\ players[p] = [pack |-> players[p].pack, worn |-> players[p].worn]
BY DEF RoomTypeOK, IsMap, Present, PlayerState

\* Replacing a PlayerState by another keeps the map.
LEMMA StateReplaced ==
    ASSUME RoomTypeOK, NEW p \in Present, NEW s \in PlayerState,
           players' = [players EXCEPT ![p] = s]
    PROVE  /\ IsMap(players, Player, PlayerState)'
           /\ Present' = Present
           /\ players'[p] = s
           /\ \A q \in Present : q # p => players'[q] = players[q]
BY DEF RoomTypeOK, IsMap, Present

\* So does replacing its pack.
LEMMA PackReplaced ==
    ASSUME RoomTypeOK, NEW p \in Present, NEW b \in Bag,
           players' = [players EXCEPT ![p].pack = b]
    PROVE  /\ IsMap(players, Player, PlayerState)'
           /\ Present' = Present
           /\ players'[p].pack = b
           /\ \A q \in Present : q # p => players'[q] = players[q]
<1> DEFINE s == [players[p] EXCEPT !.pack = b]
<1>1. players' = [players EXCEPT ![p] = s]
  OBVIOUS
<1>2. players[p] \in [pack : Bag, worn : Kind \cup {Nothing}]
  BY StateFields DEF PlayerState
<1>3. s \in [pack : Bag, worn : Kind \cup {Nothing}] /\ s.pack = b
  BY <1>2
<1> HIDE DEF s
<1>4. s \in PlayerState
  BY <1>3 DEF PlayerState
<1>5. QED
  BY <1>1, <1>3, <1>4, StateReplaced

\* A save that is left with a PlayerState of the past.
LEMMA OutdatedType ==
    ASSUME RoomTypeOK, NEW p \in Present
    PROVE  /\ IsMap(Outdated(p), Player, SaveTimer)
           /\ DOMAIN Outdated(p) = DOMAIN inventorySaveTimers
<1>1. players[p].pack \in Bag
  BY StateFields
<1>2. [former |-> TRUE, pack |-> players[p].pack] \in SaveTimer
  BY <1>1 DEF SaveTimer
<1>3. QED
  BY <1>2 DEF Outdated, RoomTypeOK, IsMap

\* Saving.
LEMMA SaveType ==
    ASSUME RoomTypeOK, NEW p \in Player, NEW b \in Bag, SavePlayerInventory(p, b)
    PROVE  /\ IsMap(inventorySaveTimers, Player, SaveTimer)'
           /\ DOMAIN inventorySaveTimers' = DOMAIN inventorySaveTimers \ {p}
           /\ inventoryRepo' \in [Account -> Bag]
           /\ unstored' \subseteq Player
           /\ p \notin unstored' => Stored(p)' = b
           /\ \A q \in Player : q # p /\ q \notin unstored' =>
                  q \notin unstored /\ Stored(q)' = Stored(q)
<1>1. Owner \in [Player -> Account]
  BY BelongingsAssumptions
<1>2. /\ IsMap(inventorySaveTimers, Player, SaveTimer)'
      /\ DOMAIN inventorySaveTimers' = DOMAIN inventorySaveTimers \ {p}
  BY DEF SavePlayerInventory, RoomTypeOK, IsMap, Without
<1>3. CASE /\ inventoryRepo' = [inventoryRepo EXCEPT ![Owner[p]] = b]
           /\ unstored' = (unstored \ {p}) \cup Siblings(p)
  <2>1. inventoryRepo' \in [Account -> Bag] /\ unstored' \subseteq Player
    BY <1>1, <1>3 DEF RoomTypeOK, Siblings
  <2>2. Stored(p)' = b
    BY <1>1, <1>3 DEF RoomTypeOK, Stored
  <2>3. ASSUME NEW q \in Player, q # p, q \notin unstored'
        PROVE  q \notin unstored /\ Stored(q)' = Stored(q)
    BY <1>1, <1>3, <2>3 DEF RoomTypeOK, Stored, Siblings
  <2>4. QED
    BY <1>2, <2>1, <2>2, <2>3
<1>4. CASE unstored' = unstored \cup {p} /\ UNCHANGED inventoryRepo
  BY <1>2, <1>4 DEF RoomTypeOK, Stored
<1>5. QED
  BY <1>3, <1>4 DEF SavePlayerInventory

\* Removing a player.
LEMMA RemoveType ==
    ASSUME RoomTypeOK, NEW p \in Player, Remove(p)
    PROVE  /\ IsMap(players, Player, PlayerState)'
           /\ IsMap(joinHydrationTasks, Present, {"kit", "load"})'
           /\ IsMap(inventorySaveTimers, Player, SaveTimer)'
           /\ Present' = Present \ {p}
           /\ Hydrating' \subseteq Hydrating
           /\ DOMAIN inventorySaveTimers' = DOMAIN inventorySaveTimers
           /\ unstored' \subseteq Player
           /\ \A q \in Present' : players'[q] = players[q] /\ (q \in unstored' <=> q \in unstored)
<1>1. /\ IsMap(inventorySaveTimers, Player, SaveTimer)'
      /\ DOMAIN inventorySaveTimers' = DOMAIN inventorySaveTimers
  BY OutdatedType DEF Remove, RoomTypeOK
<1>2. QED
  BY <1>1 DEF Remove, RoomTypeOK, IsMap, Without, Present, Hydrating

\* Departures stay departures at another stage.
LEMMA TaskFields ==
    ASSUME RoomTypeOK, NEW t \in leaves
    PROVE  /\ t \in LeaveTask
           /\ t.who \in Player /\ t.session \in Nat /\ t.awaited \in Nat
           /\ sessions[t.who] \in Nat
BY DEF RoomTypeOK, LeaveTask

LEMMA AdvanceStep ==
    ASSUME NEW t \in LeaveTask, NEW x \in {"saving", "removing"}, Advance(t, x)
    PROVE  \E u \in LeaveTask :
              /\ leaves' = (leaves \ {t}) \cup {u}
              /\ u.who = t.who /\ u.session = t.session /\ u.stage = x
<1> DEFINE u == [t EXCEPT !.stage = x, !.awaited = 0]
<1>1. t \in [who : Player, session : Nat, awaited : Nat,
             stage : {"waiting", "hydrating", "saving", "removing"}]
  BY DEF LeaveTask
<1>2. u \in LeaveTask
  BY <1>1 DEF LeaveTask
<1>3. u.who = t.who /\ u.session = t.session /\ u.stage = x
  BY <1>1
<1>4. leaves' = (leaves \ {t}) \cup {u}
  BY DEF Advance
<1> HIDE DEF u
<1>5. QED
  BY <1>2, <1>3, <1>4

\* The departure that begins when the clean-up does.
LEMMA BeginLeaveStep ==
    ASSUME RoomTypeOK, NEW p \in Player, NEW n \in Nat, NEW others \in SUBSET leaves,
           BeginLeave(p, n, others)
    PROVE  /\ leaves' \subseteq LeaveTask
           /\ \A u \in leaves' : \/ u \in others
                                 \/ /\ u.who = p /\ u.session = n
                                    /\ u.awaited = sessions[p] /\ u.stage = "hydrating"
           /\ \A t, u \in leaves' \ others : t = u
<1> DEFINE u == [who |-> p, session |-> n, awaited |-> sessions[p], stage |-> "hydrating"]
<1>1. u \in LeaveTask
  BY DEF RoomTypeOK, LeaveTask
<1>2. leaves' = others \/ leaves' = others \cup {u}
  BY DEF BeginLeave
<1>3. QED
  BY <1>1, <1>2 DEF RoomTypeOK

\* A command leaves the types as they are when what it gives the player and what
\* it leaves in the room have theirs.
LEMMA NowType ==
    ASSUME RoomTypeOK, NEW p \in Player, p \in Present, NEW s \in PlayerState, Now(p, s),
           roomItems' \in Bag, IsMap(corpses, Player, Bag)'
    PROVE  RoomTypeOK'
<1>1. /\ IsMap(players, Player, PlayerState)' /\ Present' = Present
      /\ UNCHANGED <<sessionVars, joinHydrationTasks, repoVars, kitGranted, deaths>>
  BY StateReplaced DEF Now
<1>2. [former |-> FALSE, pack |-> NoItems] \in SaveTimer
  BY SmallBags DEF SaveTimer
<1>3. IsMap(inventorySaveTimers, Player, SaveTimer)'
  <2>1. CASE inventorySaveTimers' = inventorySaveTimers
    BY <2>1 DEF RoomTypeOK, IsMap
  <2>2. CASE inventorySaveTimers' =
                 Put(inventorySaveTimers, p, [former |-> FALSE, pack |-> NoItems])
    BY <1>2, <2>2 DEF RoomTypeOK, IsMap, Put
  <2>3. QED
    BY <2>1, <2>2 DEF Now
<1>4. QED
  BY <1>1, <1>3 DEF RoomTypeOK, sessionVars, repoVars, IsMap

\* What a command does to types.
LEMMA CommandType ==
    ASSUME RoomTypeOK, Command
    PROVE  RoomTypeOK'
<1>1. ASSUME NEW p \in Present, NEW b \in Bag
      PROVE  Carrying(p, b) \in PlayerState
  <2>1. players[p] \in [pack : Bag, worn : Kind \cup {Nothing}]
    BY <1>1, StateFields DEF PlayerState
  <2>2. [players[p] EXCEPT !.pack = b] \in [pack : Bag, worn : Kind \cup {Nothing}]
    BY <1>1, <2>1
  <2>3. QED
    BY <2>2 DEF Carrying, PlayerState
<1>2. ASSUME NEW p \in Player, NEW k \in Kind, Take(p, k)
      PROVE  RoomTypeOK'
  <2>1. p \in Present /\ roomItems \in Bag /\ roomItems[k] > 0 /\ One(k) \in Bag
    BY <1>2, SmallBags DEF Take, MayCommand, RoomTypeOK
  <2>2. Carrying(p, Plus(players[p].pack, One(k))) \in PlayerState
    BY <1>1, <2>1, StateFields, PlusType
  <2>3. Minus(roomItems, One(k)) \in Bag
    BY <2>1, MinusType
  <2>4. roomItems' \in Bag /\ IsMap(corpses, Player, Bag)'
    BY <1>2, <2>3 DEF Take, RoomTypeOK, IsMap
  <2>5. QED
    BY <1>2, <2>1, <2>2, <2>4, NowType DEF Take
<1>3. ASSUME NEW p \in Player, NEW k \in Kind, DropItem(p, k)
      PROVE  RoomTypeOK'
  <2>1. p \in Present /\ roomItems \in Bag /\ players[p].pack[k] > 0 /\ One(k) \in Bag
    BY <1>3, SmallBags DEF DropItem, MayCommand, RoomTypeOK
  <2>2. Carrying(p, Minus(players[p].pack, One(k))) \in PlayerState
    BY <1>1, <2>1, StateFields, MinusType
  <2>3. Plus(roomItems, One(k)) \in Bag
    BY <2>1, PlusType
  <2>4. roomItems' \in Bag /\ IsMap(corpses, Player, Bag)'
    BY <1>3, <2>3 DEF DropItem, RoomTypeOK, IsMap
  <2>5. QED
    BY <1>3, <2>1, <2>2, <2>4, NowType DEF DropItem
<1>4. ASSUME NEW p \in Player, NEW c \in Player, NEW k \in Kind, TakeFromCorpse(p, c, k)
      PROVE  RoomTypeOK'
  <2>1. /\ p \in Present /\ One(k) \in Bag /\ roomItems \in Bag
        /\ c \in DOMAIN corpses /\ corpses[c] \in Bag /\ corpses[c][k] > 0
    BY <1>4, SmallBags DEF TakeFromCorpse, MayCommand, RoomTypeOK, IsMap
  <2>2. Carrying(p, Plus(players[p].pack, One(k))) \in PlayerState
    BY <1>1, <2>1, StateFields, PlusType
  <2>3. Minus(corpses[c], One(k)) \in Bag
    BY <2>1, MinusType
  <2>4. corpses' = [corpses EXCEPT ![c] = Minus(corpses[c], One(k))] /\ roomItems' = roomItems
    BY <1>4 DEF TakeFromCorpse
  <2>5. roomItems' \in Bag /\ IsMap(corpses, Player, Bag)'
    BY <2>1, <2>3, <2>4 DEF RoomTypeOK, IsMap
  <2>6. QED
    BY <1>4, <2>1, <2>2, <2>5, NowType DEF TakeFromCorpse
<1>5. ASSUME NEW p \in Player, NEW c \in Player, Loot(p, c)
      PROVE  RoomTypeOK'
  <2>1. /\ p \in Present /\ UNCHANGED <<roomItems, corpses>>
        /\ \E got \in BagsIn(corpses[c]) : Now(p, Carrying(p, Plus(players[p].pack, got)))
    BY <1>5 DEF Loot, MayCommand, itemVars
  <2>2. PICK got \in BagsIn(corpses[c]) : Now(p, Carrying(p, Plus(players[p].pack, got)))
    BY <2>1
  <2>3. Carrying(p, Plus(players[p].pack, got)) \in PlayerState
    BY <1>1, <2>1, <2>2, StateFields, PlusType, GotType
  <2>4. roomItems' \in Bag /\ IsMap(corpses, Player, Bag)'
    BY <2>1 DEF RoomTypeOK, IsMap
  <2>5. QED
    BY <2>1, <2>2, <2>3, <2>4, NowType
<1>6. ASSUME NEW p \in Player, NEW k \in Kind, Equip(p, k)
      PROVE  RoomTypeOK'
  <2> DEFINE worn == players[p].worn
             left == Minus(players[p].pack, One(k))
             pack == IF worn # Nothing /\ CanCarry(left, worn)
                     THEN Plus(left, One(worn)) ELSE left
  <2>1. /\ p \in Present /\ players[p].pack[k] > 0
        /\ Now(p, [worn |-> k, pack |-> pack])
        /\ UNCHANGED <<roomItems, corpses>>
    BY <1>6 DEF Equip, MayCommand, itemVars
  <2>2. left \in Bag /\ worn \in Kind \cup {Nothing}
    BY <2>1, StateFields, MinusType
  <2>3. worn # Nothing => Plus(left, One(worn)) \in Bag
    BY <2>2, PlusType, SmallBags
  <2>4. pack \in Bag
    BY <2>2, <2>3
  <2> HIDE DEF pack
  <2>5. [worn |-> k, pack |-> pack] \in PlayerState
    BY <2>4 DEF PlayerState
  <2>6. roomItems' \in Bag /\ IsMap(corpses, Player, Bag)'
    BY <2>1 DEF RoomTypeOK, IsMap
  <2>7. QED
    BY <2>1, <2>5, <2>6, NowType
<1>7. ASSUME NEW p \in Player, Unequip(p)
      PROVE  RoomTypeOK'
  <2> DEFINE pack == Plus(players[p].pack, One(players[p].worn))
  <2>1. /\ p \in Present /\ players[p].worn # Nothing
        /\ Now(p, [worn |-> Nothing, pack |-> pack])
        /\ UNCHANGED <<roomItems, corpses>>
    BY <1>7 DEF Unequip, MayCommand, itemVars
  <2>2. pack \in Bag
    BY <2>1, StateFields, PlusType, SmallBags
  <2> HIDE DEF pack
  <2>3. [worn |-> Nothing, pack |-> pack] \in PlayerState
    BY <2>2 DEF PlayerState
  <2>4. roomItems' \in Bag /\ IsMap(corpses, Player, Bag)'
    BY <2>1 DEF RoomTypeOK, IsMap
  <2>5. QED
    BY <2>1, <2>3, <2>4, NowType
<1>8. QED
  BY <1>2, <1>3, <1>4, <1>5, <1>6, <1>7 DEF Command

\* What joining and hydrating do to types.
LEMMA SessionType ==
    ASSUME RoomTypeOK, NEW p \in Player, Join(p) \/ Hydrate(p) \/ Drop(p) \/ Leave(p)
    PROVE  RoomTypeOK'
<1> USE BelongingsAssumptions
<1>1. CASE Join(p)
  <2>1. [pack |-> NoItems, worn |-> Nothing] \in PlayerState
    BY SmallBags DEF PlayerState
  <2>2. IsMap(players, Player, PlayerState)' /\ Present' = Present \cup {p}
    BY <1>1, <2>1 DEF Join, RoomTypeOK, IsMap, Put, Present
  <2>3. IsMap(joinHydrationTasks, Present, {"kit", "load"})'
    BY <1>1, <2>2 DEF Join, RoomTypeOK, IsMap, Put
  <2>4. IsMap(inventorySaveTimers, Player, SaveTimer)'
    BY <1>1, OutdatedType DEF Join, RoomTypeOK
  <2>5. /\ sessions' \in [Player -> Nat]
        /\ \A q \in Player : sessions'[q] <= MaxSessions[q]
    BY <1>1 DEF Join, RoomTypeOK
  <2>6. /\ connected' \subseteq Player /\ unstored' \subseteq Player
        /\ UNCHANGED <<inventoryRepo, kitGranted, roomItems, corpses, leaves, deaths>>
    BY <1>1 DEF Join, RoomTypeOK, itemVars
  <2>7. QED
    BY <2>2, <2>3, <2>4, <2>5, <2>6 DEF RoomTypeOK, IsMap
<1>2. CASE GrantStarterKit(p)
  <2>1. p \in Present
    BY <1>2 DEF GrantStarterKit, Hydrating, RoomTypeOK, IsMap
  <2>2. IsMap(players, Player, PlayerState)' /\ Present' = Present
    <3>1. CASE players' = players
      BY <3>1 DEF RoomTypeOK, IsMap, Present
    <3>2. CASE \E got \in BagsIn(StarterKit) :
                  players' = [players EXCEPT ![p].pack = Plus(@, got)]
      <4>1. PICK got \in BagsIn(StarterKit) :
                players' = [players EXCEPT ![p].pack = Plus(@, got)]
        BY <3>2
      <4>2. Plus(players[p].pack, got) \in Bag
        BY <2>1, StateFields, PlusType, GotType
      <4>3. QED
        BY <2>1, <4>1, <4>2, PackReplaced
    <3>3. QED
      BY <1>2, <3>1, <3>2 DEF GrantStarterKit
  <2>3. IsMap(joinHydrationTasks, Present, {"kit", "load"})'
    BY <1>2, <2>2 DEF GrantStarterKit, RoomTypeOK, IsMap, Hydrating
  <2>4. kitGranted' \subseteq Player
    BY <1>2 DEF GrantStarterKit, RoomTypeOK
  <2>5. QED
    BY <1>2, <2>2, <2>3, <2>4
    DEF GrantStarterKit, RoomTypeOK, IsMap, sessionVars, storeVars, repoVars, itemVars
<1>3. CASE LoadInventory(p)
  <2>1. p \in Present
    BY <1>3 DEF LoadInventory, Hydrating, RoomTypeOK, IsMap
  <2>2. PICK got \in BagsIn(Stored(p)) :
            players' = [players EXCEPT ![p].pack = Plus(@, got)]
    BY <1>3 DEF LoadInventory
  <2>3. Plus(players[p].pack, got) \in Bag
    BY <2>1, <2>2, StateFields, PlusType, GotType
  <2>4. IsMap(players, Player, PlayerState)' /\ Present' = Present
    BY <2>1, <2>2, <2>3, PackReplaced
  <2>5. IsMap(joinHydrationTasks, Present, {"kit", "load"})'
    BY <1>3, <2>4 DEF LoadInventory, RoomTypeOK, IsMap, Without
  <2>6. QED
    BY <1>3, <2>4, <2>5
    DEF LoadInventory, RoomTypeOK, IsMap, sessionVars, storeVars, repoVars, itemVars
<1>4. CASE LoadFails(p)
  BY <1>4 DEF LoadFails, RoomTypeOK, IsMap, Present, Without, sessionVars, storeVars, repoVars,
              itemVars
<1>5. CASE Drop(p)
  <2>1. [who |-> p, session |-> sessions[p], awaited |-> 0, stage |-> "waiting"] \in LeaveTask
    BY DEF RoomTypeOK, LeaveTask
  <2>2. QED
    BY <1>5, <2>1 DEF Drop, RoomTypeOK, IsMap, Present, storeVars, repoVars, itemVars
<1>6. CASE Leave(p)
  <2>1. leaves' \subseteq LeaveTask
    BY <1>6, BeginLeaveStep DEF Leave, RoomTypeOK
  <2>2. QED
    BY <1>6, <2>1 DEF Leave, RoomTypeOK, IsMap, Present, storeVars, repoVars, itemVars
<1>7. QED
  BY <1>1, <1>2, <1>3, <1>4, <1>5, <1>6 DEF Hydrate

\* What the steps of a departure do to types.
LEMMA DepartureType ==
    ASSUME RoomTypeOK, NEW t \in leaves, Reconnect(t) \/ Timeout(t) \/ Depart(t)
    PROVE  RoomTypeOK'
<1>1. t.who \in Player /\ t.session \in Nat /\ leaves \subseteq LeaveTask
  BY TaskFields DEF RoomTypeOK
<1>2. CASE Reconnect(t)
  BY <1>1, <1>2 DEF Reconnect, RoomTypeOK, IsMap, Present, storeVars, repoVars, itemVars
<1>3. CASE Timeout(t)
  <2>1. leaves' \subseteq LeaveTask
    <3>1. CASE BeginLeave(t.who, t.session, leaves \ {t})
      BY <1>1, <3>1, BeginLeaveStep
    <3>2. CASE leaves' = leaves \ {t}
      BY <1>1, <3>2
    <3>3. QED
      BY <1>3, <3>1, <3>2 DEF Timeout
  <2>2. QED
    BY <1>3, <2>1 DEF Timeout, RoomTypeOK, IsMap, Present, storeVars, repoVars, itemVars
<1>4. CASE HydrationAwaited(t)
  <2>1. leaves' \subseteq LeaveTask
    BY <1>1, <1>4, AdvanceStep DEF HydrationAwaited
  <2>2. QED
    BY <1>4, <2>1
    DEF HydrationAwaited, RoomTypeOK, IsMap, Present, storeVars, repoVars, itemVars
<1>5. CASE SaveOnLeave(t)
  <2>1. leaves' \subseteq LeaveTask
    BY <1>1, <1>5, AdvanceStep DEF SaveOnLeave
  <2>2. /\ IsMap(inventorySaveTimers, Player, SaveTimer)'
        /\ inventoryRepo' \in [Account -> Bag] /\ unstored' \subseteq Player
    <3>1. CASE t.who \in Present
      BY <1>1, <1>5, <3>1, StateFields, SaveType DEF SaveOnLeave
    <3>2. CASE t.who \notin Present
      BY <1>5, <3>2 DEF SaveOnLeave, repoVars, RoomTypeOK, IsMap, Without
    <3>3. QED
      BY <3>1, <3>2
  <2>3. QED
    BY <1>5, <2>1, <2>2 DEF SaveOnLeave, RoomTypeOK, IsMap, Present, itemVars
<1>6. CASE RemoveOnLeave(t)
  <2>1. Remove(t.who) /\ leaves' = leaves \ {t}
        /\ UNCHANGED <<connected, sessions, inventoryRepo, kitGranted, roomItems, corpses, deaths>>
    BY <1>6 DEF RemoveOnLeave, itemVars
  <2>2. QED
    BY <1>1, <2>1, RemoveType DEF RoomTypeOK, IsMap
<1>7. QED
  BY <1>2, <1>3, <1>4, <1>5, <1>6 DEF Depart

\* What a save that is due, a death and decay do to types.
LEMMA DeathType ==
    ASSUME RoomTypeOK, NEW p \in Player,
           SaveDue(p) \/ Die(p) \/ CorpseAppears(p) \/ RemoveOnDeath(p) \/ CorpseDecays(p)
    PROVE  RoomTypeOK'
<1>1. CASE SaveDue(p)
  <2>1. /\ p \in DOMAIN inventorySaveTimers /\ inventorySaveTimers[p].pack \in Bag
        /\ UNCHANGED <<players, connected, sessions, leaves, joinHydrationTasks,
                       kitGranted, roomItems, corpses, deaths>>
    BY <1>1 DEF SaveDue, RoomTypeOK, IsMap, SaveTimer, sessionVars, itemVars
  <2>2. /\ IsMap(inventorySaveTimers, Player, SaveTimer)'
        /\ inventoryRepo' \in [Account -> Bag] /\ unstored' \subseteq Player
    <3>1. CASE p \in Present
      <4> DEFINE pack == IF inventorySaveTimers[p].former
                         THEN inventorySaveTimers[p].pack ELSE players[p].pack
      <4>1. pack \in Bag
        BY <2>1, <3>1, StateFields
      <4>2. SavePlayerInventory(p, pack)
        BY <1>1, <3>1 DEF SaveDue
      <4> HIDE DEF pack
      <4>3. QED
        BY <4>1, <4>2, SaveType
    <3>2. CASE p \notin Present
      BY <1>1, <3>2 DEF SaveDue, repoVars, RoomTypeOK, IsMap, Without
    <3>3. QED
      BY <3>1, <3>2
  <2>3. QED
    BY <2>1, <2>2 DEF RoomTypeOK, IsMap, Present
<1>2. CASE Die(p)
  <2> DEFINE kept == Only(players[p].pack, Soulbound)
             remains == Plus(Only(players[p].pack, Unbound), WornRemains(players[p].worn))
             death == [session |-> sessions[p], stage |-> "saving", corpse |-> remains]
  <2>1. /\ p \in Present
        /\ players' = [players EXCEPT ![p].pack = kept]
        /\ SavePlayerInventory(p, kept)
        /\ deaths' = Put(deaths, p, death)
        /\ UNCHANGED <<connected, sessions, leaves, joinHydrationTasks, kitGranted,
                       roomItems, corpses>>
    BY <1>2 DEF Die, sessionVars, itemVars
  <2>2. kept \in Bag /\ Only(players[p].pack, Unbound) \in Bag
    BY <2>1, StateFields, OnlyType
  <2>3. WornRemains(players[p].worn) \in Bag
    BY SmallBags DEF WornRemains, Unbound
  <2>4. remains \in Bag
    BY <2>2, <2>3, PlusType
  <2> HIDE DEF kept, remains
  <2>5. death \in DeathTask
    BY <2>4 DEF DeathTask, RoomTypeOK
  <2> HIDE DEF death
  <2>6. IsMap(players, Player, PlayerState)' /\ Present' = Present
    BY <2>1, <2>2, PackReplaced
  <2>7. /\ IsMap(inventorySaveTimers, Player, SaveTimer)'
        /\ inventoryRepo' \in [Account -> Bag] /\ unstored' \subseteq Player
    BY <2>1, <2>2, SaveType
  <2>8. IsMap(deaths, Player, DeathTask)'
    BY <2>1, <2>5 DEF RoomTypeOK, IsMap, Put
  <2>9. QED
    BY <2>1, <2>6, <2>7, <2>8 DEF RoomTypeOK, IsMap
<1>3. CASE CorpseAppears(p)
  <2>1. /\ p \in DOMAIN deaths /\ deaths[p] \in DeathTask /\ deaths[p].corpse \in Bag
        /\ UNCHANGED <<connected, sessions, leaves, joinHydrationTasks, inventorySaveTimers,
                       inventoryRepo, unstored, kitGranted, roomItems>>
    BY <1>3 DEF CorpseAppears, RoomTypeOK, IsMap, DeathTask, sessionVars, storeVars, repoVars
  <2>2. IsMap(deaths, Player, DeathTask)'
    <3> DEFINE d == [deaths[p] EXCEPT !.stage = "leaving", !.corpse = NoItems]
    <3>1. deaths[p] \in [session : Nat, corpse : Bag, stage : {"saving", "leaving"}]
      BY <2>1 DEF DeathTask
    <3>2. d \in [session : Nat, corpse : Bag, stage : {"saving", "leaving"}]
      BY <3>1, SmallBags
    <3>3. deaths' = [deaths EXCEPT ![p] = d]
      BY <1>3 DEF CorpseAppears
    <3> HIDE DEF d
    <3>4. QED
      BY <2>1, <3>2, <3>3 DEF RoomTypeOK, IsMap, DeathTask
  <2>3. IsMap(players, Player, PlayerState)' /\ Present' = Present
    <3>1. CASE p \in Present /\ sessions[p] = deaths[p].session
      <4> DEFINE s == [players[p] EXCEPT !.worn = Nothing]
      <4>1. players[p] \in [pack : Bag, worn : Kind \cup {Nothing}]
        BY <3>1, StateFields DEF PlayerState
      <4>2. s \in [pack : Bag, worn : Kind \cup {Nothing}]
        BY <4>1
      <4>3. players' = [players EXCEPT ![p] = s]
        BY <1>3, <3>1 DEF CorpseAppears
      <4> HIDE DEF s
      <4>4. QED
        BY <3>1, <4>2, <4>3, StateReplaced DEF PlayerState
    <3>2. CASE ~(p \in Present /\ sessions[p] = deaths[p].session)
      BY <1>3, <3>2 DEF CorpseAppears, RoomTypeOK, IsMap, Present
    <3>3. QED
      BY <3>1, <3>2
  <2>4. IsMap(corpses, Player, Bag)'
    <3>1. CASE deaths[p].corpse = NoItems
      BY <1>3, <3>1 DEF CorpseAppears, RoomTypeOK, IsMap
    <3>2. CASE deaths[p].corpse # NoItems
      <4> DEFINE b == IF p \in DOMAIN corpses
                      THEN Plus(corpses[p], deaths[p].corpse) ELSE deaths[p].corpse
      <4>1. p \in DOMAIN corpses => corpses[p] \in Bag
        BY DEF RoomTypeOK, IsMap
      <4>2. b \in Bag
        BY <2>1, <4>1, PlusType
      <4>3. corpses' = Put(corpses, p, b)
        BY <1>3, <3>2 DEF CorpseAppears
      <4> HIDE DEF b
      <4>4. QED
        BY <4>2, <4>3 DEF RoomTypeOK, IsMap, Put
    <3>3. QED
      BY <3>1, <3>2
  <2>5. QED
    BY <2>1, <2>2, <2>3, <2>4 DEF RoomTypeOK, IsMap
<1>4. CASE RemoveOnDeath(p)
  <2>1. /\ Remove(p) /\ deaths' = Without(deaths, {p})
        /\ UNCHANGED <<connected, sessions, leaves, inventoryRepo, kitGranted, roomItems, corpses>>
    BY <1>4 DEF RemoveOnDeath, sessionVars, itemVars
  <2>2. QED
    BY <2>1, RemoveType DEF RoomTypeOK, IsMap, Without
<1>5. CASE CorpseDecays(p)
  BY <1>5
  DEF CorpseDecays, RoomTypeOK, IsMap, Without, Present, sessionVars, storeVars, repoVars
<1>6. QED
  BY <1>1, <1>2, <1>3, <1>4, <1>5

\* Every step keeps the types.
LEMMA TypeStep ==
    ASSUME RoomTypeOK, [RoomNext]_roomVars
    PROVE  RoomTypeOK'
<1>1. CASE UNCHANGED roomVars
  BY <1>1 DEF roomVars, RoomTypeOK, IsMap, Present
<1>2. CASE RoomNext
  BY <1>2, CommandType, SessionType, DepartureType, DeathType DEF RoomNext
<1>3. QED
  BY <1>1, <1>2

-----------------------------------------------------------------------------
(* Departures                                                              *)

\* What goes on among those who are connected, hydrated or have a save due does
\* not touch a departure that has saved.
LEMMA Undisturbed ==
    ASSUME Departures, UNCHANGED <<leaves, sessions, connected>>, Hydrating' \subseteq Hydrating,
           Present' \subseteq Present,
           \A p \in Present' \ (connected \cup Hydrating \cup DOMAIN inventorySaveTimers) :
               /\ p \notin DOMAIN inventorySaveTimers'
               /\ SavedAs(p) => SavedAs(p)'
    PROVE  Departures'
<1>1. (SessionsInOrder /\ LatestIsGone /\ OneEach)'
  BY DEF Departures, SessionsInOrder, LatestIsGone, OneEach, Displaced
<1>2. LatestHydrated'
  BY DEF Departures, LatestHydrated, Displaced
<1>3. LatestSaved'
  <2> SUFFICES ASSUME NEW t \in leaves, ~Displaced(t), t.stage = "removing", t.who \in Present'
               PROVE  t.who \notin DOMAIN inventorySaveTimers' /\ SavedAs(t.who)'
    BY DEF LatestSaved, Displaced
  <2>1. t.who \notin connected \cup Hydrating
    BY DEF Departures, LatestIsGone, LatestHydrated
  <2>2. t.who \in Present /\ t.who \notin DOMAIN inventorySaveTimers /\ SavedAs(t.who)
    BY DEF Departures, LatestSaved
  <2>3. QED
    BY <2>1, <2>2
<1>4. QED
  BY <1>1, <1>2, <1>3 DEF Departures

\* A command comes from somebody who is connected.
LEMMA CommandDepartures ==
    ASSUME BelongingsInv, Command
    PROVE  Departures'
<1>1. ASSUME NEW p \in Player, p \in connected, p \in Present, NEW s, Now(p, s)
      PROVE  Departures'
  <2>1. /\ UNCHANGED <<leaves, sessions, connected, joinHydrationTasks, repoVars>>
        /\ players' = [players EXCEPT ![p] = s]
        /\ DOMAIN inventorySaveTimers' \subseteq DOMAIN inventorySaveTimers \cup {p}
    BY <1>1 DEF Now, sessionVars, Put
  <2>2. Present' = Present /\ \A q \in Present : q # p => players'[q] = players[q]
    BY <2>1 DEF BelongingsInv, RoomTypeOK, IsMap, Present
  <2>3. QED
    BY <1>1, <2>1, <2>2, Undisturbed DEF BelongingsInv, Hydrating, SavedAs, Stored, repoVars
<1>2. \E p \in Player : p \in connected /\ p \in Present /\ \E s : Now(p, s)
  BY DEF Command, Take, DropItem, TakeFromCorpse, Loot, Equip, Unequip, MayCommand
<1>3. QED
  BY <1>1, <1>2

\* A hydration is of somebody who is being hydrated.
LEMMA HydrateDepartures ==
    ASSUME BelongingsInv, NEW p \in Player, Hydrate(p)
    PROVE  Departures'
<1>1. /\ p \in Hydrating /\ Hydrating' \subseteq Hydrating
      /\ UNCHANGED <<leaves, sessions, connected, inventorySaveTimers, repoVars>>
      /\ players' = players \/ \E b : players' = [players EXCEPT ![p].pack = b]
  BY DEF Hydrate, GrantStarterKit, LoadInventory, LoadFails, Hydrating, sessionVars, storeVars,
         Without
<1>2. Present' = Present /\ \A q \in Present : q # p => players'[q] = players[q]
  BY <1>1 DEF BelongingsInv, RoomTypeOK, IsMap, Present
<1>3. QED
  BY <1>1, <1>2, Undisturbed DEF BelongingsInv, SavedAs, Stored, repoVars

\* A save that is due is none of a departure that has saved; a death saves what
\* it leaves; a removal leaves nothing to be saved.
LEMMA DeathDepartures ==
    ASSUME BelongingsInv, NEW p \in Player,
           SaveDue(p) \/ Die(p) \/ CorpseAppears(p) \/ RemoveOnDeath(p) \/ CorpseDecays(p)
    PROVE  Departures'
<1>1. CASE SaveDue(p)
  <2>1. /\ p \in DOMAIN inventorySaveTimers
        /\ UNCHANGED <<players, leaves, sessions, connected, joinHydrationTasks>>
        /\ DOMAIN inventorySaveTimers' \subseteq DOMAIN inventorySaveTimers
    BY <1>1 DEF SaveDue, SavePlayerInventory, sessionVars, Without
  <2>2. Present \subseteq Player /\ inventorySaveTimers[p].pack \in Bag
    BY <2>1 DEF BelongingsInv, RoomTypeOK, IsMap, Present, SaveTimer
  <2>3. \A q \in Player : q # p /\ q \notin unstored' =>
            q \notin unstored /\ Stored(q)' = Stored(q)
    <3>1. CASE p \in Present
      <4> DEFINE pack == IF inventorySaveTimers[p].former
                         THEN inventorySaveTimers[p].pack ELSE players[p].pack
      <4>1. pack \in Bag /\ SavePlayerInventory(p, pack)
        BY <1>1, <2>2, <3>1, StateFields DEF SaveDue, BelongingsInv
      <4> HIDE DEF pack
      <4>2. QED
        BY <4>1, SaveType DEF BelongingsInv
    <3>2. CASE p \notin Present
      BY <1>1, <3>2 DEF SaveDue, repoVars, Stored
    <3>3. QED
      BY <3>1, <3>2
  <2>4. QED
    BY <2>1, <2>2, <2>3, Undisturbed DEF BelongingsInv, Hydrating, Present, SavedAs
<1>2. CASE Die(p)
  <2> DEFINE kept == Only(players[p].pack, Soulbound)
  <2>1. /\ p \in Present
        /\ players' = [players EXCEPT ![p].pack = kept]
        /\ SavePlayerInventory(p, kept)
        /\ UNCHANGED <<leaves, sessions, connected, joinHydrationTasks>>
    BY <1>2 DEF Die, sessionVars
  <2>2. kept \in Bag
    BY <2>1, StateFields, OnlyType DEF BelongingsInv
  <2> HIDE DEF kept
  <2>3. /\ Present' = Present /\ players'[p].pack = kept
        /\ \A q \in Present : q # p => players'[q] = players[q]
    BY <2>1, <2>2, PackReplaced DEF BelongingsInv
  <2>4. /\ DOMAIN inventorySaveTimers' = DOMAIN inventorySaveTimers \ {p}
        /\ p \notin unstored' => Stored(p)' = kept
        /\ \A q \in Player : q # p /\ q \notin unstored' =>
               q \notin unstored /\ Stored(q)' = Stored(q)
    BY <2>1, <2>2, SaveType DEF BelongingsInv
  <2>5. Present \subseteq Player
    BY DEF BelongingsInv, RoomTypeOK, IsMap, Present
  <2>6. QED
    BY <2>1, <2>3, <2>4, <2>5, Undisturbed DEF BelongingsInv, Hydrating, SavedAs
<1>3. CASE CorpseAppears(p)
  <2>1. UNCHANGED <<leaves, sessions, connected, joinHydrationTasks,
                    inventorySaveTimers, repoVars>>
    BY <1>3 DEF CorpseAppears, sessionVars, storeVars
  <2>2. \/ players' = players
        \/ p \in Present /\ players' = [players EXCEPT ![p].worn = Nothing]
    BY <1>3 DEF CorpseAppears
  <2>3. Present' = Present /\ \A q \in Present : players'[q].pack = players[q].pack
    <3>1. \A q \in Present : players[q] \in [pack : Bag, worn : Kind \cup {Nothing}]
      BY StateFields DEF BelongingsInv, PlayerState
    <3>2. CASE players' = players
      BY <3>2 DEF Present
    <3>3. CASE p \in Present /\ players' = [players EXCEPT ![p].worn = Nothing]
      BY <3>1, <3>3 DEF BelongingsInv, RoomTypeOK, IsMap, Present
    <3>4. QED
      BY <2>2, <3>2, <3>3
  <2>4. QED
    BY <2>1, <2>3, Undisturbed DEF BelongingsInv, Hydrating, SavedAs, Stored, repoVars
<1>4. CASE RemoveOnDeath(p)
  <2>1. Remove(p) /\ UNCHANGED <<leaves, sessions, connected, inventoryRepo>>
    BY <1>4 DEF RemoveOnDeath, sessionVars
  <2>2. QED
    BY <2>1, RemoveType, Undisturbed DEF BelongingsInv, SavedAs, Stored
<1>5. CASE CorpseDecays(p)
  <2>1. UNCHANGED <<players, leaves, sessions, connected, joinHydrationTasks,
                    inventorySaveTimers, repoVars>>
    BY <1>5 DEF CorpseDecays, sessionVars, storeVars
  <2>2. QED
    BY <2>1, Undisturbed DEF BelongingsInv, Hydrating, Present, SavedAs, Stored, repoVars
<1>6. QED
  BY <1>1, <1>2, <1>3, <1>4, <1>5

\* A new session displaces every departure of the player.
LEMMA JoinDepartures ==
    ASSUME BelongingsInv, NEW p \in Player, Join(p)
    PROVE  Departures'
<1>1. /\ UNCHANGED <<leaves, inventoryRepo>> /\ unstored' = unstored \ {p}
      /\ connected' = connected \cup {p}
      /\ sessions'[p] = sessions[p] + 1 /\ sessions[p] \in Nat
      /\ \A q \in Player : q # p => sessions'[q] = sessions[q]
  BY DEF Join, BelongingsInv, RoomTypeOK
<1>2. /\ Hydrating' = Hydrating \cup {p}
      /\ Present' = Present \cup {p}
      /\ \A q \in Present : q # p => players'[q] = players[q]
  BY DEF Join, Put, Hydrating, Present
<1>3. DOMAIN inventorySaveTimers' = DOMAIN inventorySaveTimers
  BY OutdatedType DEF Join, BelongingsInv
<1>4. ASSUME NEW t \in leaves
      PROVE  /\ t.who \in Player /\ t.session \in Nat /\ t.awaited \in Nat
             /\ sessions[t.who] \in Nat /\ t.session <= sessions[t.who]
  BY <1>4, TaskFields DEF BelongingsInv, Departures, SessionsInOrder
<1>5. \A t \in leaves : /\ t.who = p => Displaced(t)'
                        /\ t.who # p => (Displaced(t)' <=> Displaced(t))
  BY <1>1, <1>4 DEF Displaced
<1>6. SessionsInOrder'
  <2> SUFFICES ASSUME NEW t \in leaves
               PROVE  /\ t.session <= sessions'[t.who]
                      /\ t.stage = "hydrating" =>
                             t.session <= t.awaited /\ t.awaited <= sessions'[t.who]
    BY <1>1 DEF SessionsInOrder
  <2>1. sessions[t.who] <= sessions'[t.who] /\ sessions'[t.who] \in Nat
    BY <1>1, <1>4
  <2>2. QED
    BY <1>4, <2>1 DEF BelongingsInv, Departures, SessionsInOrder
<1>7. LatestIsGone' /\ OneEach'
  BY <1>1, <1>5 DEF BelongingsInv, Departures, LatestIsGone, OneEach
<1>8. LatestHydrated'
  BY <1>1, <1>2, <1>5 DEF BelongingsInv, Departures, LatestHydrated
<1>9. LatestSaved'
  <2> SUFFICES ASSUME NEW t \in leaves, ~Displaced(t)', t.stage = "removing", t.who \in Present'
               PROVE  t.who \notin DOMAIN inventorySaveTimers' /\ SavedAs(t.who)'
    BY <1>1 DEF LatestSaved
  <2>1. t.who # p /\ ~Displaced(t) /\ t.who \in Present
    BY <1>2, <1>5
  <2>2. t.who \notin DOMAIN inventorySaveTimers /\ SavedAs(t.who)
    BY <2>1 DEF BelongingsInv, Departures, LatestSaved
  <2>3. QED
    BY <1>1, <1>2, <1>3, <2>1, <2>2 DEF SavedAs, Stored
<1>10. QED
  BY <1>6, <1>7, <1>8, <1>9 DEF Departures

\* What departures there are is all that a session's end changes.
LEMMA LeavesOnly ==
    ASSUME RoomTypeOK, LatestHydrated, LatestSaved,
           UNCHANGED <<players, sessions, joinHydrationTasks, storeVars>>,
           \A u \in leaves' : u \in leaves \/ u.stage \in {"waiting", "hydrating"}
    PROVE  LatestHydrated' /\ LatestSaved'
BY DEF LatestHydrated, LatestSaved, SavedAs, Stored, Displaced, Hydrating, Present, storeVars,
       repoVars

\* A connected session loses its connection or leaves.
LEMMA EndDepartures ==
    ASSUME BelongingsInv, NEW p \in Player, Drop(p) \/ Leave(p)
    PROVE  Departures'
<1>1. /\ p \in connected /\ connected' = connected \ {p}
      /\ UNCHANGED <<players, sessions, joinHydrationTasks, storeVars>>
  BY DEF Drop, Leave
<1>2. sessions[p] \in Nat
  BY DEF BelongingsInv, RoomTypeOK
<1>3. /\ \A u \in leaves' \ leaves :
             /\ u.who = p /\ u.session = sessions[p]
             /\ u.stage \in {"waiting", "hydrating"}
             /\ u.stage = "hydrating" => u.awaited = sessions[p]
      /\ \A t, u \in leaves' \ leaves : t = u
  <2>1. CASE Drop(p)
    BY <2>1 DEF Drop
  <2>2. CASE Leave(p)
    BY <1>2, <2>2, BeginLeaveStep DEF Leave, BelongingsInv
  <2>3. QED
    BY <2>1, <2>2
<1>4. \A t \in leaves : t.who = p => Displaced(t)
  BY <1>1 DEF BelongingsInv, Departures, LatestIsGone
<1>5. SessionsInOrder'
  <2> SUFFICES ASSUME NEW t \in leaves'
               PROVE  /\ t.session <= sessions[t.who]
                      /\ t.stage = "hydrating" =>
                             t.session <= t.awaited /\ t.awaited <= sessions[t.who]
    BY <1>1 DEF SessionsInOrder
  <2>1. CASE t \in leaves
    BY <2>1 DEF BelongingsInv, Departures, SessionsInOrder
  <2>2. CASE t \notin leaves
    BY <1>2, <1>3, <2>2
  <2>3. QED
    BY <2>1, <2>2
<1>6. LatestIsGone'
  BY <1>1, <1>3 DEF BelongingsInv, Departures, LatestIsGone, Displaced
<1>7. OneEach'
  <2> SUFFICES ASSUME NEW t \in leaves', NEW u \in leaves',
                      t.who = u.who, t.session = u.session
               PROVE  t = u
    BY DEF OneEach
  <2>1. CASE t \in leaves /\ u \in leaves
    BY <2>1 DEF BelongingsInv, Departures, OneEach
  <2>2. CASE t \notin leaves /\ u \notin leaves
    BY <1>3, <2>2
  <2>3. ~(t \in leaves /\ u \notin leaves) /\ ~(t \notin leaves /\ u \in leaves)
    BY <1>3, <1>4 DEF Displaced
  <2>4. QED
    BY <2>1, <2>2, <2>3
<1>8. LatestHydrated' /\ LatestSaved'
  BY <1>1, <1>3, LeavesOnly DEF BelongingsInv, Departures
<1>9. QED
  BY <1>5, <1>6, <1>7, <1>8 DEF Departures

\* A departure goes on under the same name, or ends.
LEMMA SameDeparture ==
    ASSUME BelongingsInv, NEW t \in leaves, UNCHANGED <<sessions, connected>>,
           \A u \in leaves' : \/ u \in leaves /\ u # t
                              \/ /\ u.who = t.who /\ u.session = t.session
                                 /\ u.stage = "hydrating" => u.awaited = sessions[t.who],
           \A u, v \in leaves' \ (leaves \ {t}) : u = v
    PROVE  /\ (SessionsInOrder /\ LatestIsGone /\ OneEach)'
           /\ \A u \in leaves' : u.who = t.who /\ ~Displaced(t) => u \notin leaves \ {t} \/ Displaced(u)
<1>1. \A u \in leaves : u.who = t.who /\ u.session = t.session => u = t
  BY DEF BelongingsInv, Departures, OneEach
<1>2. SessionsInOrder'
  <2> SUFFICES ASSUME NEW u \in leaves'
               PROVE  /\ u.session <= sessions[u.who]
                      /\ u.stage = "hydrating" =>
                             u.session <= u.awaited /\ u.awaited <= sessions[u.who]
    BY DEF SessionsInOrder
  <2>1. CASE u \in leaves /\ u # t
    BY <2>1 DEF BelongingsInv, Departures, SessionsInOrder
  <2>2. CASE ~(u \in leaves /\ u # t)
    <3>1. /\ u.who = t.who /\ u.session = t.session
          /\ u.stage = "hydrating" => u.awaited = sessions[t.who]
      BY <2>2
    <3>2. sessions[t.who] \in Nat /\ t.session <= sessions[t.who]
      BY TaskFields DEF BelongingsInv, Departures, SessionsInOrder
    <3>3. QED
      BY <3>1, <3>2
  <2>3. QED
    BY <2>1, <2>2
<1>3. LatestIsGone'
  BY DEF BelongingsInv, Departures, LatestIsGone, Displaced
<1>4. OneEach'
  <2> SUFFICES ASSUME NEW u \in leaves', NEW v \in leaves',
                      u.who = v.who, u.session = v.session
               PROVE  u = v
    BY DEF OneEach
  <2>1. CASE u \in leaves \ {t} /\ v \in leaves \ {t}
    BY <2>1 DEF BelongingsInv, Departures, OneEach
  <2>2. CASE u \notin leaves \ {t} /\ v \notin leaves \ {t}
    BY <2>2
  <2>3. ~(u \in leaves \ {t} /\ v \notin leaves \ {t})
    BY <1>1
  <2>4. ~(v \in leaves \ {t} /\ u \notin leaves \ {t})
    BY <1>1
  <2>5. QED
    BY <2>1, <2>2, <2>3, <2>4
<1>5. \A u \in leaves' : u.who = t.who /\ ~Displaced(t) => u \notin leaves \ {t} \/ Displaced(u)
  BY <1>1 DEF Displaced
<1>6. QED
  BY <1>2, <1>3, <1>4, <1>5

\* One who has waited for a connection to come back.
LEMMA WaitedDepartures ==
    ASSUME BelongingsInv, NEW t \in leaves, Reconnect(t) \/ Timeout(t)
    PROVE  Departures'
<1>1. UNCHANGED <<players, sessions, joinHydrationTasks, storeVars>>
  BY DEF Reconnect, Timeout
<1>2. CASE Reconnect(t)
  <2>1. /\ leaves' = leaves \ {t}
        /\ connected' = connected \cup IF ~Displaced(t) THEN {t.who} ELSE {}
    BY <1>2 DEF Reconnect, Displaced
  <2>2. \A u \in leaves' : u.who = t.who /\ ~Displaced(t) => Displaced(u)
    BY <2>1 DEF BelongingsInv, Departures, OneEach, Displaced
  <2>3. LatestIsGone'
    BY <1>1, <2>1, <2>2 DEF BelongingsInv, Departures, LatestIsGone, Displaced
  <2>4. SessionsInOrder' /\ OneEach'
    BY <1>1, <2>1 DEF BelongingsInv, Departures, SessionsInOrder, OneEach
  <2>5. LatestHydrated' /\ LatestSaved'
    BY <1>1, <2>1, LeavesOnly DEF BelongingsInv, Departures
  <2>6. QED
    BY <2>3, <2>4, <2>5 DEF Departures
<1>3. CASE Timeout(t)
  <2>1. /\ connected' = connected
        /\ \A u \in leaves' : \/ u \in leaves /\ u # t
                              \/ /\ u.who = t.who /\ u.session = t.session
                                 /\ u.awaited = sessions[t.who] /\ u.stage = "hydrating"
        /\ \A u, v \in leaves' \ (leaves \ {t}) : u = v
    <3>1. CASE BeginLeave(t.who, t.session, leaves \ {t})
      <4>1. t.who \in Player /\ t.session \in Nat
        BY TaskFields DEF BelongingsInv
      <4>2. QED
        BY <1>3, <3>1, <4>1, BeginLeaveStep DEF Timeout, BelongingsInv
    <3>2. CASE leaves' = leaves \ {t}
      BY <1>3, <3>2 DEF Timeout
    <3>3. QED
      BY <1>3, <3>1, <3>2 DEF Timeout
  <2>2. (SessionsInOrder /\ LatestIsGone /\ OneEach)'
    BY <1>1, <2>1, SameDeparture
  <2>3. LatestHydrated' /\ LatestSaved'
    BY <1>1, <2>1, LeavesOnly DEF BelongingsInv, Departures
  <2>4. QED
    BY <2>2, <2>3 DEF Departures
<1>4. QED
  BY <1>2, <1>3

\* The departure itself: it waits until nothing is hydrated any more, saves what
\* there is, and removes it.
LEMMA DepartDepartures ==
    ASSUME BelongingsInv, NEW t \in leaves, Depart(t)
    PROVE  Departures'
<1>1. /\ RoomTypeOK /\ t \in LeaveTask /\ t.who \in Player /\ t.session \in Nat
      /\ sessions[t.who] \in Nat /\ LatestHydrated /\ LatestSaved
  BY TaskFields DEF BelongingsInv, Departures
<1>2. ASSUME NEW x \in {"saving", "removing"}, Advance(t, x), UNCHANGED <<sessions, connected>>
      PROVE  /\ (SessionsInOrder /\ LatestIsGone /\ OneEach)'
             /\ \E u : /\ leaves' = (leaves \ {t}) \cup {u}
                       /\ u.who = t.who /\ u.session = t.session /\ u.stage = x
  <2>1. PICK u \in LeaveTask : /\ leaves' = (leaves \ {t}) \cup {u}
                               /\ u.who = t.who /\ u.session = t.session /\ u.stage = x
    BY <1>1, <1>2, AdvanceStep
  <2>2. (SessionsInOrder /\ LatestIsGone /\ OneEach)'
    BY <1>2, <2>1, SameDeparture
  <2>3. QED
    BY <2>1, <2>2
<1>3. CASE HydrationAwaited(t)
  <2>1. /\ UNCHANGED <<players, connected, sessions, joinHydrationTasks, storeVars>>
        /\ t.stage = "hydrating" /\ Advance(t, "saving")
        /\ t.who \in Hydrating => sessions[t.who] # t.awaited
    BY <1>3 DEF HydrationAwaited
  <2>2. (SessionsInOrder /\ LatestIsGone /\ OneEach)'
    BY <1>2, <2>1
  <2>3. PICK u : /\ leaves' = (leaves \ {t}) \cup {u}
                 /\ u.who = t.who /\ u.session = t.session /\ u.stage = "saving"
    BY <1>2, <2>1
  <2>4. ~Displaced(t) => t.who \notin Hydrating
    <3>1. t.awaited \in Nat /\ t.session <= t.awaited /\ t.awaited <= sessions[t.who]
      BY <2>1, TaskFields DEF BelongingsInv, Departures, SessionsInOrder
    <3>2. QED
      BY <1>1, <2>1, <3>1 DEF Displaced
  <2>5. LatestHydrated'
    BY <1>1, <2>1, <2>3, <2>4 DEF LatestHydrated, Displaced, Hydrating
  <2>6. LatestSaved'
    BY <1>1, <2>1, <2>3
    DEF LatestSaved, SavedAs, Stored, Displaced, Present, storeVars, repoVars
  <2>7. QED
    BY <2>2, <2>5, <2>6 DEF Departures
<1>4. CASE SaveOnLeave(t)
  <2>1. /\ UNCHANGED <<players, connected, sessions, joinHydrationTasks>>
        /\ t.stage = "saving" /\ Advance(t, "removing")
    BY <1>4 DEF SaveOnLeave
  <2>2. (SessionsInOrder /\ LatestIsGone /\ OneEach)'
    BY <1>2, <2>1
  <2>3. PICK u : /\ leaves' = (leaves \ {t}) \cup {u}
                 /\ u.who = t.who /\ u.session = t.session /\ u.stage = "removing"
    BY <1>2, <2>1
  <2>4. LatestHydrated'
    BY <1>1, <2>1, <2>3 DEF LatestHydrated, Displaced, Hydrating
  <2>5. /\ t.who \in Present => t.who \notin DOMAIN inventorySaveTimers' /\ SavedAs(t.who)'
        /\ DOMAIN inventorySaveTimers' \subseteq DOMAIN inventorySaveTimers
        /\ \A q \in Player : q # t.who /\ q \notin unstored' =>
               q \notin unstored /\ Stored(q)' = Stored(q)
    <3>1. CASE t.who \in Present
      <4>1. SavePlayerInventory(t.who, players[t.who].pack) /\ players[t.who].pack \in Bag
        BY <1>1, <1>4, <3>1, StateFields DEF SaveOnLeave
      <4>2. QED
        BY <1>1, <2>1, <4>1, SaveType DEF SavedAs
    <3>2. CASE t.who \notin Present
      BY <1>4, <3>2 DEF SaveOnLeave, Without, repoVars, Stored
    <3>3. QED
      BY <3>1, <3>2
  <2>6. LatestSaved'
    <3> SUFFICES ASSUME NEW v \in leaves', ~Displaced(v)', v.stage = "removing",
                        v.who \in Present'
                 PROVE  v.who \notin DOMAIN inventorySaveTimers' /\ SavedAs(v.who)'
      BY <2>1 DEF LatestSaved
    <3>1. CASE v.who = t.who
      BY <2>1, <2>5, <3>1 DEF Present
    <3>2. CASE v.who # t.who
      <4>1. v \in leaves /\ ~Displaced(v) /\ v.who \in Present
        BY <2>1, <2>3, <3>2 DEF Displaced, Present
      <4>2. v.who \in Player
        BY <1>1, <4>1, TaskFields
      <4>3. v.who \notin DOMAIN inventorySaveTimers /\ SavedAs(v.who)
        BY <1>1, <4>1 DEF LatestSaved
      <4>4. QED
        BY <2>1, <2>5, <3>2, <4>2, <4>3 DEF SavedAs
    <3>3. QED
      BY <3>1, <3>2
  <2>7. QED
    BY <2>2, <2>4, <2>6 DEF Departures
<1>5. CASE RemoveOnLeave(t)
  <2>1. /\ leaves' = leaves \ {t} /\ Remove(t.who)
        /\ UNCHANGED <<connected, sessions, inventoryRepo>>
    BY <1>5 DEF RemoveOnLeave
  <2>2. (SessionsInOrder /\ LatestIsGone /\ OneEach)'
    BY <2>1, SameDeparture
  <2>3. /\ Present' = Present \ {t.who} /\ Hydrating' \subseteq Hydrating
        /\ DOMAIN inventorySaveTimers' = DOMAIN inventorySaveTimers
        /\ \A q \in Present' : players'[q] = players[q] /\ (q \in unstored' <=> q \in unstored)
    BY <1>1, <2>1, RemoveType
  <2>4. LatestHydrated'
    BY <1>1, <2>1, <2>3 DEF LatestHydrated, Displaced
  <2>5. LatestSaved'
    BY <1>1, <2>1, <2>3 DEF LatestSaved, SavedAs, Stored, Displaced
  <2>6. QED
    BY <2>2, <2>4, <2>5 DEF Departures
<1>6. QED
  BY <1>3, <1>4, <1>5 DEF Depart

-----------------------------------------------------------------------------
(* Theorems                                                                *)

\* The invariant holds of every behaviour.
THEOREM BelongingsInvariant == RoomSpec => []BelongingsInv
<1>1. RoomInit => BelongingsInv
  <2>1. RoomInit => RoomTypeOK
    BY BelongingsAssumptions, SmallBags
    DEF RoomInit, Deserted, RoomTypeOK, IsMap, EmptyMap, Present
  <2>2. RoomInit => Departures
    BY DEF RoomInit, Deserted, Departures, SessionsInOrder, LatestIsGone, OneEach, LatestHydrated,
           LatestSaved
  <2>3. QED
    BY <2>1, <2>2 DEF BelongingsInv
<1>2. BelongingsInv /\ [RoomNext]_roomVars => BelongingsInv'
  <2> SUFFICES ASSUME BelongingsInv, [RoomNext]_roomVars PROVE BelongingsInv'
    OBVIOUS
  <2>1. RoomTypeOK'
    BY TypeStep DEF BelongingsInv
  <2>2. CASE UNCHANGED roomVars
    BY <2>1, <2>2
    DEF roomVars, BelongingsInv, Departures, SessionsInOrder, LatestIsGone, OneEach,
        LatestHydrated, LatestSaved, SavedAs, Stored, Displaced, Hydrating, Present
  <2>3. CASE RoomNext
    <3>1. Departures'
      BY <2>3, CommandDepartures, HydrateDepartures, DeathDepartures, JoinDepartures,
         EndDepartures, WaitedDepartures, DepartDepartures DEF RoomNext
    <3>2. QED
      BY <2>1, <3>1 DEF BelongingsInv
  <2>4. QED
    BY <2>2, <2>3
<1>3. QED
  BY <1>1, <1>2, PTL DEF RoomSpec

\* Maps, bags and tasks are well-formed, however joins, departures, deaths and
\* commands interleave.
THEOREM BelongingsTyped == RoomSpec => []RoomTypeOK
BY BelongingsInvariant, PTL DEF BelongingsInv

\* onLeave: what a departure is about to remove is what has been saved, unless
\* another session of the player has come in between, the store has refused the
\* save (which nobody notices), or another character of the account, whose rows
\* these are too, has been saved since.
THEOREM DeparturesSave == RoomSpec => []DeparturesAreSaved
<1>1. BelongingsInv => DeparturesAreSaved
  BY DEF BelongingsInv, Departures, LatestSaved, SavedAs, DeparturesAreSaved
<1>2. QED
  BY <1>1, BelongingsInvariant, PTL

-----------------------------------------------------------------------------
(* Two rooms and the pages that go between                                 *)

\* The room is seeing p off: an onLeave of its latest session has begun to clean up.
LeavingHub(p) ==
    \E t \in leaves : t.who = p /\ t.session = sessions[p] /\ t.stage # "waiting"
LeavingWilds(p) ==
    \E t \in wLeaves : t.who = p /\ t.session = wSessions[p] /\ t.stage # "waiting"
LeavingZone(p, z) == IF z = "hub" THEN LeavingHub(p) ELSE LeavingWilds(p)

TasksOK ==
    /\ sessions \in [Player -> Nat] /\ leaves \subseteq LeaveTask
    /\ wSessions \in [Player -> Nat] /\ wLeaves \subseteq LeaveTask

\* A player whose page has a zone, or is on the way from it, is in no other.
InNoOther(p) ==
    page[p].doing # "closed" /\ p \notin straddling =>
        \A z \in Zone \ {page[p].zone} : p \notin PresentIn(z)

\* One who is still in the zone the page is leaving is being seen off.
SeenOff(p) ==
    page[p].doing = "moving" /\ p \in PresentIn(page[p].zone) => LeavingZone(p, page[p].zone)

HandoffInv ==
    /\ TasksOK
    /\ page \in [Player -> Page]
    /\ \A p \in Player : InNoOther(p) /\ SeenOff(p)

\* What every step of a room keeps to but a join: nobody comes, and whoever is
\* being seen off is so until it is gone.
HubKeeps(q) ==
    /\ q \in Present' => q \in Present
    /\ q \in Present' /\ LeavingHub(q) => LeavingHub(q)'
WildsKeeps(q) ==
    /\ q \in Wilds!Present' => q \in Wilds!Present
    /\ q \in Wilds!Present' /\ LeavingWilds(q) => LeavingWilds(q)'

\* A room that keeps its sessions and whose departures go on or end with the
\* player keeps to it.
LEMMA HubKeepsRule ==
    ASSUME UNCHANGED sessions, Present' \subseteq Present,
           \A t \in leaves : t.stage # "waiting" /\ t.who \in Present' =>
               \E u \in leaves' : u.who = t.who /\ u.session = t.session /\ u.stage # "waiting"
    PROVE  \A q : HubKeeps(q)
BY DEF HubKeeps, LeavingHub

\* What the hub does by itself.
LEMMA HubOwnSteps ==
    ASSUME TasksOK, HubGoesOn
    PROVE  TasksOK' /\ \A q : HubKeeps(q)
<1>1. UNCHANGED <<wSessions, wLeaves>>
  BY DEF HubGoesOn, wildsVars
<1>2. ASSUME UNCHANGED <<sessions, leaves>>, Present' \subseteq Present
      PROVE  TasksOK' /\ \A q : HubKeeps(q)
  BY <1>1, <1>2, HubKeepsRule DEF TasksOK
<1>3. CASE \E p \in Player : Hydrate(p) \/ SaveDue(p)
  <2>1. UNCHANGED <<sessions, leaves>> /\ Present' = Present
    BY <1>3 DEF Hydrate, GrantStarterKit, LoadInventory, LoadFails, SaveDue, sessionVars,
                Present
  <2>2. QED
    BY <1>2, <2>1
<1>4. CASE Command
  <2>1. UNCHANGED <<sessions, leaves>> /\ Present' = Present
    BY <1>4 DEF Command, Take, DropItem, TakeFromCorpse, Loot, Equip, Unequip, Now,
                sessionVars, Present
  <2>2. QED
    BY <1>2, <2>1
<1>5. CASE \E p \in Player : Die(p) \/ CorpseAppears(p) \/ RemoveOnDeath(p)
  <2>1. UNCHANGED <<sessions, leaves>> /\ Present' \subseteq Present
    BY <1>5 DEF Die, CorpseAppears, RemoveOnDeath, Remove, Without, sessionVars, Present
  <2>2. QED
    BY <1>2, <2>1
<1>6. ASSUME NEW t \in leaves, Timeout(t)
      PROVE  TasksOK' /\ \A q : HubKeeps(q)
  <2>1. /\ UNCHANGED <<sessions, players>> /\ Present' = Present
        /\ t.stage = "waiting" /\ leaves \ {t} \subseteq leaves'
    BY <1>6 DEF Timeout, BeginLeave, Present
  <2>2. t.who \in Player /\ t.session \in Nat /\ sessions[t.who] \in Nat
    BY DEF TasksOK, LeaveTask
  <2>3. [who |-> t.who, session |-> t.session, awaited |-> sessions[t.who],
         stage |-> "hydrating"] \in LeaveTask
    BY <2>2 DEF LeaveTask
  <2>4. leaves' \subseteq LeaveTask
    BY <1>6, <2>3 DEF Timeout, BeginLeave, TasksOK
  <2>5. \A q : HubKeeps(q)
    BY <2>1, HubKeepsRule
  <2>6. QED
    BY <1>1, <2>1, <2>4, <2>5 DEF TasksOK
<1>7. ASSUME NEW t \in leaves, Depart(t)
      PROVE  TasksOK' /\ \A q : HubKeeps(q)
  <2>1. t \in LeaveTask
    BY DEF TasksOK
  <2>2. ASSUME NEW x \in {"saving", "removing"}, Advance(t, x), UNCHANGED <<sessions, players>>
        PROVE  TasksOK' /\ \A q : HubKeeps(q)
    <3>1. PICK u \in LeaveTask : /\ leaves' = (leaves \ {t}) \cup {u}
                                 /\ u.who = t.who /\ u.session = t.session /\ u.stage = x
      BY <2>1, <2>2, AdvanceStep
    <3>2. \A q : HubKeeps(q)
      BY <2>2, <3>1, HubKeepsRule DEF Present
    <3>3. QED
      BY <1>1, <2>2, <3>1, <3>2 DEF TasksOK
  <2>3. CASE HydrationAwaited(t) \/ SaveOnLeave(t)
    BY <2>2, <2>3 DEF HydrationAwaited, SaveOnLeave
  <2>4. CASE RemoveOnLeave(t)
    <3>1. leaves' = leaves \ {t} /\ UNCHANGED sessions /\ Present' = Present \ {t.who}
      BY <2>4 DEF RemoveOnLeave, Remove, Without, Present
    <3>2. \A q : HubKeeps(q)
      BY <3>1, HubKeepsRule
    <3>3. QED
      BY <1>1, <3>1, <3>2 DEF TasksOK
  <2>5. QED
    BY <1>7, <2>3, <2>4 DEF Depart
<1>8. QED
  BY <1>3, <1>4, <1>5, <1>6, <1>7 DEF HubGoesOn

\* What the page of p does to the hub.
LEMMA HubSeenFromPage ==
    ASSUME TasksOK, NEW p \in Player, UNCHANGED <<wSessions, wLeaves>>
    PROVE  /\ Leave(p) => /\ TasksOK' /\ \A q : HubKeeps(q)
                          /\ p \in Present' => LeavingHub(p)'
           /\ Drop(p) => TasksOK' /\ (\A q : HubKeeps(q))
           /\ (\E t \in leaves : Reconnect(t)) => TasksOK' /\ (\A q : HubKeeps(q))
           /\ Join(p) => /\ TasksOK' /\ p \in Present'
                         /\ \A q : q # p => HubKeeps(q)
<1>1. sessions[p] \in Nat
  BY DEF TasksOK
<1>2. ASSUME Leave(p)
      PROVE  TasksOK' /\ (\A q : HubKeeps(q)) /\ (p \in Present' => LeavingHub(p)')
  <2> DEFINE u == [who |-> p, session |-> sessions[p], awaited |-> sessions[p],
                   stage |-> "hydrating"]
  <2>1. u \in LeaveTask /\ u.who = p /\ u.session = sessions[p] /\ u.stage = "hydrating"
    BY <1>1 DEF LeaveTask
  <2>2. /\ UNCHANGED <<sessions, players>>
        /\ leaves' = leaves \cup IF p \in Present THEN {u} ELSE {}
    BY <1>2 DEF Leave, BeginLeave
  <2> HIDE DEF u
  <2>3. \A q : HubKeeps(q)
    BY <2>2, HubKeepsRule DEF Present
  <2>4. QED
    BY <2>1, <2>2, <2>3 DEF TasksOK, LeavingHub, Present
<1>3. ASSUME Drop(p)
      PROVE  TasksOK' /\ \A q : HubKeeps(q)
  <2> DEFINE u == [who |-> p, session |-> sessions[p], awaited |-> 0, stage |-> "waiting"]
  <2>1. u \in LeaveTask
    BY <1>1 DEF LeaveTask
  <2>2. UNCHANGED <<sessions, players>> /\ leaves' = leaves \cup {u}
    BY <1>3 DEF Drop
  <2> HIDE DEF u
  <2>3. \A q : HubKeeps(q)
    BY <2>2, HubKeepsRule DEF Present
  <2>4. QED
    BY <2>1, <2>2, <2>3 DEF TasksOK
<1>4. ASSUME NEW t \in leaves, Reconnect(t)
      PROVE  TasksOK' /\ \A q : HubKeeps(q)
  <2>1. UNCHANGED <<sessions, players>> /\ leaves' = leaves \ {t} /\ t.stage = "waiting"
    BY <1>4 DEF Reconnect
  <2>2. \A q : HubKeeps(q)
    BY <2>1, HubKeepsRule DEF Present
  <2>3. QED
    BY <2>1, <2>2 DEF TasksOK
<1>5. ASSUME Join(p)
      PROVE  TasksOK' /\ p \in Present' /\ \A q : q # p => HubKeeps(q)
  <2>1. /\ UNCHANGED leaves /\ sessions' = [sessions EXCEPT ![p] = @ + 1]
        /\ Present' = Present \cup {p}
    BY <1>5 DEF Join, Put, Present
  <2>2. ASSUME NEW q, q # p PROVE HubKeeps(q)
    <3>1. \A t \in leaves : t.who \in Player
      BY DEF TasksOK, LeaveTask
    <3>2. QED
      BY <2>1, <2>2, <3>1 DEF HubKeeps, LeavingHub, TasksOK
  <2>3. QED
    BY <2>1, <2>2 DEF TasksOK
<1>6. QED
  BY <1>2, <1>3, <1>4, <1>5
\* The same for the wilds.
LEMMA WildsKeepsRule ==
    ASSUME UNCHANGED wSessions, Wilds!Present' \subseteq Wilds!Present,
           \A t \in wLeaves : t.stage # "waiting" /\ t.who \in Wilds!Present' =>
               \E u \in wLeaves' : u.who = t.who /\ u.session = t.session /\ u.stage # "waiting"
    PROVE  \A q : WildsKeeps(q)
BY DEF WildsKeeps, LeavingWilds

\* A departure from the wilds at another stage.
LEMMA WildsAdvanceStep ==
    ASSUME NEW t \in LeaveTask, NEW x \in {"saving", "removing"}, Wilds!Advance(t, x)
    PROVE  \E u \in LeaveTask :
              /\ wLeaves' = (wLeaves \ {t}) \cup {u}
              /\ u.who = t.who /\ u.session = t.session /\ u.stage = x
<1> DEFINE u == [t EXCEPT !.stage = x, !.awaited = 0]
<1>1. t \in [who : Player, session : Nat, awaited : Nat,
             stage : {"waiting", "hydrating", "saving", "removing"}]
  BY DEF LeaveTask
<1>2. u \in LeaveTask
  BY <1>1 DEF LeaveTask
<1>3. u.who = t.who /\ u.session = t.session /\ u.stage = x
  BY <1>1
<1>4. wLeaves' = (wLeaves \ {t}) \cup {u}
  BY DEF Wilds!Advance
<1> HIDE DEF u
<1>5. QED
  BY <1>2, <1>3, <1>4

\* What the wilds do by themselves.
LEMMA WildsOwnSteps ==
    ASSUME TasksOK, WildsGoOn
    PROVE  TasksOK' /\ \A q : WildsKeeps(q)
<1>1. UNCHANGED <<sessions, leaves>>
  BY DEF WildsGoOn, hubVars, sessionVars
<1>2. ASSUME UNCHANGED <<wSessions, wLeaves>>, Wilds!Present' \subseteq Wilds!Present
      PROVE  TasksOK' /\ \A q : WildsKeeps(q)
  BY <1>1, <1>2, WildsKeepsRule DEF TasksOK
<1>3. CASE \E p \in Player : Wilds!Hydrate(p) \/ Wilds!SaveDue(p)
  <2>1. UNCHANGED <<wSessions, wLeaves>> /\ Wilds!Present' = Wilds!Present
    BY <1>3 DEF Wilds!Hydrate, Wilds!GrantStarterKit, Wilds!LoadInventory, Wilds!LoadFails,
                Wilds!SaveDue,
                Wilds!sessionVars, Wilds!Present
  <2>2. QED
    BY <1>2, <2>1
<1>4. CASE Wilds!Command
  <2>1. UNCHANGED <<wSessions, wLeaves>> /\ Wilds!Present' = Wilds!Present
    BY <1>4 DEF Wilds!Command, Wilds!Take, Wilds!DropItem, Wilds!TakeFromCorpse, Wilds!Loot,
                Wilds!Equip, Wilds!Unequip, Wilds!Now, Wilds!sessionVars, Wilds!Present
  <2>2. QED
    BY <1>2, <2>1
<1>5. CASE \E p \in Player : Wilds!Die(p) \/ Wilds!CorpseAppears(p) \/ Wilds!RemoveOnDeath(p)
  <2>1. UNCHANGED <<wSessions, wLeaves>> /\ Wilds!Present' \subseteq Wilds!Present
    BY <1>5 DEF Wilds!Die, Wilds!CorpseAppears, Wilds!RemoveOnDeath, Wilds!Remove, Wilds!Without,
                Wilds!sessionVars, Wilds!Present
  <2>2. QED
    BY <1>2, <2>1
<1>6. ASSUME NEW t \in wLeaves, Wilds!Timeout(t)
      PROVE  TasksOK' /\ \A q : WildsKeeps(q)
  <2>1. /\ UNCHANGED <<wSessions, wPlayers>> /\ Wilds!Present' = Wilds!Present
        /\ t.stage = "waiting" /\ wLeaves \ {t} \subseteq wLeaves'
    BY <1>6 DEF Wilds!Timeout, Wilds!BeginLeave, Wilds!Present
  <2>2. t.who \in Player /\ t.session \in Nat /\ wSessions[t.who] \in Nat
    BY DEF TasksOK, LeaveTask
  <2>3. [who |-> t.who, session |-> t.session, awaited |-> wSessions[t.who],
         stage |-> "hydrating"] \in LeaveTask
    BY <2>2 DEF LeaveTask
  <2>4. wLeaves' \subseteq LeaveTask
    BY <1>6, <2>3 DEF Wilds!Timeout, Wilds!BeginLeave, TasksOK
  <2>5. \A q : WildsKeeps(q)
    BY <2>1, WildsKeepsRule
  <2>6. QED
    BY <1>1, <2>1, <2>4, <2>5 DEF TasksOK
<1>7. ASSUME NEW t \in wLeaves, Wilds!Depart(t)
      PROVE  TasksOK' /\ \A q : WildsKeeps(q)
  <2>1. t \in LeaveTask
    BY DEF TasksOK
  <2>2. ASSUME NEW x \in {"saving", "removing"}, Wilds!Advance(t, x),
               UNCHANGED <<wSessions, wPlayers>>
        PROVE  TasksOK' /\ \A q : WildsKeeps(q)
    <3>1. PICK u \in LeaveTask : /\ wLeaves' = (wLeaves \ {t}) \cup {u}
                                 /\ u.who = t.who /\ u.session = t.session /\ u.stage = x
      BY <2>1, <2>2, WildsAdvanceStep
    <3>2. \A q : WildsKeeps(q)
      BY <2>2, <3>1, WildsKeepsRule DEF Wilds!Present
    <3>3. QED
      BY <1>1, <2>2, <3>1, <3>2 DEF TasksOK
  <2>3. CASE Wilds!HydrationAwaited(t) \/ Wilds!SaveOnLeave(t)
    BY <2>2, <2>3 DEF Wilds!HydrationAwaited, Wilds!SaveOnLeave
  <2>4. CASE Wilds!RemoveOnLeave(t)
    <3>1. wLeaves' = wLeaves \ {t} /\ UNCHANGED wSessions /\ Wilds!Present' = Wilds!Present \ {t.who}
      BY <2>4 DEF Wilds!RemoveOnLeave, Wilds!Remove, Wilds!Without, Wilds!Present
    <3>2. \A q : WildsKeeps(q)
      BY <3>1, WildsKeepsRule
    <3>3. QED
      BY <1>1, <3>1, <3>2 DEF TasksOK
  <2>5. QED
    BY <1>7, <2>3, <2>4 DEF Wilds!Depart
<1>8. QED
  BY <1>3, <1>4, <1>5, <1>6, <1>7 DEF WildsGoOn

\* What the page of p does to the wilds.
LEMMA WildsSeenFromPage ==
    ASSUME TasksOK, NEW p \in Player, UNCHANGED <<sessions, leaves>>
    PROVE  /\ Wilds!Leave(p) => /\ TasksOK' /\ \A q : WildsKeeps(q)
                                /\ p \in Wilds!Present' => LeavingWilds(p)'
           /\ Wilds!Drop(p) => TasksOK' /\ (\A q : WildsKeeps(q))
           /\ (\E t \in wLeaves : Wilds!Reconnect(t)) => TasksOK' /\ (\A q : WildsKeeps(q))
           /\ Wilds!Join(p) => /\ TasksOK' /\ p \in Wilds!Present'
                               /\ \A q : q # p => WildsKeeps(q)
<1>1. wSessions[p] \in Nat
  BY DEF TasksOK
<1>2. ASSUME Wilds!Leave(p)
      PROVE  TasksOK' /\ (\A q : WildsKeeps(q)) /\ (p \in Wilds!Present' => LeavingWilds(p)')
  <2> DEFINE u == [who |-> p, session |-> wSessions[p], awaited |-> wSessions[p],
                   stage |-> "hydrating"]
  <2>1. u \in LeaveTask /\ u.who = p /\ u.session = wSessions[p] /\ u.stage = "hydrating"
    BY <1>1 DEF LeaveTask
  <2>2. /\ UNCHANGED <<wSessions, wPlayers>>
        /\ wLeaves' = wLeaves \cup IF p \in Wilds!Present THEN {u} ELSE {}
    BY <1>2 DEF Wilds!Leave, Wilds!BeginLeave
  <2> HIDE DEF u
  <2>3. \A q : WildsKeeps(q)
    BY <2>2, WildsKeepsRule DEF Wilds!Present
  <2>4. QED
    BY <2>1, <2>2, <2>3 DEF TasksOK, LeavingWilds, Wilds!Present
<1>3. ASSUME Wilds!Drop(p)
      PROVE  TasksOK' /\ \A q : WildsKeeps(q)
  <2> DEFINE u == [who |-> p, session |-> wSessions[p], awaited |-> 0, stage |-> "waiting"]
  <2>1. u \in LeaveTask
    BY <1>1 DEF LeaveTask
  <2>2. UNCHANGED <<wSessions, wPlayers>> /\ wLeaves' = wLeaves \cup {u}
    BY <1>3 DEF Wilds!Drop
  <2> HIDE DEF u
  <2>3. \A q : WildsKeeps(q)
    BY <2>2, WildsKeepsRule DEF Wilds!Present
  <2>4. QED
    BY <2>1, <2>2, <2>3 DEF TasksOK
<1>4. ASSUME NEW t \in wLeaves, Wilds!Reconnect(t)
      PROVE  TasksOK' /\ \A q : WildsKeeps(q)
  <2>1. UNCHANGED <<wSessions, wPlayers>> /\ wLeaves' = wLeaves \ {t} /\ t.stage = "waiting"
    BY <1>4 DEF Wilds!Reconnect
  <2>2. \A q : WildsKeeps(q)
    BY <2>1, WildsKeepsRule DEF Wilds!Present
  <2>3. QED
    BY <2>1, <2>2 DEF TasksOK
<1>5. ASSUME Wilds!Join(p)
      PROVE  TasksOK' /\ p \in Wilds!Present' /\ \A q : q # p => WildsKeeps(q)
  <2>1. /\ UNCHANGED wLeaves /\ wSessions' = [wSessions EXCEPT ![p] = @ + 1]
        /\ Wilds!Present' = Wilds!Present \cup {p}
    BY <1>5 DEF Wilds!Join, Wilds!Put, Wilds!Present
  <2>2. ASSUME NEW q, q # p PROVE WildsKeeps(q)
    <3>1. \A t \in wLeaves : t.who \in Player
      BY DEF TasksOK, LeaveTask
    <3>2. QED
      BY <2>1, <2>2, <3>1 DEF WildsKeeps, LeavingWilds, TasksOK
  <2>3. QED
    BY <2>1, <2>2 DEF TasksOK
<1>6. QED
  BY <1>2, <1>3, <1>4, <1>5

\* A room whose variables stay the same keeps to it too.
LEMMA RoomsAtRest ==
    /\ UNCHANGED hubVars => UNCHANGED <<sessions, leaves>> /\ Present' = Present
                            /\ \A q : HubKeeps(q)
    /\ UNCHANGED wildsVars => UNCHANGED <<wSessions, wLeaves>> /\ Wilds!Present' = Wilds!Present
                              /\ \A q : WildsKeeps(q)
BY DEF hubVars, wildsVars, sessionVars, HubKeeps, WildsKeeps, LeavingHub, LeavingWilds,
       Present, Wilds!Present

\* Whose page stays as it is while the rooms keep to what they do.
LEMMA PageAtRest ==
    ASSUME HandoffInv, NEW q \in Player, page'[q] = page[q],
           q \in straddling => q \in straddling', HubKeeps(q), WildsKeeps(q)
    PROVE  (InNoOther(q) /\ SeenOff(q))'
<1>1. InNoOther(q) /\ SeenOff(q)
  BY DEF HandoffInv
<1>2. \A z \in Zone : /\ q \in PresentIn(z)' => q \in PresentIn(z)
                      /\ q \in PresentIn(z)' /\ LeavingZone(q, z) => LeavingZone(q, z)'
  BY DEF Zone, PresentIn, LeavingZone, HubKeeps, WildsKeeps
<1>3. page[q].zone \in Zone
  BY DEF HandoffInv, Page
<1>4. QED
  BY <1>1, <1>2, <1>3 DEF InNoOther, SeenOff

\* All but p are as they were, and p is seen to by itself.
LEMMA OnePageMoves ==
    ASSUME HandoffInv, NEW p \in Player, NEW pg \in Page, Becomes(p, pg), TasksOK',
           \A q \in Player : q # p => /\ HubKeeps(q) /\ WildsKeeps(q)
                                      /\ q \in straddling => q \in straddling',
           (InNoOther(p) /\ SeenOff(p))'
    PROVE  HandoffInv'
<1>1. page' = [page EXCEPT ![p] = pg] /\ page \in [Player -> Page]
  BY DEF Becomes, HandoffInv
<1>2. page' \in [Player -> Page] /\ \A q \in Player : q # p => page'[q] = page[q]
  BY <1>1
<1>3. \A q \in Player : q # p => (InNoOther(q) /\ SeenOff(q))'
  BY <1>2, PageAtRest
<1>4. QED
  BY <1>2, <1>3 DEF HandoffInv

\* Pages.
LEMMA PageTypes ==
    ASSUME NEW z \in Zone, NEW w \in Zone
    PROVE  /\ {Closed, InZone(z), Lost(z), Moving(z, w)} \subseteq Page
           /\ Closed.doing = "closed"
           /\ InZone(z).doing = "in" /\ InZone(z).zone = z
           /\ Lost(z).doing = "lost" /\ Lost(z).zone = z
           /\ Moving(z, w).doing = "moving" /\ Moving(z, w).zone = z
BY DEF Closed, InZone, Lost, Moving, Page, Zone

\* The zones a page refers to.
LEMMA ZoneOfPage ==
    ASSUME HandoffInv, NEW p \in Player
    PROVE  page[p].zone \in Zone /\ page[p].to \in Zone
BY DEF HandoffInv, Page

\* A page that leaves, loses its connection or has it back.
LEMMA ZoneLeft ==
    ASSUME HandoffInv, NEW p \in Player, NEW z \in Zone,
           LeaveZone(p, z) \/ DropFrom(p, z) \/ ReconnectTo(p, z)
    PROVE  /\ TasksOK' /\ \A q : HubKeeps(q) /\ WildsKeeps(q)
           /\ LeaveZone(p, z) /\ p \in PresentIn(z)' => LeavingZone(p, z)'
<1>1. TasksOK
  BY DEF HandoffInv
<1>2. CASE z = "hub"
  <2>1. /\ UNCHANGED wildsVars
        /\ Leave(p) \/ Drop(p) \/ \E t \in leaves : Reconnect(t)
        /\ LeaveZone(p, z) => Leave(p)
    BY <1>2 DEF LeaveZone, DropFrom, ReconnectTo
  <2>2. UNCHANGED <<wSessions, wLeaves>> /\ \A q : WildsKeeps(q)
    BY <2>1, RoomsAtRest
  <2>3. QED
    BY <1>1, <1>2, <2>1, <2>2, HubSeenFromPage DEF PresentIn, LeavingZone
<1>3. CASE z = "wilds"
  <2>1. /\ UNCHANGED hubVars
        /\ Wilds!Leave(p) \/ Wilds!Drop(p) \/ \E t \in wLeaves : Wilds!Reconnect(t)
        /\ LeaveZone(p, z) => Wilds!Leave(p)
    BY <1>3 DEF LeaveZone, DropFrom, ReconnectTo
  <2>2. UNCHANGED <<sessions, leaves>> /\ \A q : HubKeeps(q)
    BY <2>1, RoomsAtRest
  <2>3. QED
    BY <1>1, <1>3, <2>1, <2>2, WildsSeenFromPage DEF PresentIn, LeavingZone
<1>4. QED
  BY <1>2, <1>3 DEF Zone

\* A page that joins.
LEMMA ZoneJoined ==
    ASSUME HandoffInv, NEW p \in Player, NEW z \in Zone, JoinZone(p, z)
    PROVE  /\ TasksOK'
           /\ \A q : q # p => HubKeeps(q) /\ WildsKeeps(q)
           /\ \A w \in Zone \ {z} : PresentIn(w)' = PresentIn(w)
<1>1. TasksOK
  BY DEF HandoffInv
<1>2. CASE z = "hub"
  <2>1. UNCHANGED wildsVars /\ Join(p)
    BY <1>2 DEF JoinZone
  <2>2. UNCHANGED <<wSessions, wLeaves>> /\ Wilds!Present' = Wilds!Present
        /\ \A q : WildsKeeps(q)
    BY <2>1, RoomsAtRest
  <2>3. QED
    BY <1>1, <1>2, <2>1, <2>2, HubSeenFromPage DEF PresentIn, Zone
<1>3. CASE z = "wilds"
  <2>1. UNCHANGED hubVars /\ Wilds!Join(p)
    BY <1>3 DEF JoinZone
  <2>2. UNCHANGED <<sessions, leaves>> /\ Present' = Present /\ \A q : HubKeeps(q)
    BY <2>1, RoomsAtRest
  <2>3. QED
    BY <1>1, <1>3, <2>1, <2>2, WildsSeenFromPage DEF PresentIn, Zone
<1>4. QED
  BY <1>2, <1>3 DEF Zone

\* The invariant through a join, and through all that a page does with its room.
LEMMA JoinKeepsInv ==
    ASSUME HandoffInv, NEW p \in Player, NEW z \in Zone, JoinZone(p, z)
    PROVE  HandoffInv'
<1>1. /\ Becomes(p, InZone(z))
      /\ straddling' = IF \E w \in Zone \ {z} : p \in PresentIn(w)
                       THEN straddling \cup {p} ELSE straddling \ {p}
  BY DEF JoinZone
<1>2. InZone(z) \in Page /\ page'[p] = InZone(z)
  BY <1>1, PageTypes DEF HandoffInv, Becomes
<1>3. SeenOff(p)'
  BY <1>2, PageTypes DEF SeenOff
<1>4. InNoOther(p)'
  BY <1>1, <1>2, PageTypes, ZoneJoined DEF InNoOther
<1>5. QED
  BY <1>1, <1>2, <1>3, <1>4, ZoneJoined, OnePageMoves

LEMMA LeaveKeepsInv ==
    ASSUME HandoffInv, NEW p \in Player, UNCHANGED straddling,
           \/ \E w \in Zone : SwitchRoom(p, w)
           \/ LeaveAndClose(p) \/ Lose(p) \/ Resume(p)
    PROVE  HandoffInv'
<1>1. PICK z \in Zone : z = page[p].zone
  BY ZoneOfPage
<1>2. page[p].doing \in {"in", "lost"}
  BY DEF SwitchRoom, LeaveAndClose, Lose, Resume
<1>3. LeaveZone(p, z) \/ DropFrom(p, z) \/ ReconnectTo(p, z)
  BY <1>1 DEF SwitchRoom, LeaveAndClose, Lose, Resume
<1>4. \/ \E w \in Zone : LeaveZone(p, z) /\ Becomes(p, Moving(z, w))
      \/ \E pg \in {Closed, Lost(z), InZone(z)} : Becomes(p, pg)
  BY <1>1 DEF SwitchRoom, LeaveAndClose, Lose, Resume
<1>5. /\ TasksOK' /\ \A q : HubKeeps(q) /\ WildsKeeps(q)
      /\ LeaveZone(p, z) /\ p \in PresentIn(z)' => LeavingZone(p, z)'
  BY <1>1, <1>3, ZoneLeft
<1>6. p \notin straddling => \A v \in Zone \ {z} : p \notin PresentIn(v)'
  <2>1. p \notin straddling => \A v \in Zone \ {z} : p \notin PresentIn(v)
    BY <1>1, <1>2 DEF HandoffInv, InNoOther
  <2>2. \A v \in Zone : p \in PresentIn(v)' => p \in PresentIn(v)
    BY <1>5 DEF Zone, PresentIn, HubKeeps, WildsKeeps
  <2>3. QED
    BY <2>1, <2>2
<1>7. ASSUME NEW pg \in Page, Becomes(p, pg), pg.doing # "closed" => pg.zone = z,
             pg.doing = "moving" => LeaveZone(p, z)
      PROVE  HandoffInv'
  <2>1. page'[p] = pg
    BY <1>7 DEF HandoffInv, Becomes
  <2>2. InNoOther(p)'
    BY <1>6, <1>7, <2>1 DEF InNoOther
  <2>3. SeenOff(p)'
    BY <1>5, <1>7, <2>1 DEF SeenOff
  <2>4. QED
    BY <1>5, <1>7, <2>2, <2>3, OnePageMoves
<1>8. CASE \E w \in Zone : LeaveZone(p, z) /\ Becomes(p, Moving(z, w))
  BY <1>1, <1>7, <1>8, PageTypes
<1>9. CASE \E pg \in {Closed, Lost(z), InZone(z)} : Becomes(p, pg)
  BY <1>1, <1>7, <1>9, PageTypes
<1>10. QED
  BY <1>4, <1>8, <1>9

\* A page that has waited comes to no zone while it is still in another.
LEMMA ArrivesAlone ==
    ASSUME HandoffInv, NEW p \in Player, Arrive(p), p \notin straddling
    PROVE  p \notin straddling'
<1> DEFINE z == page[p].zone
<1>1. z \in Zone /\ page[p].to \in Zone
  BY ZoneOfPage
<1>2. /\ page[p].doing = "moving" /\ JoinZone(p, page[p].to) /\ Answered(p, z)
      /\ InNoOther(p) /\ SeenOff(p)
  BY DEF Arrive, Enter, HandoffInv
<1>3. ~LeavingZone(p, z)
  BY <1>1, <1>2 DEF Answered, LeavingZone, LeavingHub, LeavingWilds, Zone
<1>4. \A v \in Zone : p \notin PresentIn(v)
  BY <1>2, <1>3 DEF InNoOther, SeenOff
<1>5. QED
  BY <1>2, <1>4 DEF JoinZone

\* The invariant of both rooms and the pages holds of every behaviour.
THEOREM HandoffInvariant == Spec => []HandoffInv
<1>1. Init => HandoffInv
  <2> SUFFICES ASSUME Init PROVE HandoffInv
    OBVIOUS
  <2>1. TasksOK
    BY DEF Init, RoomInit, Deserted, Wilds!RoomInit, Wilds!Deserted, TasksOK
  <2>2. page \in [Player -> Page] /\ \A p \in Player : page[p].doing = "closed"
    BY PageTypes DEF Init, Zone
  <2>3. QED
    BY <2>1, <2>2 DEF HandoffInv, InNoOther, SeenOff
<1>2. HandoffInv /\ [Next]_vars => HandoffInv'
  <2> SUFFICES ASSUME HandoffInv, [Next]_vars PROVE HandoffInv'
    OBVIOUS
  <2>1. TasksOK /\ page \in [Player -> Page]
    BY DEF HandoffInv
  <2>2. ASSUME UNCHANGED pageVars, TasksOK', \A q : HubKeeps(q) /\ WildsKeeps(q)
        PROVE  HandoffInv'
    BY <2>1, <2>2, PageAtRest DEF HandoffInv, pageVars
  <2>3. CASE UNCHANGED vars
    <3>1. UNCHANGED <<hubVars, wildsVars, pageVars>>
      BY <2>3 DEF vars
    <3>2. TasksOK' /\ \A q : HubKeeps(q) /\ WildsKeeps(q)
      BY <2>1, <3>1, RoomsAtRest DEF TasksOK
    <3>3. QED
      BY <2>2, <3>1, <3>2
  <2>4. CASE HubGoesOn
    <3>1. UNCHANGED wildsVars /\ UNCHANGED pageVars
      BY <2>4 DEF HubGoesOn
    <3>2. QED
      BY <2>1, <2>2, <2>4, <3>1, RoomsAtRest, HubOwnSteps
  <2>5. CASE WildsGoOn
    <3>1. UNCHANGED hubVars /\ UNCHANGED pageVars
      BY <2>5 DEF WildsGoOn
    <3>2. QED
      BY <2>1, <2>2, <2>5, <3>1, RoomsAtRest, WildsOwnSteps
  <2>6. ASSUME NEW p \in Player, Open(p) \/ Arrive(p)
        PROVE  HandoffInv'
    <3>1. \E z \in Zone : JoinZone(p, z)
      BY <2>6, ZoneOfPage DEF Open, Arrive, Enter, Zone
    <3>2. QED
      BY <3>1, JoinKeepsInv
  <2>7. ASSUME NEW p \in Player, Refuse(p)
        PROVE  HandoffInv'
    <3>1. UNCHANGED hubVars /\ UNCHANGED wildsVars /\ UNCHANGED straddling /\ Becomes(p, Closed)
      BY <2>7 DEF Refuse
    <3>2. TasksOK' /\ \A q : HubKeeps(q) /\ WildsKeeps(q)
      BY <2>1, <3>1, RoomsAtRest DEF TasksOK
    <3>3. Closed \in Page /\ page'[p] = Closed /\ Closed.doing = "closed"
      BY <2>1, <3>1, PageTypes DEF Becomes, Zone
    <3>4. (InNoOther(p) /\ SeenOff(p))'
      BY <3>3 DEF InNoOther, SeenOff
    <3>5. QED
      BY <3>1, <3>2, <3>3, <3>4, OnePageMoves
  <2>8. ASSUME NEW p \in Player, \/ \E w \in Zone : SwitchRoom(p, w)
                                 \/ LeaveAndClose(p) \/ Lose(p) \/ Resume(p)
        PROVE  HandoffInv'
    <3>1. UNCHANGED straddling
      BY <2>8 DEF SwitchRoom, LeaveAndClose, Lose, Resume
    <3>2. QED
      BY <2>8, <3>1, LeaveKeepsInv
  <2>9. QED
    BY <2>3, <2>4, <2>5, <2>6, <2>7, <2>8 DEF Next
<1>3. QED
  BY <1>1, <1>2, PTL DEF Spec

\* switchRoom: whoever waits for the room it leaves to answer is in one zone at a
\* time, whatever saves, deaths and commands the two rooms are at; only opening a
\* page anew puts a player into a second one.
THEOREM WaitingSuffices == Spec => WaitingIsEnough
<1>1. HandoffInv /\ [Next]_vars => [\A p \in straddling' \ straddling : Open(p)]_vars
  <2> SUFFICES ASSUME HandoffInv, Next, NEW p \in straddling' \ straddling
               PROVE  Open(p)
    OBVIOUS
  <2>1. PICK q \in Player : Open(q) \/ Arrive(q)
    BY DEF Next, Refuse, SwitchRoom, LeaveAndClose, Lose, Resume, HubGoesOn, WildsGoOn, pageVars
  <2>2. straddling' \subseteq straddling \cup {q}
    BY <2>1 DEF Open, Arrive, Enter, JoinZone
  <2>3. p = q
    BY <2>2
  <2>4. QED
    BY <2>1, <2>3, ArrivesAlone
<1>2. QED
  BY <1>1, HandoffInvariant, PTL DEF Spec, WaitingIsEnough
=============================================================================
