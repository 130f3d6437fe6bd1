----------------------------- MODULE Belongings -----------------------------
(***************************************************************************)
(* What players carry, and where it is kept: the room, the corpses, the    *)
(* PlayerState of whoever is in the zone, the inventory repository for     *)
(* whoever is not.  A player is a character; the repository is keyed by    *)
(* its account, and an account may have several.  The item commands of     *)
(* commands/handlers move items at once; ZoneRoom loads them after a join, *)
(* saves them two seconds after the last change, when a player leaves and  *)
(* when one dies, and each of these awaits something while the others go   *)
(* on.                                                                     *)
(*                                                                         *)
(* Items of a kind are alike and stack; containers, and the loadout and    *)
(* stash services, are left out.  Players act in one room.  A read or a    *)
(* write of the repository takes effect when it is issued (bound), or it   *)
(* fails, and ZoneRoom goes on as if it had not; what is awaited is only   *)
(* the time it takes.  Who is hurt, and whether a player whose time to     *)
(* reconnect is over is downed, is any choice.                             *)
(***************************************************************************)
EXTENDS Integers, FiniteSets, Maps
LOCAL INSTANCE FiniteSetsExt

CONSTANTS
    Player,          \* characters
    Account,
    Owner,           \* player -> its account, as in ownerPlayerIds
    Kind,            \* item definitions
    Nothing,         \* an empty equipment slot
    Weight,          \* kind -> weight
    MAX_CARRY,       \* maxCarryWeight
    Soulbound,       \* the kinds that stay with their owner
    Wearable,        \* the kinds with an equipSlot
    StarterKit,      \* what grantStarterKit grants
    FirstItems,      \* what lies in the room at first
    MaxSessions,     \* bound: player -> how many times it joins
    MaxCopies        \* bound: kind -> no looting beyond so many of it in all

Bag == [Kind -> Nat]

ASSUME BelongingsAssumptions ==
    /\ Owner \in [Player -> Account]
    /\ Nothing \notin Kind
    /\ Weight \in [Kind -> Nat]
    /\ MAX_CARRY \in Nat
    /\ Soulbound \subseteq Kind
    /\ Wearable \subseteq Kind
    /\ StarterKit \in Bag
    /\ FirstItems \in Bag
    /\ MaxSessions \in [Player -> Nat]
    /\ MaxCopies \in [Kind -> Nat]

VARIABLES
    players,              \* player -> PlayerState
    connected,            \* players whose last session is connected and mapped
    sessions,             \* how many sessions the player has begun
    joinHydrationTasks,   \* player -> what its hydration does next
    inventorySaveTimers,  \* player -> the save that is due
    inventoryRepo,        \* account -> the saved inventory
    unstored,             \* for the properties: whose PlayerState was not stored by
                          \* its last save, or written over by another player's
    kitGranted,           \* starter_kit_granted
    roomItems,            \* what lies in the room
    corpses,              \* player -> contents of its corpse
    leaves,               \* onLeave calls that are suspended
    deaths                \* player -> its suspended handlePlayerDeath

roomVars == <<players, connected, sessions, joinHydrationTasks, inventorySaveTimers,
          inventoryRepo, unstored, kitGranted, roomItems, corpses, leaves, deaths>>

PlayerState == [pack : Bag, worn : Kind \cup {Nothing}]

\* A timer keeps the PlayerState it was set for; once that has been replaced
\* or removed (former) its inventory changes no more.
SaveTimer == [former : BOOLEAN, pack : Bag]

\* waiting  in allowReconnection     hydrating  awaiting the hydration
\* saving   awaiting the profile     removing   awaiting the run history
\* session is the one that leaves; awaited, while hydrating, the latest one when
\* that began.
LeaveTask == [who : Player, session : Nat, awaited : Nat,
              stage : {"waiting", "hydrating", "saving", "removing"}]

\* saving   the inventory is being saved, the corpse is not there yet
\* leaving  from there to the removal of the player
DeathTask == [session : Nat, corpse : Bag, stage : {"saving", "leaving"}]

-----------------------------------------------------------------------------
(* Bags *)

NoItems == [k \in Kind |-> 0]
One(k) == [NoItems EXCEPT ![k] = 1]
Plus(a, b) == [k \in Kind |-> a[k] + b[k]]
Minus(a, b) == [k \in Kind |-> a[k] - b[k]]
Total(BagOf(_), S) ==
    MapThenFoldSet(Plus, NoItems, BagOf, LAMBDA T : CHOOSE x \in T : TRUE, S)
Only(b, kinds) == [k \in Kind |-> IF k \in kinds THEN b[k] ELSE 0]
Kinds(b) == {k \in Kind : b[k] > 0}

\* currentWeight and canCarry
CurrentWeight(b) == MapThenSumSet(LAMBDA k : Weight[k] * b[k], Kind)
CanCarry(b, k) == CurrentWeight(b) + Weight[k] <= MAX_CARRY

\* offered, added one by one with addItem, can leave pack as got more: all
\* that fits, and what is left over would not fit any more.
Accepted(pack, offered, got) ==
    /\ \A k \in Kind : got[k] <= offered[k]
    /\ got # NoItems => CurrentWeight(Plus(pack, got)) <= MAX_CARRY
    /\ \A k \in Kind : got[k] < offered[k] => ~CanCarry(Plus(pack, got), k)

BagsIn(b) == [Kind -> 0..Max({b[k] : k \in Kind})]

-----------------------------------------------------------------------------

\* Nobody has come yet.
Deserted ==
    /\ players = EmptyMap
    /\ connected = {}
    /\ joinHydrationTasks = EmptyMap
    /\ inventorySaveTimers = EmptyMap
    /\ inventoryRepo = [a \in Account |-> NoItems]
    /\ unstored = {}
    /\ corpses = EmptyMap
    /\ leaves = {}
    /\ deaths = EmptyMap

RoomInit ==
    /\ Deserted
    /\ sessions = [p \in Player |-> 0]
    /\ kitGranted = {}
    /\ roomItems = FirstItems

Present == DOMAIN players
Hydrating == DOMAIN joinHydrationTasks

sessionVars == <<connected, sessions, leaves>>
repoVars == <<inventoryRepo, unstored>>
storeVars == <<inventorySaveTimers, repoVars>>
itemVars == <<roomItems, corpses>>

\* The save that is due for p, if any, is left with a PlayerState of the past.
Outdated(p) ==
    [q \in DOMAIN inventorySaveTimers |->
        IF q = p /\ ~inventorySaveTimers[q].former
        THEN [former |-> TRUE, pack |-> players[q].pack]
        ELSE inventorySaveTimers[q]]

Siblings(p) == {q \in Player \ {p} : Owner[q] = Owner[p]}

\* savePlayerInventory: a save that is due is called off, and what is stored for
\* the account replaced, unless that fails: the failure is caught.
SavePlayerInventory(p, pack) ==
    /\ inventorySaveTimers' = Without(inventorySaveTimers, {p})
    /\ \/ /\ inventoryRepo' = [inventoryRepo EXCEPT ![Owner[p]] = pack]
          /\ unstored' = (unstored \ {p}) \cup Siblings(p)
       \/ /\ unstored' = unstored \cup {p}
          /\ UNCHANGED inventoryRepo

\* players.delete, with the clean-up that ends the hydration at its next look.
Remove(p) ==
    /\ players' = Without(players, {p})
    /\ joinHydrationTasks' = Without(joinHydrationTasks, {p})
    /\ inventorySaveTimers' = IF p \in Present THEN Outdated(p) ELSE inventorySaveTimers
    /\ unstored' = unstored \ ({p} \cap Present)

-----------------------------------------------------------------------------
(* Sessions *)

\* onJoin: a fresh PlayerState, in place of the one that is there, and
\* hydrated from the beginning; the hydration of the session before ends.
Join(p) ==
    /\ sessions[p] < MaxSessions[p]
    /\ p \in connected => p \in Present
    /\ sessions' = [sessions EXCEPT ![p] = @ + 1]
    /\ connected' = connected \cup {p}
    /\ players' = Put(players, p, [pack |-> NoItems, worn |-> Nothing])
    /\ joinHydrationTasks' = Put(joinHydrationTasks, p, "kit")
    /\ inventorySaveTimers' = IF p \in Present THEN Outdated(p) ELSE inventorySaveTimers
    /\ unstored' = unstored \ {p}
    /\ UNCHANGED <<inventoryRepo, kitGranted, itemVars, leaves, deaths>>

\* grantStarterKit, once in the life of a character; nothing is saved.  The kit
\* may be granted already, or the store fail before it, or after it at the mark.
GrantStarterKit(p) ==
    /\ p \in Hydrating
    /\ joinHydrationTasks[p] = "kit"
    /\ \/ UNCHANGED <<players, kitGranted>>
       \/ /\ p \notin kitGranted
          /\ \E got \in BagsIn(StarterKit) \ {NoItems} :
                /\ Accepted(players[p].pack, StarterKit, got)
                /\ players' = [players EXCEPT ![p].pack = Plus(@, got)]
          /\ kitGranted' \in {kitGranted, kitGranted \cup {p}}
    /\ joinHydrationTasks' = [joinHydrationTasks EXCEPT ![p] = "load"]
    /\ UNCHANGED <<sessionVars, storeVars, itemVars, deaths>>

Stored(p) == inventoryRepo[Owner[p]]

\* Mutant: the task is not over after the load.
LoadInventoryAgain(p) ==
    /\ p \in Hydrating
    /\ joinHydrationTasks[p] = "load"
    /\ \E got \in BagsIn(Stored(p)) :
          /\ Accepted(players[p].pack, Stored(p), got)
          /\ players' = [players EXCEPT ![p].pack = Plus(@, got)]
    /\ UNCHANGED <<sessionVars, joinHydrationTasks, storeVars, kitGranted, itemVars, deaths>>

\* What is stored for the account is added to what the player has by now.
LoadInventory(p) ==
    /\ p \in Hydrating
    /\ joinHydrationTasks[p] = "load"
    /\ \E got \in BagsIn(Stored(p)) :
          /\ Accepted(players[p].pack, Stored(p), got)
          /\ players' = [players EXCEPT ![p].pack = Plus(@, got)]
    /\ joinHydrationTasks' = Without(joinHydrationTasks, {p})
    /\ UNCHANGED <<sessionVars, storeVars, kitGranted, itemVars, deaths>>

\* The load fails, and the hydration goes on to its end without it.
LoadFails(p) ==
    /\ p \in Hydrating
    /\ joinHydrationTasks[p] = "load"
    /\ joinHydrationTasks' = Without(joinHydrationTasks, {p})
    /\ UNCHANGED <<players, sessionVars, storeVars, kitGranted, itemVars, deaths>>

\* onLeave after a connection loss, up to allowReconnection.  The last session
\* does not lose its connection (bound).
Drop(p) ==
    /\ p \in connected
    /\ sessions[p] < MaxSessions[p]
    /\ connected' = connected \ {p}
    /\ leaves' = leaves \cup {[who |-> p, session |-> sessions[p], awaited |-> 0, stage |-> "waiting"]}
    /\ UNCHANGED <<players, sessions, joinHydrationTasks, storeVars, kitGranted, itemVars, deaths>>

\* The session comes back; when it has been displaced, to no player.
Reconnect(t) ==
    /\ t \in leaves
    /\ t.stage = "waiting"
    /\ leaves' = leaves \ {t}
    /\ connected' = connected \cup IF t.session = sessions[t.who] THEN {t.who} ELSE {}
    /\ UNCHANGED <<players, sessions, joinHydrationTasks, storeVars, kitGranted, itemVars, deaths>>

\* The clean-up of onLeave begins, if the room has the player.
BeginLeave(p, session, others) ==
    leaves' = others \cup
        IF p \in Present
        THEN {[who |-> p, session |-> session, awaited |-> sessions[p], stage |-> "hydrating"]}
        ELSE {}

\* Too late to reconnect: the same clean-up, unless the player is downed.
Timeout(t) ==
    /\ t \in leaves
    /\ t.stage = "waiting"
    /\ \/ BeginLeave(t.who, t.session, leaves \ {t})
       \/ leaves' = leaves \ {t}
    /\ UNCHANGED <<players, connected, sessions, joinHydrationTasks, storeVars,
                   kitGranted, itemVars, deaths>>

\* onLeave with code 4000.
Leave(p) ==
    /\ p \in connected
    /\ connected' = connected \ {p}
    /\ BeginLeave(p, sessions[p], leaves)
    /\ UNCHANGED <<players, sessions, joinHydrationTasks, storeVars, kitGranted, itemVars, deaths>>

Advance(t, stage) ==
    leaves' = (leaves \ {t}) \cup {[t EXCEPT !.stage = stage, !.awaited = 0]}

\* Mutant: the hydration is not waited for.
HydrationSkipped(t) ==
    /\ t \in leaves
    /\ t.stage = "hydrating"
    /\ Advance(t, "saving")
    /\ UNCHANGED <<players, connected, sessions, joinHydrationTasks, storeVars,
                   kitGranted, itemVars, deaths>>

\* The hydration that was going on is over, by itself or for a newer session.
HydrationAwaited(t) ==
    /\ t \in leaves
    /\ t.stage = "hydrating"
    /\ t.who \in Hydrating => sessions[t.who] # t.awaited
    /\ Advance(t, "saving")
    /\ UNCHANGED <<players, connected, sessions, joinHydrationTasks, storeVars,
                   kitGranted, itemVars, deaths>>

\* Whatever PlayerState the room has for the player now is saved; if it has none
\* the save that is due is called off all the same.
SaveOnLeave(t) ==
    /\ t \in leaves
    /\ t.stage = "saving"
    /\ Advance(t, "removing")
    /\ IF t.who \in Present
       THEN SavePlayerInventory(t.who, players[t.who].pack)
       ELSE /\ inventorySaveTimers' = Without(inventorySaveTimers, {t.who})
            /\ UNCHANGED repoVars
    /\ UNCHANGED <<players, connected, sessions, joinHydrationTasks, kitGranted, itemVars, deaths>>

\* And removed, whoever's session it belongs to.
RemoveOnLeave(t) ==
    /\ t \in leaves
    /\ t.stage = "removing"
    /\ leaves' = leaves \ {t}
    /\ Remove(t.who)
    /\ UNCHANGED <<connected, sessions, inventoryRepo, kitGranted, itemVars, deaths>>

\* The two seconds are over.  For a player who is gone the owner's id is gone
\* too, and the write goes nowhere.  (A player without a character, who goes by
\* the account's own id, is left out.)
SaveDue(p) ==
    /\ p \in DOMAIN inventorySaveTimers
    /\ IF p \in Present
       THEN SavePlayerInventory(p, IF inventorySaveTimers[p].former
                                   THEN inventorySaveTimers[p].pack ELSE players[p].pack)
       ELSE /\ inventorySaveTimers' = Without(inventorySaveTimers, {p})
            /\ UNCHANGED repoVars
    /\ UNCHANGED <<players, sessionVars, joinHydrationTasks, kitGranted, itemVars, deaths>>

-----------------------------------------------------------------------------
(* Where all the items are *)

\* The death of p has put what p wears into the corpse to be.
WornIsGone(p) ==
    p \in DOMAIN deaths /\ deaths[p].stage = "saving" /\ deaths[p].session = sessions[p]

\* What p has on it.
Carried(p) ==
    IF p \notin Present THEN NoItems
    ELSE [k \in Kind |->
            players[p].pack[k]
            + IF players[p].worn = k /\ ~WornIsGone(p) THEN 1 ELSE 0]

\* Somebody plays with what is stored for account a, or what was.
InPlay(a) == \E p \in Present \ Hydrating : Owner[p] = a

\* What is stored for a and will be somebody's.
ToLoad(a) == IF InPlay(a) THEN NoItems ELSE inventoryRepo[a]

\* What is in the corpse of p, or about to be.
Remains(p) ==
    Plus(IF p \in DOMAIN corpses THEN corpses[p] ELSE NoItems,
         IF p \in DOMAIN deaths THEN deaths[p].corpse ELSE NoItems)

\* All the items there are.
AllItems ==
    Plus(roomItems, Plus(Total(LAMBDA p : Plus(Carried(p), Remains(p)), Player),
                         Total(ToLoad, Account)))

-----------------------------------------------------------------------------
(* Commands, from one that is here; a player struck dead a moment ago, who *)
(* is no longer downed and not yet removed, is                             *)

MayCommand(p) == p \in connected \cap Present

\* A command leaves p with s.  A save is due only if the number of different
\* items has changed.
Now(p, s) ==
    /\ players' = [players EXCEPT ![p] = s]
    /\ inventorySaveTimers' =
          IF Cardinality(Kinds(s.pack)) # Cardinality(Kinds(players[p].pack))
          THEN Put(inventorySaveTimers, p, [former |-> FALSE, pack |-> NoItems])
          ELSE inventorySaveTimers
    /\ UNCHANGED <<sessionVars, joinHydrationTasks, repoVars, kitGranted, deaths>>

Carrying(p, b) == [players[p] EXCEPT !.pack = b]

\* take
Take(p, k) ==
    /\ MayCommand(p)
    /\ roomItems[k] > 0
    /\ CanCarry(players[p].pack, k)
    /\ roomItems' = Minus(roomItems, One(k))
    /\ Now(p, Carrying(p, Plus(players[p].pack, One(k))))
    /\ UNCHANGED corpses

\* drop
DropItem(p, k) ==
    /\ MayCommand(p)
    /\ players[p].pack[k] > 0
    /\ roomItems' = Plus(roomItems, One(k))
    /\ Now(p, Carrying(p, Minus(players[p].pack, One(k))))
    /\ UNCHANGED corpses

\* take from a corpse
TakeFromCorpse(p, c, k) ==
    /\ MayCommand(p)
    /\ c \in DOMAIN corpses
    /\ corpses[c][k] > 0
    /\ CanCarry(players[p].pack, k)
    /\ corpses' = [corpses EXCEPT ![c] = Minus(@, One(k))]
    /\ Now(p, Carrying(p, Plus(players[p].pack, One(k))))
    /\ UNCHANGED roomItems

\* loot: all that can be carried.  removeItemFromContainer returns the corpse
\* without the item, loot keeps the one with it.
Loot(p, c) ==
    /\ MayCommand(p)
    /\ c \in DOMAIN corpses
    /\ \E got \in BagsIn(corpses[c]) \ {NoItems} :
          /\ Accepted(players[p].pack, corpses[c], got)
          /\ \A k \in Kind : AllItems[k] + got[k] <= MaxCopies[k]
          /\ Now(p, Carrying(p, Plus(players[p].pack, got)))
    /\ UNCHANGED itemVars

\* equip: k out of the pack, what was worn back into it if it can be carried.
Equip(p, k) ==
    LET worn == players[p].worn
        left == Minus(players[p].pack, One(k))
    IN  /\ MayCommand(p)
        /\ k \in Wearable
        /\ players[p].pack[k] > 0
        /\ Now(p, [worn |-> k,
                   pack |-> IF worn # Nothing /\ CanCarry(left, worn)
                            THEN Plus(left, One(worn)) ELSE left])
        /\ UNCHANGED itemVars

\* unequip
Unequip(p) ==
    LET s == players[p]
    IN  /\ MayCommand(p)
        /\ s.worn # Nothing
        /\ CanCarry(s.pack, s.worn)
        /\ Now(p, [worn |-> Nothing, pack |-> Plus(s.pack, One(s.worn))])
        /\ UNCHANGED itemVars

-----------------------------------------------------------------------------
(* Death and decay *)

Unbound == Kind \ Soulbound

\* What one that is wearing k leaves of it in the corpse.
WornRemains(k) == IF k \in Unbound THEN One(k) ELSE NoItems

\* handlePlayerDeath up to its first await: the soulbound part of the pack is
\* kept and saved, the rest and what is worn will be in the corpse.
\* One death of a player at a time (bound).
Die(p) ==
    LET s == players[p]
        kept == Only(s.pack, Soulbound)
    IN  /\ p \in Present
        /\ p \notin DOMAIN deaths
        /\ players' = [players EXCEPT ![p].pack = kept]
        /\ SavePlayerInventory(p, kept)
        /\ deaths' = Put(deaths, p,
                [session |-> sessions[p], stage |-> "saving",
                 corpse |-> Plus(Only(s.pack, Unbound), WornRemains(s.worn))])
        /\ UNCHANGED <<sessionVars, joinHydrationTasks, kitGranted, itemVars>>

\* The save is done: nothing is worn any more, and there is a corpse.  A
\* second corpse of the same player is merged with the first (bound).
CorpseAppears(p) ==
    LET d == deaths[p]
    IN  /\ p \in DOMAIN deaths
        /\ d.stage = "saving"
        /\ deaths' = [deaths EXCEPT ![p].stage = "leaving", ![p].corpse = NoItems]
        /\ players' = IF p \in Present /\ sessions[p] = d.session
                      THEN [players EXCEPT ![p].worn = Nothing] ELSE players
        /\ corpses' = IF d.corpse = NoItems THEN corpses
                      ELSE Put(corpses, p, IF p \in DOMAIN corpses
                                           THEN Plus(corpses[p], d.corpse) ELSE d.corpse)
        /\ UNCHANGED <<sessionVars, joinHydrationTasks, storeVars, kitGranted, roomItems>>

\* After the death is recorded, and the three seconds of one with a client are
\* over, the player of that name is removed; the inventory is not saved again.
RemoveOnDeath(p) ==
    /\ p \in DOMAIN deaths
    /\ deaths[p].stage = "leaving"
    /\ deaths' = Without(deaths, {p})
    /\ Remove(p)
    /\ UNCHANGED <<sessionVars, inventoryRepo, kitGranted, itemVars>>

\* tickCorpseDecay
CorpseDecays(c) ==
    /\ c \in DOMAIN corpses
    /\ corpses' = Without(corpses, {c})
    /\ UNCHANGED <<players, sessionVars, joinHydrationTasks, storeVars, kitGranted,
                   roomItems, deaths>>

-----------------------------------------------------------------------------

Command ==
    \/ \E p \in Player, k \in Kind : Take(p, k)
    \/ \E p \in Player, k \in Kind : DropItem(p, k)
    \/ \E p, c \in Player, k \in Kind : TakeFromCorpse(p, c, k)
    \/ \E p, c \in Player : Loot(p, c)
    \/ \E p \in Player, k \in Kind : Equip(p, k)
    \/ \E p \in Player : Unequip(p)

Hydrate(p) == GrantStarterKit(p) \/ LoadInventory(p) \/ LoadFails(p)

Depart(t) == HydrationAwaited(t) \/ SaveOnLeave(t) \/ RemoveOnLeave(t)

RoomNext ==
    \/ \E p \in Player : Join(p)
    \/ \E p \in Player : Hydrate(p)
    \/ \E p \in Player : Drop(p)
    \/ \E p \in Player : Leave(p)
    \/ \E t \in leaves : Reconnect(t)
    \/ \E t \in leaves : Timeout(t)
    \/ \E t \in leaves : Depart(t)
    \/ \E p \in Player : SaveDue(p)
    \/ Command
    \/ \E p \in Player : Die(p)
    \/ \E p \in Player : CorpseAppears(p)
    \/ \E p \in Player : RemoveOnDeath(p)
    \/ \E c \in Player : CorpseDecays(c)

RoomSpec == RoomInit /\ [][RoomNext]_roomVars

-----------------------------------------------------------------------------
(* Properties *)

\* Every map, bag and task is well-formed.
RoomTypeOK ==
    /\ IsMap(players, Player, PlayerState)
    /\ connected \subseteq Player
    /\ sessions \in [Player -> Nat]
    /\ \A p \in Player : sessions[p] <= MaxSessions[p]
    /\ IsMap(joinHydrationTasks, Present, {"kit", "load"})
    /\ IsMap(inventorySaveTimers, Player, SaveTimer)
    /\ inventoryRepo \in [Account -> Bag]
    /\ unstored \subseteq Player
    /\ kitGranted \subseteq Player
    /\ roomItems \in Bag
    /\ IsMap(corpses, Player, Bag)
    /\ leaves \subseteq LeaveTask
    /\ IsMap(deaths, Player, DeathTask)

\* An onLeave whose session has been followed by another.
Displaced(t) == t.session # sessions[t.who]

\* Another character of the account is here and has loaded what is stored.
Shares(p) == \E q \in Siblings(p) : q \in Present \ Hydrating

\* A PlayerState goes that nobody will have back: replaced by a second join,
\* removed after a death, by the departure of a session that has been displaced,
\* or by one whose save failed, was written over, or is of no use to another
\* character who is here already.  What is worn no departure saves.
Abandoned(p) ==
    /\ p \in Present
    /\ \/ Join(p)
       \/ RemoveOnDeath(p)
       \/ \E t \in leaves :
             /\ t.who = p
             /\ RemoveOnLeave(t)
             /\ Displaced(t) \/ players[p].worn # Nothing \/ p \in unstored \/ Shares(p)

\* The same rows are loaded for two characters.
LoadedTwice(p) == LoadInventory(p) /\ Shares(p)

\* The repository is overwritten before it has been loaded.
OverwrittenUnread(p) ==
    /\ p \in Hydrating
    /\ \/ SaveDue(p)
       \/ Die(p)
       \/ \E t \in leaves : t.who = p /\ SaveOnLeave(t) /\ Displaced(t)

\* addItem refuses what is too heavy, and neither equip nor the hydration asks
\* whether it did.
Refused(p) ==
    \/ \E k \in Kind :
          /\ Equip(p, k)
          /\ players[p].worn # Nothing
          /\ ~CanCarry(Minus(players[p].pack, One(k)), players[p].worn)
    \/ /\ LoadInventory(p)
       /\ CurrentWeight(Plus(players[p].pack, Stored(p))) > MAX_CARRY

\* What a dying player wears has its copy in the corpse and is about to go.
ChangedTooLate(p) ==
    /\ WornIsGone(p)
    /\ \/ Unequip(p)
       \/ \E k \in Kind : Equip(p, k)

\* All the ways items come into being or are lost.
SourceOrSink ==
    \/ \E p \in Player : GrantStarterKit(p)
    \/ \E c \in Player : CorpseDecays(c)
    \/ \E p, c \in Player : Loot(p, c)
    \/ \E p \in Player : Die(p) /\ players[p].worn \in Soulbound
    \/ \E p \in Player :
          \/ Refused(p) \/ ChangedTooLate(p) \/ Abandoned(p)
          \/ LoadFails(p) \/ LoadedTwice(p) \/ OverwrittenUnread(p)

\* No item is made or lost by any other step: not by the load after a join, not
\* by a departure, whatever the commands before it, not by taking, dropping or
\* changing what is worn, not by a save that is due.
ItemsAreConserved == [][AllItems' # AllItems => SourceOrSink]_roomVars

\* A departure that no other session interferes with has saved what it removes,
\* unless the store refused it or another character of the account has saved since.
DeparturesAreSaved ==
    \A t \in leaves :
        t.stage = "removing" /\ ~Displaced(t) /\ t.who \in Present \ unstored
            => players[t.who].pack = Stored(t.who)
=============================================================================
