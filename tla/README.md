# Ellmud: a TLA+ model of the game server

Ellmud is a multi-user dungeon on Colyseus: a TypeScript server
(`src/packages/server`) with one `ZoneRoom` per zone, and a browser client. The
server is single-threaded. What makes it hard is not threads but

* the **simulation tick**, which runs between any two commands;
* **continuations**: `onJoin`, `onLeave`, `handlePlayerDeath` and the item
  services await a database, a reconnection or a timer, and then go on with what
  they remembered;
* **state kept in several places by hand**: a player is in `players`, in
  `playerIds`, in the downing system, in the combat system, in the group
  manager, in other players' follower sets; a creature in combat exists twice;
* **two sides of one session**: the page retries, cancels and switches rooms on
  its own, and no zone knows of another.

These are what the models are about.

Contents: [1 the system](#1-the-system) · [2 the modules](#2-the-modules) ·
[3 the runs](#3-the-runs) · [4 the proofs](#4-the-proofs) ·
[5 what the code does not do](#5-what-the-code-does-not-do) ·
[6 not modelled](#6-not-modelled) · [7 plan](#7-plan)

## 1 The system

Paths are relative to `src/packages/server/src`, those of the browser client to
`src/packages/client/src`.

| Component | State | Operations | Hard part | Correct when |
|---|---|---|---|---|
| **ZoneRoom**, sessions (`rooms/ZoneRoom.ts`) | `players`, `playerIds`, `playerCount`, `pendingDeathTeleport`, caches | `onJoin`, `onLeave`, `update`, command dispatch | awaits in the middle of joining, leaving and dying; a browser refresh replaces the `PlayerState` | whoever is connected is in the room, whoever is gone is gone from every map, the dying get out |
| **Downing** (`systems/DowningSystem.ts`, `commands/handlers/stabilize.ts`) | `downedPlayers`, `stabilizeChannels` | `downPlayer`, `beginStabilize`, `interruptStabilize`, `killingBlow`, `tick`, `removePlayer`, `clear` | order inside a tick; channels that outlive a patient | no death in grace, a rescue in time wins, bleeding ends |
| **Groups** (`systems/GroupManager.ts`, `commands/handlers/group.ts`) | `groups`, `playerGroup`, `nextGroupId` | form, add, remove, leave, disband, transfer, share, `handlePlayerLeave` | two maps, many ways for a group to shrink | the maps agree, the leader is a member, two to twenty members |
| **Following and consent** (`follow.ts`, `consent.ts`, `state/PlayerState.ts`) | `followingPlayerId`, `followers`, `consentedPlayers`, per player | follow, unfollow, consent, unconsent, clean-up | one relation kept at both ends; ends are replaced by a refresh | nobody is tied to a player who is gone |
| **Combat** (`combat/`) | combatants, encounters, queued actions, threat | register, initiate, submit, `resolveTick`, remove | encounters merge and end while combatants come and go | a combatant is in one encounter, with those it fought with; nobody is left fighting alone; nobody falls and flees |
| **Creatures** (`creatures/`) | creature map, behaviour states, repop records | spawn, `updateAll`, `syncFromCombat`, repop | a creature in combat is also a combatant, reconciled once a tick; repopulation between any two ticks | the two copies agree on where it is, the dead come back once, no healing but by starting anew |
| **Stash, loadout, transfer** (`stash/`, `loadout/`, `systems/stash-transfer.ts`) | rows per player, slots per player, a lock per player | store, take, equip, unequip, swap, transfer | check, await, act | items are neither lost nor doubled, capacity holds |
| **Inventory** (`state/PlayerState.ts`, item commands, `ZoneRoom` saves) | the pack, room items, containers, a debounce timer per player | take, drop, put, loot, save | hydration after the join, a timer that captured a replaced `PlayerState`, a death that empties the pack in two steps | a departure saves what it removes, items are neither lost nor doubled but in the ways listed |
| **Page** (`hooks/useZoneConnection.ts`, `hooks/useReconnection.ts`, `services/connection.ts`) | refs, timers, the overlay, one room | connect, retry, cancel, reconnect now, return to hub, switch, unmount | answers that come after the page has moved on; several chains of attempts over one set of refs | a spinner means work, nothing ends in silence, retrying and switching end |
| **Zones together** (transfer, goto, the way back of the dead) | the inventory store they share | leave, then join | no server code puts the save before the load | a page that waits is in one zone at a time, and its items travel with it |
| **Matchmaker** (`matchmaking/`) | queue, zones with seats and entry points | enqueue, prune, `processQueue`, assign, release | two ways to count seats | no zone over capacity, nobody matched twice |
| **Narration** (`narrative/`) | cache, outstanding model calls | `narrate`, enrichment | late answers | always an answer in time |
| **Tokens and accounts** (`auth/`) | tokens with timers, accounts | issue, look up, revoke | expiry timers of replaced tokens | a live token is not expired early |
| **Characters and progression** (`character/`, `progression/`) | database records | hydration, training, XP | reads and writes behind awaits | |
| Zones, traces, sound, weather, ambience, NPCs, corpses, visibility, who list, metrics, administration, REST | | | | see section 6 |

**How they interact.** `ZoneRoom.update` runs, in this order, the creatures'
turn, `CombatSystem.resolveTick`, killing blows on the downed, defeats (which
down players), flight, and `DowningSystem.tick` with its deaths and rescues. A
command is refused to the downed, and `go` to those in combat. `onLeave` and
`handlePlayerDeath` each remove a player from every component, in their own
order and with their own awaits. A join of a player who is still in `players` is
a *refresh*: the old session is unmapped and a new `PlayerState` takes its room.

## 2 The modules

```
Maps            JavaScript maps as functions
 ├─ Downing          arithmetic of DowningSystem
 │   ├─ DowningSystem     the class alone              DowningSystemProofs
 │   └─ PlayerLife        the class inside ZoneRoom    PlayerLifeProofs
 │        ⊑ LifeCycle     what ZoneRoom promises
 └─ GroupManager     the class alone
     └─ Companions        the class inside ZoneRoom    CompanionsProofs, of both
          ⊑ GroupManager
Encounters      CombatSystem and what calls it        EncountersProofs
Creatures       CreatureManager, behaviour, and the
                combatants of creatures               CreaturesProofs
Loadout         LoadoutService over its repositories  LoadoutProofs
 ⊑ Vault             what LoadoutService promises
Belongings      one ZoneRoom's packs, worn items,
                saves and corpses
 └─ Handoff          two of them, and the page
                     that goes between                BelongingsProofs, of both
ZoneConnection  the page's side of a session          ZoneConnectionProofs
MC*             instances for TLC
```

**`Downing`** has no variables: each operator says what a method does to the
values of the two maps, so that `DowningSystem` (one call per step) and
`PlayerLife` (several calls in one server tick) use the same definitions.
Displayed HP, names and killer ids are left out.

**`DowningSystem`** has one action per public method, and `events`, what the
latest call returned, which is how ZoneRoom learns of deaths and rescues. A call
that is refused changes nothing, so an action is the accepted call.

**`GroupManager`** likewise. Group ids are numbers; `MaxGroupId` bounds how many
a behaviour may form.

**`Companions`** composes the group manager with what each `PlayerState` says of
other players. `following` is a map of the non-null fields,
`followers` and `consented` the sets. `Refresh` is the duplicate join; `Leave`
is the end both of `onLeave` and of a death, `StartDeath` the synchronous part
of `handlePlayerDeath`, which breaks ties while the player is still there.
Where players stand is left
out: every player finds every other, and commands of the downed, which the room
refuses, are allowed. Both only add behaviours.

**`PlayerLife`** is one ZoneRoom with its players. Every stretch of code between
two awaits is an action:

| Code | Actions |
|---|---|
| `onJoin` | `Join`, `Refresh` |
| `onLeave` up to `allowReconnection` | `Drop` |
| ... the client is back / is not back | `Reconnect` / `Timeout` |
| ... consented (code 4000) | `Leave` |
| ... after the saves | `Close` |
| commands | `Move` (go with its followers), `Attack`, `Stabilize` |
| `update` | `Tick` |
| `handlePlayerDeath` up to the first await | `StartDeaths`, in `Tick` |
| ... the death is recorded; is the client found? | `DeathRecorded` |
| ... client: inn read, timer set / timer / profile saved | `TeleportScheduled` / `TeleportDue` / `TeleportDone` |
| ... no client: saved and removed | `DeathClosed` |

A suspended call is a record in `leaves` or `deaths` saying whose it is and how
far it got. `link` is the client: mapped in `playerIds` (`on`), connected but no
longer mapped (`orphan`), gone (`away`), gone and unmapped (`cut`). The combat
system is reduced to `fighting`; the parameters of `Tick` choose freely who is
drawn in, falls, flees or strikes, subject to what the code checks.

**`LifeCycle`** is the abstract specification: four statuses, the passages
between them, and that dying ends.

**`Loadout`** is `LoadoutService` for one player. A call is a record of its
operation, its arguments, what it read (`seen`) and the next awaited step it has
to make (`pc`):

| Code | Stages |
|---|---|
| `OperationLock.acquire` / the `finally` block | `Acquire` / `Finish`, `Fail` |
| `_equipItem`: loadStash, load, removeItem, addItem, setSlot | `Find`, `Read`, `Take`, `Return`, `Place` |
| `_equipFromInventory`: load, setSlot | `Read`, `Place` |
| `_unequipItem`: load, the two reads of the weight, setSlot, addItem | `Read`, `Weigh`, `Empty`, `Store` |
| `clearLoadout`, from `handlePlayerDeath` | `Wipe`, which takes no lock |

`Fail` is any of the awaited calls rejecting: the lock is let go of, what was
written stays. The module stands for the service and not for its caller: the pack
is not in it, and `Wear` may hand over any item that is nowhere else, since
`toStashItemInstance` makes a new instance for each call. `unequipToInventory`
and the service's administrative reads have no part in it; nobody calls the former.

The module is about one service. The lock is a field of `LoadoutService`
(`LoadoutService.ts:90`) and every ZoneRoom makes a service of its own
(`ZoneRoom.ts:411`), while stash and slots are keyed by account (`dbPlayerId`): all
that is said of `Loadout`, by the runs and by the proofs, is said of the calls of one
zone. Calls for one account in two zones, by a page that is in both or by two
characters of the account, are not excluded from one another, and are left out.

**`Vault`** is the same with each operation one step; `intact` turns false when an
operation is interrupted between its writes, and no promise is made beyond.

**`Encounters`** is the combat system's four maps. Between ticks come the calls,
each with the checks of whoever makes it: `Attack` and `AttackAnother`
(`attack.ts`), `Target`, `PlainActions` (positions, strike, flee),
`CreatureStrike` and `CreatureTelegraph` (`processCreatureAction`), `Rise` (a
player saved from downing, put back into the fight), `UpdateCombatantRoom` and
`RemoveCombatant`. The tick is `StartTick`, then `ResolveNext` once per
encounter, in any order, then `FinishTick`; that is finer than the code needs,
since nothing interrupts it, but it is where one encounter's blows land on
another's fighters. Hit points, threat, rolls and cooldowns are not modelled:
who falls is a free choice among those who are struck (`MayFall`), whom a
creature turns to is any of those it may consider (`Considered`), and who gets
away is any of those who try and can. `events` is what the tick returns.
`creaturePositionTypes` and status effects only change numbers.

**`Creatures`** keeps both copies of a creature: `creatures`
(`CreatureManager`) and `combatants`. A tick is `StartTick` (the world state is
built), `CreatureActs` for each in order, `StartFights`, `CreatureFights` for
each combatant (its hit points and fate in `resolveTick`, then
`syncCreaturesAfterCombat`), `EndTick`. Between ticks players come and go,
attack, clear or fill the sandbox, and the respawn interval fires. What the
other side of a fight does to a creature is a free choice (`Fates`). The world
state has every exit of a room, those to other zones too, whose ids
(`zone:slug/room`) are rooms nowhere: `Exits` may lead `Elsewhere` or nowhere at all,
and whoever patrols or flees by such an exit is then in a `Place` without exits,
where it stays (`Adjacent`). In a dead end it neither patrols nor flees.

**`Belongings`** is one ZoneRoom and what a player has in it. Packs are bags of
kinds of items; one item may be worn. A player is a character. The repository has
its rows by account (`dbPlayerId`), so `inventoryRepo` is keyed by `Owner`: the
characters of one account, of which several may be in the room, load the same rows
and save over each other's. Who has no character goes by the account's id and is
left out; it differs only in where a save that is due after the removal goes.

| Code | Actions |
|---|---|
| `onJoin` | `Join` |
| `hydratePlayerAfterJoin`: kit, then inventory; the load fails | `GrantStarterKit`, `LoadInventory`; `LoadFails` |
| `savePlayerInventory`, which may fail | `SavePlayerInventory`, in `SaveOnLeave`, `SaveDue` and `Die` |
| `onLeave`: loss, return, time-out, consented | `Drop`, `Reconnect`, `Timeout`, `Leave` |
| ... hydration awaited / saved / removed | `HydrationAwaited` / `SaveOnLeave` / `RemoveOnLeave` |
| `debouncedInventorySave` | set in `Now`, due in `SaveDue` |
| item commands | `Take`, `DropItem`, `TakeFromCorpse`, `Loot`, `Equip`, `Unequip` |
| `handlePlayerDeath`: snapshot and save / corpse / removal | `Die` / `CorpseAppears` / `RemoveOnDeath` |
| `tickCorpseDecay` | `CorpseDecays` |

A timer set for a `PlayerState` that has been replaced keeps that one's pack
(`Outdated`). The room catches a load or a save that fails and goes on: after the
one the hydration is over without the stored items, after the other the player is
removed all the same. `unstored` says for the properties whose `PlayerState` the
repository does not have, because its last save failed or another character of the
account has saved since. Everything that makes or loses items is named: the
definitions from `Abandoned` to `SourceOrSink` are the list, and `ItemsAreConserved`
says that it is complete.

**`Handoff`** is the room of `Belongings`, here the hub, and another instance of it,
the wilds, over one `inventoryRepo`; and it adds the page: in a zone, lost, moving,
or closed. `Arrive` is `switchRoom` after its `await room.leave()`, and here
something is taken from a library: Colyseus answers a leave when the room's
`onLeave` has ended. `Open` is `connect`, which joins the zone the page was opened
for. `straddling` records who was still in another zone when joining one;
`AccountInTwo` is the same of two characters of one account, which no page prevents,
and `ItemsTravel` makes no promise while it lasts.

**`ZoneConnection`** is the page by itself. A connection in `conns` is first the
promise (`leaving`, `joining`, `admitted`) and then the room (`open`), which has
a `code` once it is closing. `RunEffect` is the effect's clean-up and next run,
`Resolve` and `Reject` what follows the awaits of `connect` and `switchRoom`,
`RetryTimer` a timer of `useReconnection`. `strays` are the timers whose handle
has been overwritten. The server admits, refuses and displaces.

## 3 The runs

| Run | Module, cfg | Shows | Bounds |
|---|---|---|---|
| downing | MCDowningSystem | clocks in range and in step, no stale channel, no death in grace, a rescue in time wins, bleeding ends | 3 players, 1 room, bleed-out 4, grace 2, channel 2 |
| groups | MCGroupManager | maps agree, leader is member, sizes, no poaching | 5 players, size 3, 6 groups |
| companions | MCCompanions | members and ties online; implements the group manager | 3 players, one of whom consents, 2 groups |
| player_life | MCPlayerLife | marks have deaths, records bleed; `ZoneRoom` implements `LifeCycle`, liveness included | 2 players, one of whom returns once, 2 rooms (one an arena), 2/1/1 ticks |
| loadout | MCLoadout | the lock excludes, items in one place, calls end; implements `Vault` | 3 items, 2 slots, 2 calls at a time, room for 2 items in the stash |
| encounters | MCEncounters | one fight each, registered, actions have fights, nobody alone, nobody falls and flees, company stays | 2 players, 2 creatures, 2 rooms, 2 encounters, 3 calls, wind-up 1, timeout 1 |
| creatures | MCCreatures | fighters are together, population holds and returns, only an attack heals, alertness ends | 1 spawn, 1 sandbox creature at a time, 2 rooms and a way out of the zone, 2 creatures in all, hit points 0 to 2 |
| belongings | MCBelongings | departures are saved, items conserved but for the listed ways | 2 characters of one account in three situations: the first alone with one session, a charm from its starter kit and a blade; alone with two sessions and a blade; both with one session each and an ore |
| handoff | MCHandoff | waiting is enough, items travel | 1 player, 1 blade, 3 joins, 2 in the hub, 1 in the wilds |
| connection | MCZoneConnection | spinners work, no silent end, retrying and switching end | 1 page, 2 zones, 2 attempts, 5 connections, 3 events |
| abandoned | MCPlayerLife, LifeAbandoned | *violation*: a rescued absentee is cleaned up by nobody | one session each, 1 room, 2/1/1 ticks |
| loadout_rollback | MCLoadout, LoadoutRollback | *violation*: a failed equip doubles an item | 2 items, 1 slot, 1 call |

**Why the bounds suffice.** The tick constants keep the order of the source
(channel ≤ grace < bleed-out, 2 ≤ 3 < 60), which is all the code compares; with
4/2/2 there is a tick in grace, one on its edge, one after it and the last one.
Three players allow two rescuers on one patient, which decides what happens to
the other channel. Five players and groups of three allow two groups at once, a
full group with a candidate outside and a group that shrinks to one. In
`Companions` a leader, a member and a third are enough for every branch of the
clean-ups. In `PlayerLife` a second session of one player is what a refresh or a
return needs, and a second player what a rescue needs. `PlayerLife` merges two
suspended departures of one player at the same stage, and lets a player's death
end before the next one is caused. In `Loadout` one slot does not suit one item
and the stash does not bear all three, so that every refusal happens; two calls
are what it takes to break in on another, and a displaced item, one taken and one
left over are what an equip distinguishes. In `Encounters` two encounters of a
player and a creature each can merge, and three calls after a start set up a
strike from one into the other; creatures, players and rooms are symmetric. In
`Creatures` two hit points tell hurt from whole and from dead; one room has an exit
out of the zone, which makes the place without exits that a dead end is. Two
creatures in all allow one return to the spawn or one in the sandbox. With one
spawn the second half of `PopulationHolds`, that no creature is counted by two, is
the theorem's alone. In `Belongings` a second session is what displaces a first, a
second character what shares the rows, and the charm weighs half a blade and three
is all one can carry, so that every refusal happens; looting may make a
second blade, and no more. In `ZoneConnection` three
events are a loss, a cancellation and a reconnection by hand, which give two
chains of attempts; five connections suffice for all that can be under way.

**Fairness.** `DowningSystem`: weak fairness of `Tick`, since ZoneRoom's
simulation interval runs for as long as the room exists. `BleedingEnds` says more
than that a timer runs down: a player knocked down again and again restarts the
timer, so the claim is made for players for whom that stops. `PlayerLife`: weak
fairness of the steps of a death and of `Close`, because awaited saves settle
(`savePlayerProfile` and `savePlayerInventory` catch their errors) and timers
fire. That the death counter's store answers is an assumption: it is awaited
outside any `try`. Nothing is assumed of players, clients or ticks. `Loadout`:
weak fairness of a running call, which goes on or fails because the repository's
promise settles; strong fairness of `Acquire`, because those who wait for one
promise are resumed in the order in which they began to wait, and one who finds
the lock taken again waits for the next in turn. `Creatures`: weak fairness of the
tick and strong fairness of repopulation, because the interval's callback only
ever waits for a tick to end; the bound on ids a behaviour may use limits both.
`PopulationReturns` says of a spawn that its creature is alive again and again,
unless the bound is used up; a creature that has left the zone is alive, and is
not missed. `ZoneConnection`: weak fairness of timers, of answers of the network
and of the closing of rooms; users and losses owe nothing, and are bounded by
`MaxEvents`, so that the liveness properties are about what the page does once it
is left alone.

`CHECK_DEADLOCK` is off in belongings, handoff and connection, where a behaviour
ends when the bounds on sessions, joins or events are used up and nobody is left
to do anything; it is on elsewhere: a room always has a next tick, a group manager
a next call that changes nothing.

Every property of a passing run has a *mutant* in `PROJECT.json`: a definition
of the code changed as a plausible mistake would change it, under which TLC
finds the property violated. The mutants stand beside the definitions, marked
`Mutant:`.

The type invariants of `DowningSystem` and `Encounters` are checked by a run, and in
every module but `Handoff` the type invariant is part of the inductive invariant
that is proved.

## 4 The proofs

All are checked by TLAPS for every value of the constants under the assumptions
that the modules name beside their constants: `TickConstants` (Downing),
`LifeAssumptions` (PlayerLife), `GroupAssumptions` and `ConsentAssumption`
(GroupManager, Companions), `CombatAssumptions` (Encounters),
`CreaturesAssumptions` and `NoneIsNoRecord` (Creatures), `LoadoutAssumptions`
(Loadout), `BelongingsAssumptions` (Belongings), `ZoneConnectionAssumptions` and
`NoneIsNoConnection` (ZoneConnection). No proof uses `HandoffAssumption`, which
bounds joins. They give the constants their types, keep the values that stand for
nothing apart from the rest and, in Downing, give the order of the tick constants.
`CreaturesAssumptions` lets the exits of a room lead anywhere, out of the zone or
nowhere, and `BelongingsAssumptions` lets an account own any characters.
None bounds how many players, rooms, items, sessions,
connections or creatures there are, but that groups are formed of finitely many
players and a zone has finitely many spawns. TLC has checked each inductive
invariant on the module's run.

* **DowningSystemProofs.** `IInv` is the type invariant with `ClocksAgree` and
  `ChannelsHavePatients`; it is inductive as it stands, since the tick compares
  counters whose relation `ClocksAgree` pins down. `TypeCorrect`,
  `ClocksNeverDrift` and `ChannelsAlwaysHavePatients` follow.
  `NobodyDiesInGrace` is about steps: a killing blow needs grace 0 and a
  bleed-out the last tick, and by `ClocksAgree` both mean that the grace period
  has gone by. This is where `GRACE_TICKS < BLEED_OUT_TICKS` is used.
  `RescuesBeatBleedOut` needs only the order of a tick.
* **PlayerLifeProofs.** `LifeInv` is the type invariant with
  `MarkedForDeathHaveDeath` and `RecordsBleed`. It is inductive; the marks need
  that every path by which a player leaves while dying either keeps the suspended
  death or takes the mark along. `MarksHaveDeaths` and `DowningRecordsBleed`
  follow. `FollowsLifeCycle` is the safety part of the refinement of `LifeCycle`:
  each step of the room is one passage in the life of each player, or none; it
  needs the marks, since one who joins must not bear the mark of an earlier stay.
  `LifeCycleIfDyingEnds` says what is left for the rest: `Life!DyingEnds`, which
  is liveness and TLC's.
* **CompanionsProofs**, the class. `GroupInv` strengthens the type invariant with
  `MapsAgree`, `LeaderIsMember`, `SizeInBounds`, and that members are a finite
  set and ids in use are below the counter; the bounds need the agreement, since
  a disbanding clears exactly the entries the maps agree on. `NobodyIsPoached`
  is a step property from the same invariant.
* **CompanionsProofs**, the room. `CompanionsInv` adds to the group manager's invariant
  that members and ties are online. `RoomImplementsGroups` proves that every
  step of the room is a step of `GroupManager` or leaves it alone, so the
  group manager's theorems hold in the room; the proof needs the invariant at
  `GroupForm` (a leader is not among its followers) and at clean-up.
* **LoadoutProofs.** That no item is in two places between calls is not
  inductive. `IInv` says at each stage where the item in a call's hands is: one
  that was taken, or handed over, is in no slot, not in the stash and in no other
  call's hands (`LooseOut`, `LooseApart`); what was read from a slot is in that
  slot at most (`SeenOut`); and only the slot that an equip is about to fill may
  hold an item that is in the stash as well (`Apart`). The lock is what makes
  these hold (`Alone`: no other call is in the middle of anything). `Placed` is
  dropped for good once a write has failed; deaths do not disturb it.
  `LockIsExclusive` and `ItemsInOnePlace` follow. `OperationsAreAtomic` is the
  refinement of `Vault`, complete: an equip is the abstract operation at the moment
  it fills the slot, an unequip at the moment it stores, and the writes before that
  are hidden by the mapping. `AsRead` is what makes it so: what a call has read from
  its slot is still there, and a displaced item is in the stash already when the
  slot is filled, unless an operation has been interrupted.
* **EncountersProofs.** `CombatInv` is inductive: the types, `OneFightEach`,
  `FightersAreRegistered` and `ActionsHaveFights`; that every encounter has two
  members and has not timed out, unless the running tick is done with it and
  will clean it up (`Sound`); and that those a tick reports fallen or fled are
  apart and in no encounter any more (`Reported`). The middle of a tick is what
  makes it long: encounters are resolved one by one on combatants they share,
  and ended ones stay in the maps until `FinishTick`. `CombatTypes`, `OneFight`,
  `RecordsOfFighters`, `ActionsOfFighters`, `FightsHaveTwo` and `FallOrFlee`
  follow; `Company` is a step property from the same invariant.
* **CreaturesProofs.** What holds between ticks does not in the middle of one, so
  `CreaturesInv` says what each phase has still to come to (`Phases`) and what
  those it has come to already are like (`Together`). The dead stay in a fight
  only with a record at 0 (`InFight`), which is how the end of a fight finds them.
  A record never has fewer hit points than its creature (`Weaker`), so that one
  whose record goes is none the better for it; this is what `NothingElseHeals`
  rests on. `FightersStayTogether` and `PopulationIsKept` follow.
* **BelongingsProofs.** `DeparturesAreSaved` is not inductive: between the save
  and the removal neither a command, nor a hydration, nor a save that was due may
  reach the pack or the stored inventory. `Departures` says why none of the
  player's own does: the latest session's departure is the player's last
  (`SessionsInOrder`, `OneEach`), nobody commands a player whose latest session is
  leaving (`LatestIsGone`), and past its first stage there is no hydration left
  (`LatestHydrated`) and no timer (`LatestSaved`). What is left are saves that
  fail and those of other characters of the account; exactly these make a player
  `unstored`, and only another save of its own, its going or its next join unmakes
  it. `DeparturesSave` follows, for any number of characters to an account.
* **BelongingsProofs**, two rooms. `HandoffInv` says of a player who is not
  straddling already that it is in no zone but the one its page has, has lost or is
  leaving (`InNoOther`), and of one whose page is leaving that it is gone from that
  zone or has a departure of its latest session under way there (`SeenOff`). A room
  takes no departure away but with its player, whichever player's step it is
  (`HubOwnSteps`, `WildsOwnSteps`), so that an answer means that the player is gone.
  `WaitingSuffices` follows.
* **ZoneConnectionProofs.** `SpinnersWork` and `NoSilentEnd` relate a page's refs to
  the attempts it has under way. Steps that replace the one and steps that end the
  other interleave, so `HookOK` adds what the code that reads the refs relies on: an
  attempt that bars another is under way, and a cancelled page never says that it
  is reconnecting. `SpinnersAlwaysWork` and `NoEndIsSilent` follow.

Model-checked only:

* `BleedingEnds`, `CallsEnd`, `AlertEnds`, `PopulationReturns`, `RetryingEnds`,
  `SwitchesEnd` and the part of `LifeCycle` that says dying ends: liveness under
  fairness is beyond the prover.
* `ItemsAreConserved` and `ItemsTravel`: they compare sums over all places where
  items can be, and what such a fold becomes when one place changes needs induction
  over the set of places.
* `Handoff`'s own `TypeOK`, which repeats for the wilds what is proved of one room
  in `BelongingsTyped`; the proof about `Handoff` uses only the parts in `TasksOK`.

## 5 What the code does not do

Two runs show a statement of a comment violated by what the code does;
`PROJECT.json` quotes each with its line.

* `onLeave` leaves the clean-up of a downed absentee to the downing system; one
  who is rescued then stays in the room for ever (`AbandonedAreCleanedUp`).
* An equip that fails at its last write leaves the displaced item both in the
  stash and in the slot, and the new one nowhere (`FailuresDoubleNothing`).

The models have further behaviours that a reader of the code may not expect, and
that no property can therefore forbid; where a document says otherwise it is
quoted.

**Life, downing, company**

* A downed player can be attacked back into combat: `attack.ts:64` takes the
  victim for one never registered. `src/GDD.md:607`: "The player is immediately
  removed from the combat system".
* A rescuer can walk away and complete the rescue; `interruptStabilize` has no
  caller. `src/GDD.md:622`: "Taking damage or repositioning **interrupts** the
  channel".
* `onLeave` ends with "Player reconnected — keep them in the game"
  (`ZoneRoom.ts:886`) without looking whether a death has removed the player.
* The members who remain in a group are not told of a departure: they are looked
  up through the one who left (`ZoneRoom.ts:2114`).
* `Close`: a departure that is saving removes the player of a session begun
  meanwhile, alive and connected. The comment at `ZoneRoom.ts:527` has the
  displaced session's `onLeave` become "a cleanup no-op"; one that has begun goes
  on.
* `Tick` during `Closing`: a player downed while the departure is saving leaves
  a downing record behind, since `onLeave` called `removePlayer` earlier.
* `Attack` during a `teleport` stage: a dying player accepts commands for three
  seconds, and one who attacks then leaves a combatant behind.
* `TeleportDue`: the timer looks for a player by id; one who left and came back
  within the delay is removed alive.
* `Refresh`: the new `PlayerState` has an empty `followers` set; those who
  followed the player still follow, but are not moved along.
* `GroupForm`, `GroupAdd`: a follower who refreshed follows nobody but is still
  in the leader's `followers`, and is taken into the group.
* `PlayerState.groupId` is not cleared for the last member when a removal
  disbands the group; nothing reads the field, and `Companions` leaves it out.

**Combat and creatures**

* A strike may be queued against somebody in another encounter, since `attack`
  submits it although `setTarget` has failed. Whoever falls to it is no fighter
  of the encounter being resolved and is not reported as defeated
  (`CombatSystem.ts:664`, "5. Handle defeated combatants"): a player so struck
  stands with no hit points, a creature dies without loot and its combatant stays.
* The members of one fight may be in different rooms, after a merge by `Rise`.
* A creature that `attack` registers anew starts with full hit points.
* The damage of a fight's last tick goes with the combatants' records.
* A creature in combat that patrols is taken back to where its combatant is; one
  of the arena whose record has been left in another room cannot fight or be
  fought until the next tick of any combat takes it back.
* Clearing the arena leaves the combatants of the creatures it deletes.
* A creature that patrols or flees by an exit to another zone
  (`CreatureManager.ts:325`, `behavior.ts:152`, `behavior.ts:235`) is from then on in
  no room and has no exits; only a player who has fled the same way can meet it. It is
  alive, and `respawnZoneCreatures` never replaces it (`CreatureManager.ts:257`). That
  player has the id for its `currentRoomId` (`ZoneRoom.ts:1824`), where `go` would
  have made a transfer of it.

**Belongings** (the list from `Abandoned` to `SourceOrSink`)

* A second join before the first one's pack was saved drops the pack; a death
  or a due save before the hydration overwrites what was to be loaded.
* A load that fails is caught (`ZoneRoom.ts:756`) and the player goes on with what it
  has; its next save (`ZoneRoom.ts:3890`) replaces what is stored.
* A save that fails is caught too (`ZoneRoom.ts:3891`), and a departure or a death then
  removes the player. What is stored is then what was stored before: after a
  departure the latest changes are lost, after a death what is in the corpse may be
  stored as well.
* Two characters of one account in the game at once load the same rows twice
  (`ZoneRoom.ts:741`), and each save is the end of what the other one saved
  (`ZoneRoom.ts:3834`). `onJoin` looks for
  duplicates by character only (`ZoneRoom.ts:522`).
* `loot` does not take anything out of the corpse: `loot.ts:112` discards the
  result of `removeItemFromContainer`.
* A soulbound item that is worn is destroyed by death: `keptEquipSlots` is never
  read. `src/GDD.md:652` has soulbound items kept.
* What is put on or taken off while a dying player's pack is being saved is
  destroyed or doubled.
* What is worn is not persisted. An item displaced by `equip` that is too heavy to
  carry is lost.
* The starter kit is not saved when it is granted; a save is due only if the
  number of stacks has changed.
* Outside the model: two joins of one player that both await the last inn are
  both counted, and hydrate one `PlayerState`.
* The lock on stash and loadout is one zone's; two zones that act for one account do
  not wait for each other (`ZoneRoom.ts:411`).
* `Place` after `Wipe`: an item equipped while its owner dies is worn after death.
* `Return`: the displaced item goes into the stash whatever its weight.

**The page and the way between zones**

* A retry that answers after a cancellation, a return to the hub or the unmount
  is kept: a page that is gone holds a session, and retries when that ends.
* Cancelling and reconnecting by hand makes two attempts, which displace each
  other; two pages of one character do so for ever, `ZoneRoom.ts:533` against
  `useZoneConnection.ts:460`, whose message is "You may need to log in again".
* A room that closes while a switch is under way is ignored; if the switch then
  fails the page is left with a room that is gone and starts no reconnection.
  After a second run of the effect a switch may wait for such a room for ever.
* Retries join the zone the page was opened for. A player who lost the connection
  elsewhere is then in two zones; the one left behind saves over what the other
  one loaded when its reconnection window ends, and items are doubled or lost.
  The same happens after `rent` and after the effect's clean-up, which leave
  without waiting.

## 6 Not modelled

Left out for good: the presentation of combat (`combat/micro-batching.ts`,
`signal-classification.ts`), traces, sound, awareness, ambience, weather and
NPC dialogue, which read state and write text; zone generation and loading,
which build a static graph; the administration and REST interfaces, metrics and
the database layer, which are forms over rows; the map editor and layout of the
client (`map/computeLayout.ts`, `pages/admin/`), which are presentation and a
large part of the repository's lines; content files. Within ZoneRoom: permadeath (off by
default), the procedural instance (`isZone = false`), exploration and chat.
Within combat: `resolveAoE` and abilities, which nothing calls, and all numbers.
Within creatures: loot, telegraphs and assistance, since no creature that
`CreatureManager` makes has abilities or assists, and the administrators' spawn.
Containers other than corpses. `StashService`'s store and take, the stash
transfer and the whole of `Matchmaker` are written but nothing in the server
calls them.

## 7 Plan

Order of what is left, by importance:

1. **Equipment**: the pack and ZoneRoom's equip message over `Loadout`, where two
   messages may be about one carried item, the item may be dropped meanwhile and
   the displaced one may be too heavy.
2. **Roster**: `playerCount` and the capacity test with the await in `onJoin`;
   **Narration**: late answers, enrichment and the bounded cache; **Tokens**:
   expiry against replacement.
3. `PlayerLife` over `Encounters` in place of its `fighting`, and a variant of the
   death whose store fails.
