----------------------------- MODULE Creatures -----------------------------
(***************************************************************************)
(* The creatures of a zone: creatures/CreatureManager.ts, the behaviour    *)
(* tree of creatures/behavior.ts, and the places where ZoneRoom carries    *)
(* them to the combat system and back.  Each creature that has fought is   *)
(* there a second time, as a combatant with hit points and a room of its   *)
(* own; the two are brought together once per tick, while anybody fights.  *)
(*                                                                         *)
(* Encounters has the fights themselves.  Here it only matters whether a   *)
(* creature is in one, and a tick of it is any of what a tick may do to    *)
(* that creature.  Loot is left out, and so are telegraphed abilities and  *)
(* assistance: no creature that CreatureManager makes has either.          *)
(***************************************************************************)
EXTENDS Integers, FiniteSets, Maps

CONSTANTS
    Room,
    Elsewhere,        \* the exits' targets that are no room of the zone: inter-zone ids
    Exits,            \* room -> where its exits lead
    None,
    Spawn,            \* 1..n, the zone's NPC definitions in order
    Home,             \* spawn -> roomSlug
    Aggressive,       \* the spawns whose template is aggressive
    Arena,            \* the sandbox arena, if the zone has one
    ArenaTemplates,   \* the values of aggressive of what is spawned there
    MAX_HP,
    FLEE_HP,          \* what the flee threshold makes of MAX_HP
    IDLE_TICKS,       \* idleTicksTarget
    MaxCreatures      \* bound: creatures ever made

\* A currentRoomId or roomId may be either: whoever patrols or flees takes any exit.
Place == Room \cup Elsewhere

\* The exits of one that is no room are not found.
Adjacent(r) == IF r \in Room THEN Exits[r] ELSE {}

ASSUME CreaturesAssumptions ==
    /\ Exits \in [Room -> SUBSET Place]
    /\ None \notin Place
    /\ IsFiniteSet(Spawn) /\ Spawn = 1..Cardinality(Spawn)
    /\ Home \in [Spawn -> Room]
    /\ Aggressive \subseteq Spawn
    /\ Arena \subseteq Room
    /\ ArenaTemplates \subseteq BOOLEAN
    /\ MAX_HP \in Nat \ {0}
    /\ FLEE_HP \in 0..(MAX_HP - 1)
    /\ IDLE_TICKS \in Nat \ {0}
    /\ MaxCreatures \in Nat
    /\ Cardinality(Spawn) <= MaxCreatures

VARIABLES
    creatures,             \* id -> Creature
    nextCreatureId,
    zoneCreatureRecords,   \* spawn -> id of the creature made for it
    playersInRoom,         \* the places with a player a creature would see
    combatants,            \* id -> the creature's record in the combat system
    inCombat,              \* the ids that are in an encounter
    phase,                 \* of the update that is going on, or "rest"
    pending,               \* ids that this phase has yet to come to
    noisyRooms             \* of the world state the creatures are shown

vars == <<creatures, nextCreatureId, zoneCreatureRecords, playersInRoom, combatants, inCombat,
          phase, pending, noisyRooms>>
tickVars == <<phase, pending, noisyRooms>>

Id == 0..(MaxCreatures - 1)

Creature == [hp : 0..MAX_HP, isAlive : BOOLEAN, currentRoomId : Place,
             behaviorState : {"idle", "alert", "hostile", "fleeing"},
             idleTicks : 0..IDLE_TICKS, alertTargetRoomId : Place \cup {None},
             aggressive : BOOLEAN, sandbox : BOOLEAN]

Combatant == [hp : 0..MAX_HP, roomId : Place]

ASSUME NoneIsNoRecord == None \notin Creature /\ None \notin Combatant

NewCreature(room, aggressive, sandbox) ==
    [hp |-> MAX_HP, isAlive |-> TRUE, currentRoomId |-> room, behaviorState |-> "idle",
     idleTicks |-> 0, alertTargetRoomId |-> None, aggressive |-> aggressive, sandbox |-> sandbox]

ZoneCreature(s) == NewCreature(Home[s], s \in Aggressive, FALSE)

\* spawnCreaturesFromZone
Init ==
    /\ creatures = [i \in 0..(Cardinality(Spawn) - 1) |-> ZoneCreature(i + 1)]
    /\ nextCreatureId = Cardinality(Spawn)
    /\ zoneCreatureRecords = [s \in Spawn |-> s - 1]
    /\ playersInRoom = {}
    /\ combatants = EmptyMap
    /\ inCombat = {}
    /\ phase = "rest"
    /\ pending = {}
    /\ noisyRooms = {}

Living == {i \in DOMAIN creatures : creatures[i].isAlive}
Registered == DOMAIN combatants
-----------------------------------------------------------------------------
(* The behaviour tree; noisy are the places somebody fights in *)

Sees(c) == c.currentRoomId \in playersInRoom
Hears(c, noisy) == c.behaviorState = "idle" /\ Adjacent(c.currentRoomId) \cap noisy # {}
Searches(c) == c.behaviorState = "alert" /\ c.alertTargetRoomId \notin {None, c.currentRoomId}
Flees(c) == c.behaviorState = "fleeing" \/ (c.behaviorState = "hostile" /\ c.hp <= FLEE_HP)

\* transitionState
NextState(c, noisy) ==
    IF ~c.aggressive THEN "idle"
    ELSE IF Flees(c) THEN "fleeing"
    ELSE IF Sees(c) THEN "hostile"
    ELSE IF Hears(c, noisy) \/ Searches(c) THEN "alert"
    ELSE "idle"

\* handleIdle, with the patrol that updateAll makes of it.  The exit is picked by
\* a hash; where there is none the creature stays, and ticks over the target are
\* as good as the target.
Idle(c) ==
    LET before == IF c.behaviorState = "idle" THEN c.idleTicks ELSE 0
        waited == IF before < IDLE_TICKS THEN before + 1 ELSE before
        idle   == [c EXCEPT !.behaviorState = "idle", !.idleTicks = waited,
                            !.alertTargetRoomId = None]
        exits  == Adjacent(c.currentRoomId)
    IN  IF waited < IDLE_TICKS \/ exits = {} THEN {idle}
        ELSE {[idle EXCEPT !.idleTicks = 0, !.currentRoomId = r] : r \in exits}

\* Mutant: the move is announced and not made.
AlertStill(c, noisy) ==
    LET goals == IF c.behaviorState = "alert" THEN {c.alertTargetRoomId}
                 ELSE Adjacent(c.currentRoomId) \cap noisy
    IN  {[c EXCEPT !.behaviorState = "alert", !.idleTicks = 0, !.alertTargetRoomId = r] : r \in goals}

\* handleAlert and the move of updateAll: to the noise, in one step.
Alert(c, noisy) ==
    LET goals == IF c.behaviorState = "alert" THEN {c.alertTargetRoomId}
                 ELSE Adjacent(c.currentRoomId) \cap noisy
    IN  {[c EXCEPT !.behaviorState = "alert", !.idleTicks = 0, !.alertTargetRoomId = r,
                   !.currentRoomId = r] : r \in goals}

\* updateAll: what may become of c.  The idle ticks matter only to the idle and
\* the target only to the alert, and are forgotten by the others.
Behaviours(c, noisy) ==
    LET next == NextState(c, noisy)
    IN  CASE next = "idle"  -> Idle(c)
          [] next = "alert" -> Alert(c, noisy)
          [] OTHER          -> {[c EXCEPT !.behaviorState = next, !.idleTicks = 0,
                                          !.alertTargetRoomId = None]}

-----------------------------------------------------------------------------
(* Into combat and back *)

\* Mutant: registered with all its hit points, as attack does it.
ToCombatantAnew(c) == [hp |-> MAX_HP, roomId |-> c.currentRoomId]

\* toCombatant
ToCombatant(c) == [hp |-> c.hp, roomId |-> c.currentRoomId]

\* Mutant: initiateCombat does not ask where the two are.
MeetAnywhere(k, room) == TRUE

\* initiateCombat, with a player in the room: the record may be elsewhere.
Meet(k, room) == k.roomId = room

\* The fights, with one of i and a player in the room, if they can meet.
Joined(i, room, records) ==
    IF Meet(records[i], room) THEN inCombat \cup {i} ELSE inCombat

OrNone(map, i) == IF i \in DOMAIN map THEN map[i] ELSE None

\* Of a dead creature nothing but the room is ever looked at.
Dead(c, room) ==
    [NewCreature(room, c.aggressive, c.sandbox) EXCEPT !.hp = 0, !.isAlive = FALSE]

\* Mutant: the hit points only.
SyncHpOnly(c, k) ==
    IF c = None \/ ~c.isAlive THEN c
    ELSE IF k.hp = 0 THEN Dead(c, c.currentRoomId)
    ELSE [c EXCEPT !.hp = k.hp]

\* syncFromCombat, of a living creature.
SyncFromCombat(c, k) ==
    IF c = None \/ ~c.isAlive THEN c
    ELSE IF k.hp = 0 THEN Dead(c, k.roomId)
    ELSE [c EXCEPT !.hp = k.hp, !.currentRoomId = k.roomId]

Fate(c, k, fights) == [creature |-> c, combatant |-> k, fights |-> fights]

\* What a tick of combat makes of the creature c (None if it was cleared away)
\* with the record k.  It is hurt, and may die of it undefeated if the blow came
\* from another fight than its own; or its fight ends, and what the record lost
\* in this tick is forgotten; or it is defeated; or it gets away, by any exit.  In a
\* dead end one that flees strikes on.
Fates(c, k, fights) ==
    LET hurt     == [hp : 0..k.hp, roomId : {k.roomId}]
        escaped  == [hp : 1..k.hp, roomId : Adjacent(k.roomId)]
        stays    == {Fate(SyncFromCombat(c, h), h, fights) : h \in hurt}
        ended    == {Fate(c, None, FALSE)}
        defeated == {Fate(Dead(c, c.currentRoomId), None, FALSE)}
        fled     == {Fate(SyncFromCombat(c, h), h, FALSE) : h \in escaped}
    IN  stays
        \cup (IF fights THEN ended ELSE {})
        \cup (IF fights /\ k.hp > 0 THEN defeated ELSE {})
        \cup (IF fights /\ c # None /\ c.behaviorState = "fleeing" THEN fled ELSE {})

\* attack by a player in the room of i.  A player who is in combat already only
\* turns to i, which changes nothing here.
Attack(i) ==
    /\ phase = "rest"
    /\ i \in Living
    /\ combatants' = IF i \in Registered THEN combatants
                     ELSE Put(combatants, i, [hp |-> MAX_HP, roomId |-> creatures[i].currentRoomId])
    /\ inCombat' = Joined(i, creatures[i].currentRoomId, combatants')
    /\ UNCHANGED <<creatures, nextCreatureId, zoneCreatureRecords, playersInRoom, tickVars>>

\* The last player is taken out of the fight of i between two ticks.
EndFight(i) ==
    /\ phase = "rest"
    /\ i \in inCombat
    /\ combatants' = Without(combatants, {i})
    /\ inCombat' = inCombat \ {i}
    /\ UNCHANGED <<creatures, nextCreatureId, zoneCreatureRecords, playersInRoom, tickVars>>

-----------------------------------------------------------------------------
(* The tick: one call of update, which nothing interrupts *)

IsNext(i) == i \in pending /\ \A j \in pending : i <= j

\* Every creature will see the world as it is now; duels are the places
\* of fights among players.
StartTick(duels) ==
    /\ phase = "rest"
    /\ phase' = "creatures"
    /\ noisyRooms' = duels \cup {combatants[i].roomId : i \in inCombat}
    /\ pending' = Living
    /\ UNCHANGED <<creatures, nextCreatureId, zoneCreatureRecords, playersInRoom,
                   combatants, inCombat>>

\* tickCreatures: the creature decides and moves; a hostile one that sees a
\* player strikes, and is in combat by that, if it can be.
CreatureActs(i) ==
    /\ phase = "creatures"
    /\ IsNext(i)
    /\ pending' = pending \ {i}
    /\ \E c \in Behaviours(creatures[i], noisyRooms) :
          /\ creatures' = [creatures EXCEPT ![i] = c]
          /\ IF c.behaviorState = "hostile" /\ Sees(c)
             THEN /\ combatants' = IF i \in Registered THEN combatants
                                   ELSE Put(combatants, i, ToCombatant(c))
                  /\ inCombat' = Joined(i, c.currentRoomId, combatants')
             ELSE UNCHANGED <<combatants, inCombat>>
    /\ UNCHANGED <<nextCreatureId, zoneCreatureRecords, playersInRoom, phase, noisyRooms>>

\* resolveTick, if there is anything to resolve.
StartFights ==
    /\ phase = "creatures"
    /\ pending = {}
    /\ IF noisyRooms = {} /\ inCombat = {}
       THEN phase' = "rest" /\ UNCHANGED pending
       ELSE phase' = "fights" /\ pending' = Registered
    /\ noisyRooms' = {}
    /\ UNCHANGED <<creatures, nextCreatureId, zoneCreatureRecords, playersInRoom,
                   combatants, inCombat>>

Changed(map, i, v) == IF v = None THEN Without(map, {i}) ELSE Put(map, i, v)

\* What resolveTick does to i, with syncCreaturesAfterCombat and what
\* deliverCombatResults makes of those that fled.
CreatureFights(i) ==
    /\ phase = "fights"
    /\ IsNext(i)
    /\ pending' = pending \ {i}
    /\ \E fate \in Fates(OrNone(creatures, i), combatants[i], i \in inCombat) :
          /\ creatures' = Changed(creatures, i, fate.creature)
          /\ combatants' = Changed(combatants, i, fate.combatant)
          /\ inCombat' = IF fate.fights THEN inCombat ELSE inCombat \ {i}
    /\ UNCHANGED <<nextCreatureId, zoneCreatureRecords, playersInRoom, phase, noisyRooms>>

EndTick ==
    /\ phase = "fights"
    /\ pending = {}
    /\ phase' = "rest"
    /\ UNCHANGED <<creatures, nextCreatureId, zoneCreatureRecords, playersInRoom,
                   combatants, inCombat, noisyRooms, pending>>

-----------------------------------------------------------------------------
(* Creatures that come and go *)

\* Mutant: a creature that was cleared away is not missed.
VacantDead == {s \in Spawn : zoneCreatureRecords[s] \in DOMAIN creatures \ Living}

\* The spawns whose creature is dead, or gone.
Vacant == {s \in Spawn : zoneCreatureRecords[s] \notin Living}

\* The id that a vacant spawn's creature gets.
NextId(s) == nextCreatureId + Cardinality({t \in Vacant : t < s})

\* The dead of the vacant spawns go, and new ones stand where they began.
Repopulate ==
    LET made(i) == {s \in Vacant : NextId(s) = i}
        stay    == DOMAIN creatures \ {zoneCreatureRecords[s] : s \in Vacant}
    IN  /\ phase = "rest"
        /\ Vacant # {}
        /\ nextCreatureId + Cardinality(Vacant) <= MaxCreatures
        /\ nextCreatureId' = nextCreatureId + Cardinality(Vacant)
        /\ creatures' = [i \in stay \cup {NextId(s) : s \in Vacant} |->
                            IF i \in stay THEN creatures[i]
                            ELSE ZoneCreature(CHOOSE s \in made(i) : TRUE)]
        /\ UNCHANGED <<playersInRoom, combatants, inCombat, tickVars>>

\* Mutant: the records keep naming the dead.
RespawnUnrecorded == Repopulate /\ UNCHANGED zoneCreatureRecords

\* repopZone and respawnZoneCreatures
RespawnZoneCreatures ==
    /\ Repopulate
    /\ zoneCreatureRecords' = [s \in Spawn |->
                                  IF s \in Vacant THEN NextId(s) ELSE zoneCreatureRecords[s]]

\* spawnCreatureInRoom of the sandbox; a scenario with overrides registers the
\* creature as well.  One sandbox creature at a time, dead or alive (bound).
SpawnCreatureInRoom(room, aggressive, registered) ==
    LET c == NewCreature(room, aggressive, TRUE)
    IN  /\ phase = "rest"
        /\ \A i \in DOMAIN creatures : ~creatures[i].sandbox
        /\ nextCreatureId < MaxCreatures
        /\ nextCreatureId' = nextCreatureId + 1
        /\ creatures' = Put(creatures, nextCreatureId, c)
        /\ combatants' = IF registered THEN Put(combatants, nextCreatureId, ToCombatant(c))
                         ELSE combatants
        /\ UNCHANGED <<zoneCreatureRecords, playersInRoom, inCombat, tickVars>>

\* The sandbox is cleared: the living leave combat, and all in the room go.
ClearCreaturesInRoom(room) ==
    LET there == {i \in DOMAIN creatures : creatures[i].currentRoomId = room}
    IN  /\ phase = "rest"
        /\ there # {}
        /\ creatures' = Without(creatures, there)
        /\ combatants' = Without(combatants, there \cap Living)
        /\ inCombat' = inCombat \ (there \cap Living)
        /\ UNCHANGED <<nextCreatureId, zoneCreatureRecords, playersInRoom, tickVars>>

\* Players come and go, or are no longer seen: peaceful, downed, dying.  One that
\* fled by an inter-zone exit is where creatures get by it.
PlayersMove ==
    /\ phase = "rest"
    /\ playersInRoom' \in SUBSET Place
    /\ playersInRoom' # playersInRoom
    /\ UNCHANGED <<creatures, nextCreatureId, zoneCreatureRecords, combatants, inCombat, tickVars>>

-----------------------------------------------------------------------------

\* Players fight one another in one place at most (bound).
Tick ==
    \/ \E duels \in {{}} \cup {{r} : r \in Place} : StartTick(duels)
    \/ \E i \in Id : CreatureActs(i)
    \/ StartFights
    \/ \E i \in Id : CreatureFights(i)
    \/ EndTick

Next ==
    \/ Tick
    \/ \E i \in Id : Attack(i)
    \/ \E i \in Id : EndFight(i)
    \/ RespawnZoneCreatures
    \/ \E r \in Arena, aggressive \in ArenaTemplates, registered \in BOOLEAN :
            SpawnCreatureInRoom(r, aggressive, registered)
    \/ \E r \in Arena : ClearCreaturesInRoom(r)
    \/ PlayersMove

\* The two intervals of the room: the simulation goes on, and the repopulation,
\* which a tick in progress makes wait, has its turn between two of them.
Spec == Init /\ [][Next]_vars /\ WF_vars(Tick) /\ SF_vars(RespawnZoneCreatures)

-----------------------------------------------------------------------------
(* Properties *)

\* The maps hold what their types say; nobody lives without hit points.
TypeOK ==
    /\ IsMap(creatures, Id, Creature)
    /\ nextCreatureId \in 0..MaxCreatures
    /\ \A i \in DOMAIN creatures : i < nextCreatureId
    /\ zoneCreatureRecords \in [Spawn -> Id]
    /\ playersInRoom \subseteq Place
    /\ IsMap(combatants, Id, Combatant)
    /\ inCombat \subseteq Registered
    /\ phase \in {"rest", "creatures", "fights"}
    /\ pending \subseteq DOMAIN creatures \cup Registered
    /\ noisyRooms \subseteq Place
    /\ \A i \in Living : creatures[i].hp > 0

\* A creature in a fight is where its combatant is, between any two ticks: one
\* that patrols is taken back, one whose record is elsewhere cannot be met.
FightersAreTogether ==
    phase = "rest" => \A i \in inCombat \cap Living : creatures[i].currentRoomId = combatants[i].roomId

\* A zone has no more creatures than it defines, however often they are killed,
\* cleared away and replaced: each of the living is the one some definition
\* counts as its own, and no two definitions count the same.
PopulationHolds ==
    /\ \A i \in Living : creatures[i].sandbox \/ \E s \in Spawn : zoneCreatureRecords[s] = i
    /\ \A s, t \in Spawn : zoneCreatureRecords[s] = zoneCreatureRecords[t] => s = t

\* The hit points of i as the next blow finds them.
Vigour(i) == IF i \in Registered THEN combatants[i].hp ELSE creatures[i].hp

\* Of all steps only an attack by a player can give a creature hit points: the
\* end of a fight does not, nor the next one, nor getting away and coming back.
OnlyAttackHeals ==
    [][\A i \in Living \cap Living' : Vigour(i)' > Vigour(i) => Attack(i)]_vars

OnAlert(i) == i \in Living /\ creatures[i].behaviorState = "alert"

\* A creature does not search for ever; unless it has a record in the combat
\* system, which may take it back where it came from, time and again.
AlertEnds == \A i \in Id : OnAlert(i) ~> ~OnAlert(i) \/ i \in Registered

Alive(s) == zoneCreatureRecords[s] \in Living

\* What is killed or cleared away comes back, while there are ids.
PopulationReturns ==
    \A s \in Spawn : ~Alive(s) ~> Alive(s) \/ nextCreatureId + Cardinality(Spawn) > MaxCreatures
=============================================================================
