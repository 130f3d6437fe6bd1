----------------------------- MODULE Encounters -----------------------------
(***************************************************************************)
(* combat/CombatSystem.ts: who fights whom in a zone.  A fight is an       *)
(* encounter, found from a member through combatantEncounter and from      *)
(* itself through its member set.  One action per public method, and one   *)
(* per encounter that a tick resolves: resolveTick loops over them and     *)
(* the later ones see what the earlier ones did.  The calls come from the  *)
(* handlers of commands/handlers and from ZoneRoom, which register whoever *)
(* is missing before they call; a handler is one action.                   *)
(*                                                                         *)
(* Of hit points only whether any are left is kept; positions, armour,     *)
(* dodging and threat decide who can be reached, hurt or preferred and are *)
(* free choices.  Abilities and resolveAoE have no caller in the server.   *)
(***************************************************************************)
EXTENDS Integers, FiniteSets, Maps

CONSTANTS
    Player, Creature,      \* combatant ids
    Room,
    Nobody,                \* undefined, for a target
    WIND_UP_TICKS,         \* the longest wind-up of a template
    COMBAT_TIMEOUT_TICKS,  \* 10 in the source
    MaxEncounterId,        \* bound: how many encounters a behaviour may open
    MaxCalls               \* bound: how many calls a behaviour may make

Id == Player \cup Creature

ASSUME CombatAssumptions ==
    /\ Player \cap Creature = {}
    /\ Nobody \notin Id
    /\ WIND_UP_TICKS \in Nat \ {0}
    /\ COMBAT_TIMEOUT_TICKS \in Nat \ {0}
    /\ MaxEncounterId \in Nat
    /\ MaxCalls \in Nat

VARIABLES
    combatants,          \* id -> Combatant
    encounters,          \* encounter id -> CombatEncounter
    combatantEncounter,  \* id -> encounter id
    queuedActions,       \* id -> QueuedAction
    nextEncounterId,
    calls,               \* how many calls there have been
    pending,             \* during a tick: the encounters still to be resolved
    endedEncounterIds,   \* during a tick: those to clean up when it is over
    ticking,             \* resolveTick is running
    events               \* what the running tick will return

combatVars == <<combatants, encounters, combatantEncounter, queuedActions,
                nextEncounterId, calls, pending, endedEncounterIds, ticking, events>>

tickVars == <<pending, endedEncounterIds, ticking, events>>

EncounterId == 1..MaxEncounterId

WindUp == [left : 0..WIND_UP_TICKS, at : Id \cup {Nobody}]
NoWindUp == [left |-> 0, at |-> Nobody]

Combatant == [alive : BOOLEAN, room : Room, target : Id \cup {Nobody}, windUp : WindUp]

CombatEncounter == [members : SUBSET Id, quiet : 0..COMBAT_TIMEOUT_TICKS]

\* A change of position is queued as a strike without a target.
QueuedAction == [act : {"strike", "flee"}, at : Id \cup {Nobody}]

Events == [defeated : SUBSET Id, fled : SUBSET Id]
NoEvents == [defeated |-> {}, fled |-> {}]

CombatInit ==
    /\ combatants = EmptyMap
    /\ encounters = EmptyMap
    /\ combatantEncounter = EmptyMap
    /\ queuedActions = EmptyMap
    /\ nextEncounterId = 1
    /\ calls = 0
    /\ pending = {}
    /\ endedEncounterIds = {}
    /\ ticking = FALSE
    /\ events = NoEvents

-----------------------------------------------------------------------------
(* Queries *)

Registered(c) == c \in DOMAIN combatants

IsInCombat(c) == c \in DOMAIN combatantEncounter

SameRoom(a, b) == combatants[a].room = combatants[b].room

Living(known, who) == {c \in who \cap DOMAIN known : known[c].alive}

Hostile(c, who) == IF c \in Player THEN who \cap Creature ELSE who \cap Player

\* A fight is over with at most one left standing, or when one side is left
\* and, players being that side, none of them aims at another.
FightIsOver(known, who) ==
    LET alive == Living(known, who)
    IN  \/ \A c, d \in alive : c = d
        \/ alive \cap Player = {}
        \/ /\ alive \cap Creature = {}
           /\ \A c \in alive : known[c].target \notin alive

-----------------------------------------------------------------------------
(* Between ticks: the calls of commands, of creatures and of the room *)

\* A handler runs between two ticks.
Called ==
    /\ ~ticking
    /\ calls < MaxCalls
    /\ calls' = calls + 1
    /\ UNCHANGED tickVars

\* registerCombatant
NewCombatant(r) == [alive |-> TRUE, room |-> r, target |-> Nobody, windUp |-> NoWindUp]

\* Those of who that are not registered are, in room r.
WithRegistered(who, r) ==
    [c \in DOMAIN combatants \cup who |->
        IF Registered(c) THEN combatants[c] ELSE NewCombatant(r)]

\* A handler knows the room of whoever acts; a record follows its owner.
ActsIn(c, r) == Registered(c) => combatants[c].room = r

Strike(t) == [act |-> "strike", at |-> t]

\* initiateCombat aims a at t, t at a unless it aims at somebody, and queues
\* a strike, whatever it did to the encounters.
Engage(known, a, t) ==
    /\ LET aimed == [known EXCEPT ![a].target = t]
       IN combatants' = [aimed EXCEPT ![t].target = IF @ = Nobody THEN a ELSE @]
    /\ queuedActions' = Put(queuedActions, a, Strike(t))

\* Mutant: the number is not used up.
NewEncounterSameId(a, t) ==
    /\ ~IsInCombat(a) /\ ~IsInCombat(t)
    /\ nextEncounterId \in EncounterId
    /\ encounters' = Put(encounters, nextEncounterId, [members |-> {a, t}, quiet |-> 0])
    /\ combatantEncounter' =
            Put(Put(combatantEncounter, a, nextEncounterId), t, nextEncounterId)
    /\ UNCHANGED nextEncounterId

NewEncounter(a, t) ==
    /\ ~IsInCombat(a) /\ ~IsInCombat(t)
    /\ nextEncounterId \in EncounterId
    /\ encounters' = Put(encounters, nextEncounterId, [members |-> {a, t}, quiet |-> 0])
    /\ combatantEncounter' =
            Put(Put(combatantEncounter, a, nextEncounterId), t, nextEncounterId)
    /\ nextEncounterId' = nextEncounterId + 1

\* One of the two fights already: the other joins it.
JoinEncounter(newcomer, fighter) ==
    LET e == combatantEncounter[fighter]
    IN  /\ IsInCombat(fighter) /\ ~IsInCombat(newcomer)
        /\ encounters' = [encounters EXCEPT ![e].members = @ \cup {newcomer}]
        /\ combatantEncounter' = Put(combatantEncounter, newcomer, e)
        /\ UNCHANGED nextEncounterId

\* Both are in the same fight.
SameEncounter(a, t) ==
    /\ IsInCombat(a) /\ IsInCombat(t)
    /\ combatantEncounter[a] = combatantEncounter[t]
    /\ UNCHANGED <<encounters, combatantEncounter, nextEncounterId>>

\* Mutant: the merged encounter is dropped, its members' entries stay.
MergeForgetsMembers(a, t) ==
    LET encA == combatantEncounter[a]
        encB == combatantEncounter[t]
    IN  /\ IsInCombat(a) /\ IsInCombat(t)
        /\ encA # encB
        /\ encounters' = Put(Without(encounters, {encB}), encA,
                [members |-> encounters[encA].members \cup encounters[encB].members,
                 quiet   |-> encounters[encA].quiet])
        /\ UNCHANGED <<combatantEncounter, nextEncounterId>>

\* Mutant: only the target changes sides, its fight goes on.
MergeTargetOnly(a, t) ==
    LET encA == combatantEncounter[a]
        encB == combatantEncounter[t]
    IN  /\ IsInCombat(a) /\ IsInCombat(t)
        /\ encA # encB
        /\ encounters' = [encounters EXCEPT ![encA].members = @ \cup {t},
                                            ![encB].members = @ \ {t}]
        /\ combatantEncounter' = [combatantEncounter EXCEPT ![t] = encA]
        /\ UNCHANGED nextEncounterId

\* They are in different fights: that of t is merged into that of a.
MergeEncounters(a, t) ==
    LET encA  == combatantEncounter[a]
        encB  == combatantEncounter[t]
        other == encounters[encB].members
    IN  /\ IsInCombat(a) /\ IsInCombat(t)
        /\ encA # encB
        /\ encounters' = Put(Without(encounters, {encB}), encA,
                [members |-> encounters[encA].members \cup other,
                 quiet   |-> IF encounters[encB].quiet < encounters[encA].quiet
                             THEN encounters[encB].quiet ELSE encounters[encA].quiet])
        /\ combatantEncounter' = [c \in DOMAIN combatantEncounter |->
                IF c \in other THEN encA ELSE combatantEncounter[c]]
        /\ UNCHANGED nextEncounterId

\* initiateCombat(a, t), the combatants being known; refused across rooms.
InitiateCombat(known, a, t) ==
    \/ /\ known[a].room # known[t].room
       /\ combatants' = known
       /\ UNCHANGED <<encounters, combatantEncounter, queuedActions, nextEncounterId>>
    \/ /\ known[a].room = known[t].room
       /\ \/ NewEncounter(a, t)
          \/ JoinEncounter(t, a)
          \/ JoinEncounter(a, t)
          \/ SameEncounter(a, t)
          \/ MergeEncounters(a, t)
       /\ Engage(known, a, t)

\* attack, out of combat: the other is in the room, whatever its record says.
Attack(p, t, r) ==
    /\ Called
    /\ p # t
    /\ ~IsInCombat(p)
    /\ ActsIn(p, r)
    /\ InitiateCombat(WithRegistered({p, t}, r), p, t)

\* setTarget, and whether it is accepted.
MayTarget(p, t) ==
    /\ Registered(t)
    /\ combatants[p].room = combatants[t].room
    /\ t \in encounters[combatantEncounter[p]].members

\* attack, in combat: the target is set if it is in this fight, and a strike
\* at it is queued even if it is not.
AttackAnother(p, t) ==
    /\ Called
    /\ p # t
    /\ IsInCombat(p)
    /\ combatants' = IF MayTarget(p, t)
                     THEN [combatants EXCEPT ![p].target = t] ELSE combatants
    /\ queuedActions' = Put(queuedActions, p, Strike(t))
    /\ UNCHANGED <<encounters, combatantEncounter, nextEncounterId>>

\* target, and target next, which picks among the hostile ones.
Target(p, t) ==
    /\ Called
    /\ p # t
    /\ IsInCombat(p)
    /\ \/ MayTarget(p, t)
       \/ t \in Hostile(p, Living(combatants, encounters[combatantEncounter[p]].members))
    /\ combatants' = [combatants EXCEPT ![p].target = t]
    /\ UNCHANGED <<encounters, combatantEncounter, queuedActions, nextEncounterId>>

\* Mutant: whoever is known may queue an action.
SubmitOutOfCombat(c, action) ==
    /\ Called
    /\ Registered(c)
    /\ queuedActions' = Put(queuedActions, c, action)
    /\ UNCHANGED <<combatants, encounters, combatantEncounter, nextEncounterId>>

\* submitAction and, cooldown and present position left open,
\* queuePositionChange: a player's strike without a target, flee or position,
\* a creature's flight.
SubmitAction(c, action) ==
    /\ Called
    /\ IsInCombat(c)
    /\ queuedActions' = Put(queuedActions, c, action)
    /\ UNCHANGED <<combatants, encounters, combatantEncounter, nextEncounterId>>

\* combat_strike, and the assistance of a creature that is not fighting.
CreatureStrike(c, p, r) ==
    /\ Called
    /\ ActsIn(c, r)
    /\ \/ /\ ~IsInCombat(c)
          /\ InitiateCombat(WithRegistered({c, p}, r), c, p)
       \/ /\ IsInCombat(c)
          /\ combatants' = WithRegistered({c, p}, r)
          /\ queuedActions' = Put(queuedActions, c, Strike(p))
          /\ UNCHANGED <<encounters, combatantEncounter, nextEncounterId>>

\* combat_telegraph of one who fights and is not winding up already; one who
\* does not fight begins to, which is CreatureStrike, and telegraphs then.
CreatureTelegraph(c, p, r, ticks) ==
    /\ Called
    /\ ActsIn(c, r)
    /\ IsInCombat(c)
    /\ combatants[c].windUp = NoWindUp
    /\ combatants' = [WithRegistered({p}, r) EXCEPT ![c].windUp = [left |-> ticks, at |-> p]]
    /\ UNCHANGED <<encounters, combatantEncounter, queuedActions, nextEncounterId>>

\* handlePlayerStabilized: a fresh record, and a creature that fights in the
\* room, if there is one, turns on the player; nothing happens while nobody
\* fights anywhere.
Rise(p, r) ==
    /\ Called
    /\ encounters # EmptyMap
    /\ LET known == Put(combatants, p, NewCombatant(r))
       IN  \/ \E c \in Creature :
                /\ IsInCombat(c) /\ combatants[c].room = r
                /\ InitiateCombat(known, c, p)
          \/ /\ combatants' = known
             /\ UNCHANGED <<encounters, combatantEncounter, queuedActions, nextEncounterId>>

\* updateCombatantRoom: players walk, follow and are moved by administrators.
UpdateCombatantRoom(p, r) ==
    /\ Called
    /\ Registered(p)
    /\ combatants' = [combatants EXCEPT ![p].room = r]
    /\ UNCHANGED <<encounters, combatantEncounter, queuedActions, nextEncounterId>>

\* Mutant: the members' entries outlive the fight.
ForgetButEntries(es, alsoWho, who) ==
    LET gone == UNION {who[e] : e \in es}
    IN  /\ encounters' = [e \in DOMAIN encounters \ es |->
                            [encounters[e] EXCEPT !.members = who[e]]]
        /\ combatantEncounter' = Without(combatantEncounter, alsoWho)
        /\ queuedActions' = Without(queuedActions, gone \cup alsoWho)
        /\ combatants' = Without(combatants, gone \cup alsoWho)

\* The encounters in es end: they go, and with them all that is known of
\* their members, who are registered anew when they fight again.
Forget(es, alsoWho, who) ==
    LET gone == UNION {who[e] : e \in es}
    IN  /\ encounters' = [e \in DOMAIN encounters \ es |->
                            [encounters[e] EXCEPT !.members = who[e]]]
        /\ combatantEncounter' = Without(combatantEncounter, gone \cup alsoWho)
        /\ queuedActions' = Without(queuedActions, gone \cup alsoWho)
        /\ combatants' = Without(combatants, gone \cup alsoWho)

MembersWithout(c) == [e \in DOMAIN encounters |-> encounters[e].members \ {c}]

\* Mutant: a departure never ends the fight.
NeverEndedWithout(c) == {}

\* The fight that the departure of c ends, if any.
EndedWithout(c) ==
    {e \in DOMAIN encounters :
        /\ IsInCombat(c) /\ e = combatantEncounter[c]
        /\ FightIsOver(combatants, MembersWithout(c)[e])}

RemoveCombatant(c) ==
    /\ Called
    /\ Registered(c)
    /\ Forget(EndedWithout(c), {c}, MembersWithout(c))
    /\ UNCHANGED nextEncounterId

-----------------------------------------------------------------------------
(* resolveTick.  A wind-up with one tick left strikes in this one. *)

Fighters(e) == Living(combatants, encounters[e].members)

WindingUp(c) == combatants[c].windUp.left > 1
Bursting(c) == combatants[c].windUp.left = 1

Queued(c) == c \in DOMAIN queuedActions

\* pickCreatureTarget: a creature may turn to any of the players there, ...
Considered(e, c) ==
    {combatants[c].target} \cup (IF c \in Creature THEN Fighters(e) \cap Player ELSE {})

\* ... or, if it cannot reach the one it prefers, use its action to move.
Chasers(e) == IF Fighters(e) \cap Player = {} THEN {} ELSE Fighters(e) \cap Creature

\* Whoever has nothing queued and aims at nobody who stands in this fight
\* turns to a hostile, if there is one.
Refocused(e, c, t) ==
    IF t \in Fighters(e) \/ Hostile(c, Fighters(e)) = {}
    THEN {t}
    ELSE Hostile(c, Fighters(e))

Aims(e, c) ==
    IF Queued(c) \/ WindingUp(c)
    THEN Considered(e, c)
    ELSE Considered(e, c) \cup UNION {Refocused(e, c, t) : t \in Considered(e, c)}

\* pickDefaultTarget: the first other fighter, friend or foe.
AnyOther(e, c) == Fighters(e) \ {c}

\* Those whom the strike of c may be meant for.
Marks(e, c, aim) ==
    IF Bursting(c) THEN {combatants[c].windUp.at}
    ELSE IF WindingUp(c) THEN AnyOther(e, c)
    ELSE (IF c \in Chasers(e) THEN AnyOther(e, c) ELSE {}) \cup
         (IF Queued(c) THEN
            IF queuedActions[c].act = "flee" THEN {}
            ELSE IF queuedActions[c].at = Nobody THEN AnyOther(e, c)
            ELSE {queuedActions[c].at}
          ELSE IF aim \in Fighters(e) THEN {aim} ELSE AnyOther(e, c))

\* A strike needs a victim who stands, in whichever fight or room.
Victims(e, c, aim) ==
    {v \in Marks(e, c, aim) : Registered(v) /\ combatants[v].alive}

\* Each strike finds a victim or, out of reach, nobody; any of the victims
\* may be left without hit points, all strikes being dealt at once.
MayFall(e, aim) ==
    UNION {SUBSET ({hit[c] : c \in Fighters(e)} \ {Nobody}) :
        hit \in {h \in [Fighters(e) -> Id \cup {Nobody}] :
                    \A c \in Fighters(e) : h[c] \in {Nobody} \cup Victims(e, c, aim[c])}}

\* Those who flee: the ones who meant to, except creatures that chase.
Fleeing(e) ==
    {c \in Fighters(e) : /\ ~WindingUp(c) /\ ~Bursting(c)
                         /\ Queued(c) /\ queuedActions[c].act = "flee"}

MayFlee(e) == {fleeing \in SUBSET Fleeing(e) : Fleeing(e) \ fleeing \subseteq Chasers(e)}

\* Mutant: those who fell flee all the same.
Runners(fleeing, felled) == fleeing

\* Of those who flee, the ones that may get away.
AbleToFlee(fleeing, felled) == fleeing \ felled

StartTick ==
    /\ ~ticking
    /\ ticking' = TRUE
    /\ pending' = DOMAIN encounters
    /\ UNCHANGED <<combatants, encounters, combatantEncounter, queuedActions,
                   nextEncounterId, calls, endedEncounterIds, events>>

\* An encounter is resolved: aim says whom each fighter aims at in the end,
\* felled who has no hit points left, exit where those who flee and get away go.
ResolveEncounter(e, aim, felled, fleeing, exit) ==
    LET fighters == Fighters(e)
        escaped  == DOMAIN exit
        fallen   == felled \cap fighters
        rest     == encounters[e].members \ (escaped \cup fallen)
        quiet    == IF fighters = fleeing THEN encounters[e].quiet + 1 ELSE 0
    IN  /\ combatants' = [c \in DOMAIN combatants |->
                [alive  |-> combatants[c].alive /\ c \notin felled,
                 room   |-> IF c \in escaped THEN exit[c] ELSE combatants[c].room,
                 target |-> LET t == IF c \in fighters THEN aim[c] ELSE combatants[c].target
                            IN  IF c \in rest /\ t \in fallen THEN Nobody ELSE t,
                 windUp |-> IF c \in fighters /\ WindingUp(c)
                            THEN [combatants[c].windUp EXCEPT !.left = @ - 1]
                            ELSE IF c \in fighters THEN NoWindUp
                            ELSE combatants[c].windUp]]
        /\ encounters' = [encounters EXCEPT ![e] = [members |-> rest, quiet |-> quiet]]
        /\ combatantEncounter' = Without(combatantEncounter, escaped \cup fallen)
        /\ queuedActions' = Without(queuedActions, fighters)
        /\ endedEncounterIds' = IF FightIsOver(combatants', rest) \/ quiet = COMBAT_TIMEOUT_TICKS
                                THEN endedEncounterIds \cup {e}
                                ELSE endedEncounterIds
        /\ pending' = pending \ {e}
        /\ events' = [defeated |-> events.defeated \cup fallen,
                      fled     |-> events.fled \cup escaped]
        /\ UNCHANGED <<nextEncounterId, calls, ticking>>

ResolveNext ==
    \E e \in pending :
      /\ \A d \in pending : e <= d
      /\ \E aim \in [Fighters(e) -> Id \cup {Nobody}], fleeing \in MayFlee(e) :
         /\ \A c \in Fighters(e) : aim[c] \in Aims(e, c)
         /\ \E felled \in MayFall(e, aim), escaped \in SUBSET fleeing :
            /\ escaped \subseteq AbleToFlee(fleeing, felled)
            /\ \E exit \in [escaped -> Room] :
               /\ \A c \in escaped : exit[c] # combatants[c].room
               /\ ResolveEncounter(e, aim, felled, fleeing, exit)

\* All are resolved: the ended ones are cleaned up and the result returned.
FinishTick ==
    /\ ticking
    /\ pending = {}
    /\ Forget(endedEncounterIds, {}, [e \in DOMAIN encounters |-> encounters[e].members])
    /\ endedEncounterIds' = {}
    /\ ticking' = FALSE
    /\ events' = NoEvents
    /\ UNCHANGED <<nextEncounterId, calls, pending>>

-----------------------------------------------------------------------------

\* What players and creatures queue themselves, targets aside.
PlainActions(c) ==
    {[act |-> "flee", at |-> Nobody]} \cup (IF c \in Player THEN {Strike(Nobody)} ELSE {})

Call ==
    \/ \E p \in Player, t \in Id, r \in Room : Attack(p, t, r)
    \/ \E p \in Player, t \in Id : AttackAnother(p, t) \/ Target(p, t)
    \/ \E c \in Id : \E action \in PlainActions(c) : SubmitAction(c, action)
    \/ \E c \in Creature, p \in Player, r \in Room : CreatureStrike(c, p, r)
    \/ \E c \in Creature, p \in Player, r \in Room, ticks \in 1..WIND_UP_TICKS :
            CreatureTelegraph(c, p, r, ticks)
    \/ \E p \in Player, r \in Room : Rise(p, r) \/ UpdateCombatantRoom(p, r)
    \/ \E c \in Id : RemoveCombatant(c)

CombatNext ==
    \/ Call
    \/ StartTick
    \/ ResolveNext
    \/ FinishTick

CombatSpec == CombatInit /\ [][CombatNext]_combatVars

-----------------------------------------------------------------------------
(* Properties *)

\* The maps hold what their types say.
CombatTypeOK ==
    /\ IsMap(combatants, Id, Combatant)
    /\ IsMap(encounters, EncounterId, CombatEncounter)
    /\ IsMap(combatantEncounter, Id, EncounterId)
    /\ IsMap(queuedActions, Id, QueuedAction)
    /\ nextEncounterId \in 1..(MaxEncounterId + 1)
    /\ calls \in 0..MaxCalls
    /\ \A e \in DOMAIN encounters : e < nextEncounterId
    /\ ticking \in BOOLEAN
    /\ pending \subseteq DOMAIN encounters
    /\ endedEncounterIds \subseteq DOMAIN encounters
    /\ ~ticking => pending = {} /\ endedEncounterIds = {}
    /\ events \in Events

\* The two ways to ask who fights where agree, however encounters were joined,
\* merged, fled and ended: nobody is in two fights, and no fight has a member
\* that does not know of it.
OneFightEach ==
    /\ \A c \in DOMAIN combatantEncounter :
            /\ combatantEncounter[c] \in DOMAIN encounters
            /\ c \in encounters[combatantEncounter[c]].members
    /\ \A e \in DOMAIN encounters : \A c \in encounters[e].members :
            c \in DOMAIN combatantEncounter /\ combatantEncounter[c] = e

\* Whoever fights is registered, although ended fights unregister people.
FightersAreRegistered == DOMAIN combatantEncounter \subseteq DOMAIN combatants

\* No queued action outlives the fight it was meant for.
ActionsHaveFights == DOMAIN queuedActions \subseteq DOMAIN combatantEncounter

\* Between ticks no fight is left with fewer than two members.
NobodyFightsAlone ==
    ~ticking => \A e \in DOMAIN encounters :
        \E c, d \in encounters[e].members : c # d

\* Nobody both falls and gets away in one tick, in whichever fights it is hit.
NobodyFallsAndFlees == events.defeated \cap events.fled = {}

\* Those who fight together still do after any step, if they still fight.
CompanyStays ==
    [][\A c, d \in DOMAIN combatantEncounter \cap DOMAIN combatantEncounter' :
            combatantEncounter[c] = combatantEncounter[d]
                => combatantEncounter'[c] = combatantEncounter'[d]]_combatVars
=============================================================================
