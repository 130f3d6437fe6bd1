---------------------------- MODULE CreaturesProofs ----------------------------
(***************************************************************************)
(* For any zone, any rooms and hit points and any bound on the ids: the    *)
(* invariants of Creatures, and that only an attack by a player heals.     *)
(*                                                                         *)
(* CreaturesInv is inductive.  What is true between ticks is not true in   *)
(* the middle of one, so Phases says what each phase has still to come to, *)
(* and Together what those it has come to already are like.  That nothing  *)
(* but an attack heals rests on Weaker: the record in the combat system    *)
(* never has fewer hit points than the creature, so that losing it loses   *)
(* none.  InFight says what becomes of the dead: they stay in a fight only *)
(* with a record at 0.                                                     *)
(***************************************************************************)
EXTENDS Creatures, TLAPS, FiniteSetTheorems

Ids ==
    /\ nextCreatureId \in 0..MaxCreatures
    /\ \A i \in DOMAIN creatures \cup Registered : i < nextCreatureId
    /\ zoneCreatureRecords \in [Spawn -> Id]
    /\ \A s \in Spawn : zoneCreatureRecords[s] < nextCreatureId

Phases ==
    /\ phase \in {"rest", "creatures", "fights"}
    /\ noisyRooms \subseteq Place
    /\ phase = "rest" => pending = {}
    /\ phase = "creatures" => pending \subseteq Living
    /\ phase = "fights" => pending \subseteq Registered

\* i has hit points while it lives, and no more than its record, if any.
Weaker(i) ==
    i \in Living => /\ creatures[i].hp > 0
                    /\ i \in Registered => creatures[i].hp <= combatants[i].hp

\* A creature that is still to be reckoned with in its fight lives.
InFight(i) ==
    i \in inCombat => /\ i \in Registered
                      /\ combatants[i].hp > 0 => i \in Living

\* i has been seen to in this tick, if there is one, and is where its record is.
Together(i) ==
    \/ phase = "creatures"
    \/ phase = "fights" /\ i \in pending
    \/ i \in inCombat \cap Living => creatures[i].currentRoomId = combatants[i].roomId

CreaturesInv ==
    /\ IsMap(creatures, Id, Creature)
    /\ IsMap(combatants, Id, Combatant)
    /\ playersInRoom \subseteq Place
    /\ Ids
    /\ Phases
    /\ inCombat \subseteq Id
    /\ \A i \in Id : Weaker(i) /\ InFight(i) /\ Together(i)
    /\ PopulationHolds

\* The properties follow.
LEMMA InvImplies ==
    ASSUME CreaturesInv
    PROVE  TypeOK /\ FightersAreTogether /\ PopulationHolds
<1>1. DOMAIN creatures \subseteq Id /\ DOMAIN combatants \subseteq Id
  BY DEF CreaturesInv, IsMap
<1>2. inCombat \subseteq Registered
  BY DEF CreaturesInv, InFight
<1>3. Living \subseteq DOMAIN creatures
  BY DEF Living
<1>4. \A i \in Living : creatures[i].hp > 0
  BY <1>1, <1>3 DEF CreaturesInv, Weaker
<1>5. pending \subseteq DOMAIN creatures \cup Registered
  BY <1>3 DEF CreaturesInv, Phases
<1>6. TypeOK
  BY <1>2, <1>4, <1>5 DEF CreaturesInv, Ids, Phases, TypeOK
<1>7. FightersAreTogether
  BY DEF CreaturesInv, Together, FightersAreTogether
<1>8. QED
  BY <1>6, <1>7 DEF CreaturesInv

-----------------------------------------------------------------------------
(* The behaviour tree                                                      *)

\* Rooms are places, and every exit leads to one.
LEMMA Places ==
    /\ None \notin Place /\ Room \subseteq Place
    /\ \A r : Adjacent(r) \subseteq Place
BY CreaturesAssumptions DEF Place, Adjacent

LEMMA CreatureFields ==
    ASSUME NEW c \in Creature
    PROVE  /\ c.hp \in 0..MAX_HP /\ c.hp \in Nat
           /\ c.isAlive \in BOOLEAN /\ c.currentRoomId \in Place
           /\ c.behaviorState \in {"idle", "alert", "hostile", "fleeing"}
           /\ c.idleTicks \in 0..IDLE_TICKS /\ c.alertTargetRoomId \in Place \cup {None}
           /\ c.aggressive \in BOOLEAN /\ c.sandbox \in BOOLEAN
           /\ Adjacent(c.currentRoomId) \subseteq Place
<1>1. /\ c.hp \in 0..MAX_HP /\ c.isAlive \in BOOLEAN /\ c.currentRoomId \in Place
      /\ c.behaviorState \in {"idle", "alert", "hostile", "fleeing"}
      /\ c.idleTicks \in 0..IDLE_TICKS /\ c.alertTargetRoomId \in Place \cup {None}
      /\ c.aggressive \in BOOLEAN /\ c.sandbox \in BOOLEAN
  BY DEF Creature
<1>2. c.hp \in Nat /\ Adjacent(c.currentRoomId) \subseteq Place
  BY <1>1, CreaturesAssumptions, Places
<1>3. QED
  BY <1>1, <1>2

LEMMA CombatantFields ==
    ASSUME NEW k \in Combatant
    PROVE  /\ k.hp \in 0..MAX_HP /\ k.hp \in Nat /\ k.roomId \in Place
           /\ Adjacent(k.roomId) \subseteq Place
<1>1. k.hp \in 0..MAX_HP /\ k.roomId \in Place
  BY DEF Combatant
<1>2. k.hp \in Nat /\ Adjacent(k.roomId) \subseteq Place
  BY <1>1, CreaturesAssumptions, Places
<1>3. QED
  BY <1>1, <1>2

LEMMA NewCreatureType ==
    ASSUME NEW r \in Place, NEW aggressive \in BOOLEAN, NEW sandbox \in BOOLEAN
    PROVE  NewCreature(r, aggressive, sandbox) \in Creature
BY CreaturesAssumptions DEF NewCreature, Creature

\* Whatever a creature decides, it keeps its hit points, its life and its kind.
SameBody(c, d) ==
    d \in Creature /\ d.hp = c.hp /\ d.isAlive = c.isAlive /\ d.sandbox = c.sandbox

LEMMA IdleType ==
    ASSUME NEW c \in Creature, NEW d \in Idle(c)
    PROVE  SameBody(c, d)
<1> DEFINE before == IF c.behaviorState = "idle" THEN c.idleTicks ELSE 0
           waited == IF before < IDLE_TICKS THEN before + 1 ELSE before
           idle   == [c EXCEPT !.behaviorState = "idle", !.idleTicks = waited,
                               !.alertTargetRoomId = None]
<1>1. /\ waited \in 0..IDLE_TICKS /\ 0 \in 0..IDLE_TICKS
      /\ Adjacent(c.currentRoomId) \subseteq Place
  BY CreatureFields, CreaturesAssumptions
<1>2. d = idle \/ \E r \in Adjacent(c.currentRoomId) :
                      d = [idle EXCEPT !.idleTicks = 0, !.currentRoomId = r]
  BY DEF Idle
<1> HIDE DEF waited
<1>3. CASE d = idle
  BY <1>1, <1>3 DEF SameBody, Creature
<1>4. CASE \E r \in Adjacent(c.currentRoomId) :
              d = [idle EXCEPT !.idleTicks = 0, !.currentRoomId = r]
  <2>1. PICK r \in Adjacent(c.currentRoomId) :
                d = [idle EXCEPT !.idleTicks = 0, !.currentRoomId = r]
    BY <1>4
  <2>2. r \in Place
    BY <1>1
  <2>3. QED
    BY <1>1, <2>1, <2>2 DEF SameBody, Creature
<1>5. QED
  BY <1>2, <1>3, <1>4

LEMMA AlertType ==
    ASSUME NEW c \in Creature, NEW noisy, NextState(c, noisy) = "alert", NEW d \in Alert(c, noisy)
    PROVE  SameBody(c, d)
<1> DEFINE goals == IF c.behaviorState = "alert" THEN {c.alertTargetRoomId}
                    ELSE Adjacent(c.currentRoomId) \cap noisy
<1>1. PICK r \in goals :
        d = [c EXCEPT !.behaviorState = "alert", !.idleTicks = 0, !.alertTargetRoomId = r,
                      !.currentRoomId = r]
  BY DEF Alert
<1>2. Hears(c, noisy) \/ Searches(c)
  BY DEF NextState
<1>3. r \in Place
  <2>1. CASE c.behaviorState = "alert"
    BY <1>2, <2>1, CreatureFields DEF Hears, Searches
  <2>2. CASE c.behaviorState # "alert"
    BY <2>2, CreatureFields
  <2>3. QED
    BY <2>1, <2>2
<1>4. 0 \in 0..IDLE_TICKS
  BY CreaturesAssumptions
<1>5. QED
  BY <1>1, <1>3, <1>4 DEF SameBody, Creature

LEMMA BehaviourType ==
    ASSUME NEW c \in Creature, NEW noisy, NEW d \in Behaviours(c, noisy)
    PROVE  SameBody(c, d)
<1>1. NextState(c, noisy) \in {"idle", "alert", "hostile", "fleeing"}
  BY DEF NextState
<1>2. CASE NextState(c, noisy) = "idle"
  <2>1. d \in Idle(c)
    BY <1>2 DEF Behaviours
  <2>2. QED
    BY <2>1, IdleType
<1>3. CASE NextState(c, noisy) = "alert"
  <2>1. d \in Alert(c, noisy)
    BY <1>3 DEF Behaviours
  <2>2. QED
    BY <1>3, <2>1, AlertType
<1>4. CASE NextState(c, noisy) \in {"hostile", "fleeing"}
  <2>1. d = [c EXCEPT !.behaviorState = NextState(c, noisy), !.idleTicks = 0,
                      !.alertTargetRoomId = None]
    BY <1>4 DEF Behaviours
  <2>2. 0 \in 0..IDLE_TICKS
    BY CreaturesAssumptions
  <2>3. QED
    BY <1>4, <2>1, <2>2 DEF SameBody, Creature
<1>5. QED
  BY <1>1, <1>2, <1>3, <1>4

-----------------------------------------------------------------------------
(* What a tick of combat makes of one creature                             *)

LEMMA DeadType ==
    ASSUME NEW c \in Creature, NEW r \in Place
    PROVE  /\ Dead(c, r) \in Creature /\ ~Dead(c, r).isAlive
           /\ Dead(c, r).sandbox = c.sandbox
<1>1. NewCreature(r, c.aggressive, c.sandbox) \in Creature
      /\ NewCreature(r, c.aggressive, c.sandbox).sandbox = c.sandbox
  BY CreatureFields, NewCreatureType DEF NewCreature
<1>2. 0 \in 0..MAX_HP
  BY CreaturesAssumptions
<1>3. QED
  BY <1>1, <1>2 DEF Dead, Creature

\* A creature that was brought up to date: as its record has it, if it lives.
LEMMA SyncType ==
    ASSUME NEW c \in Creature, NEW k \in Combatant
    PROVE  LET d == SyncFromCombat(c, k)
           IN  /\ d \in Creature /\ d.sandbox = c.sandbox
               /\ d.isAlive => /\ c.isAlive /\ d.hp = k.hp /\ k.hp > 0
                               /\ d.currentRoomId = k.roomId
               /\ c.isAlive /\ k.hp > 0 => d.isAlive
<1>0. c # None
  BY NoneIsNoRecord
<1>1. k.hp \in 0..MAX_HP /\ k.hp \in Nat /\ k.roomId \in Place
  BY CombatantFields
<1>2. CASE ~c.isAlive
  <2>1. SyncFromCombat(c, k) = c
    BY <1>2 DEF SyncFromCombat
  <2>2. QED
    BY <1>2, <2>1
<1>3. CASE c.isAlive /\ k.hp = 0
  <2>1. SyncFromCombat(c, k) = Dead(c, k.roomId)
    BY <1>0, <1>3 DEF SyncFromCombat
  <2>2. /\ Dead(c, k.roomId) \in Creature /\ ~Dead(c, k.roomId).isAlive
        /\ Dead(c, k.roomId).sandbox = c.sandbox
    BY <1>1, DeadType
  <2>3. QED
    BY <1>1, <1>3, <2>1, <2>2
<1>4. CASE c.isAlive /\ k.hp # 0
  <2>1. SyncFromCombat(c, k) = [c EXCEPT !.hp = k.hp, !.currentRoomId = k.roomId]
    BY <1>0, <1>4 DEF SyncFromCombat
  <2>2. /\ [c EXCEPT !.hp = k.hp, !.currentRoomId = k.roomId] \in Creature
        /\ [c EXCEPT !.hp = k.hp, !.currentRoomId = k.roomId].sandbox = c.sandbox
        /\ [c EXCEPT !.hp = k.hp, !.currentRoomId = k.roomId].isAlive = c.isAlive
        /\ [c EXCEPT !.hp = k.hp, !.currentRoomId = k.roomId].hp = k.hp
        /\ [c EXCEPT !.hp = k.hp, !.currentRoomId = k.roomId].currentRoomId = k.roomId
    BY <1>1 DEF Creature
  <2>3. k.hp > 0
    BY <1>1, <1>4
  <2>4. QED
    BY <1>4, <2>1, <2>2, <2>3
<1>5. QED
  BY <1>2, <1>3, <1>4

\* What f says of the creature c with the record k, in short: the creature
\* keeps its kind, and lives on only if it lived; a record it keeps has lost
\* hit points, if anything, and is where the creature is; without a record the
\* creature is the same as before; and in the fight are only the living and
\* those at 0.
FateOK(f, c, k, fights) ==
    /\ c = None <=> f.creature = None
    /\ c # None =>
         /\ f.creature \in Creature
         /\ f.creature.sandbox = c.sandbox
         /\ f.creature.isAlive =>
              /\ c.isAlive
              /\ f.combatant = None => f.creature = c
              /\ f.combatant # None => /\ f.creature.hp = f.combatant.hp
                                       /\ f.creature.hp > 0
                                       /\ f.creature.currentRoomId = f.combatant.roomId
    /\ f.combatant # None => /\ f.combatant \in Combatant
                             /\ f.combatant.hp <= k.hp
    /\ f.fights => /\ fights /\ f.combatant # None
                   /\ f.combatant.hp > 0 => f.creature # None /\ f.creature.isAlive

LEMMA FateFacts ==
    ASSUME NEW c \in Creature \cup {None}, NEW k \in Combatant, NEW fights \in BOOLEAN,
           fights /\ k.hp > 0 => c # None /\ c.isAlive,
           NEW f \in Fates(c, k, fights)
    PROVE  FateOK(f, c, k, fights)
<1> DEFINE hurt    == [hp : 0..k.hp, roomId : {k.roomId}]
           escaped == [hp : 1..k.hp, roomId : Adjacent(k.roomId)]
<1>0. /\ None \notin Creature /\ None \notin Combatant
      /\ k.hp \in 0..MAX_HP /\ k.hp \in Nat /\ k.roomId \in Place /\ Adjacent(k.roomId) \subseteq Place
      /\ MAX_HP \in Nat
  BY NoneIsNoRecord, CombatantFields, CreaturesAssumptions
<1>1. \/ \E h \in hurt : f = Fate(SyncFromCombat(c, h), h, fights)
      \/ fights /\ f = Fate(c, None, FALSE)
      \/ fights /\ k.hp > 0 /\ f = Fate(Dead(c, c.currentRoomId), None, FALSE)
      \/ c # None /\ \E h \in escaped : f = Fate(SyncFromCombat(c, h), h, FALSE)
  BY DEF Fates
<1>2. ASSUME NEW h \in Combatant, h.hp <= k.hp, NEW on \in BOOLEAN, on => fights,
             f = Fate(SyncFromCombat(c, h), h, on)
      PROVE  FateOK(f, c, k, fights)
  <2>0. h # None /\ h.hp \in 0..MAX_HP
    BY <1>0, CombatantFields
  <2>1. f.creature = SyncFromCombat(c, h) /\ f.combatant = h /\ f.fights = on
    BY <1>2 DEF Fate
  <2>2. CASE c = None
    <3>1. f.creature = None
      BY <2>1, <2>2 DEF SyncFromCombat
    <3>2. on => h.hp = 0
      BY <1>0, <1>2, <2>0, <2>2
    <3>3. QED
      BY <1>2, <2>0, <2>1, <2>2, <3>1, <3>2 DEF FateOK
  <2>3. CASE c \in Creature
    <3>1. /\ f.creature \in Creature /\ f.creature.sandbox = c.sandbox
          /\ f.creature.isAlive => /\ c.isAlive /\ f.creature.hp = h.hp /\ h.hp > 0
                                   /\ f.creature.currentRoomId = h.roomId
          /\ c.isAlive /\ h.hp > 0 => f.creature.isAlive
      BY <2>1, <2>3, SyncType
    <3>2. c # None /\ f.creature # None
      BY <1>0, <2>3, <3>1
    <3>3. on /\ h.hp > 0 => c.isAlive
      BY <1>0, <1>2, <2>0
    <3>4. QED
      BY <1>2, <2>0, <2>1, <3>1, <3>2, <3>3 DEF FateOK
  <2>4. QED
    BY <2>2, <2>3
<1>3. \A h \in hurt \cup escaped : h \in Combatant /\ h.hp <= k.hp
  BY <1>0 DEF Combatant
<1>4. CASE fights /\ f = Fate(c, None, FALSE)
  <2>1. f.creature = c /\ f.combatant = None /\ ~f.fights
    BY <1>4 DEF Fate
  <2>2. QED
    BY <2>1 DEF FateOK
<1>5. CASE fights /\ k.hp > 0 /\ f = Fate(Dead(c, c.currentRoomId), None, FALSE)
  <2>1. f.creature = Dead(c, c.currentRoomId) /\ f.combatant = None /\ ~f.fights
    BY <1>5 DEF Fate
  <2>2. c \in Creature /\ c.currentRoomId \in Place
    BY <1>5, CreatureFields
  <2>3. /\ f.creature \in Creature /\ ~f.creature.isAlive /\ f.creature.sandbox = c.sandbox
        /\ f.creature # None
    BY <1>0, <2>1, <2>2, DeadType
  <2>4. QED
    BY <1>0, <2>1, <2>2, <2>3 DEF FateOK
<1>6. CASE \E h \in hurt : f = Fate(SyncFromCombat(c, h), h, fights)
  BY <1>2, <1>3, <1>6
<1>7. CASE c # None /\ \E h \in escaped : f = Fate(SyncFromCombat(c, h), h, FALSE)
  BY <1>2, <1>3, <1>7
<1>8. QED
  BY <1>1, <1>4, <1>5, <1>6, <1>7

-----------------------------------------------------------------------------
(* Players *)

\* The ids in use, and the types behind them.
LEMMA Known ==
    ASSUME CreaturesInv
    PROVE  /\ DOMAIN creatures \subseteq Id /\ DOMAIN combatants \subseteq Id
           /\ \A i \in DOMAIN creatures : creatures[i] \in Creature
           /\ \A i \in DOMAIN combatants : combatants[i] \in Combatant
           /\ Living \subseteq DOMAIN creatures /\ inCombat \subseteq Registered
           /\ nextCreatureId \in Nat /\ MaxCreatures \in Nat
<1>1. Living \subseteq DOMAIN creatures
  BY DEF Living
<1>2. inCombat \subseteq Registered
  BY DEF CreaturesInv, InFight
<1>3. nextCreatureId \in Nat /\ MaxCreatures \in Nat
  BY CreaturesAssumptions DEF CreaturesInv, Ids
<1>4. QED
  BY <1>1, <1>2, <1>3 DEF CreaturesInv, IsMap

LEMMA VigourType == CreaturesInv => \A j \in Living : Vigour(j) \in Nat
BY Known, CreatureFields, CombatantFields DEF Vigour, Registered

\* While the records stand and nobody comes to life, the zone is not
\* overpopulated.
LEMMA PopulationKept ==
    ASSUME CreaturesInv, UNCHANGED zoneCreatureRecords,
           \A i \in Living' : \/ creatures'[i].sandbox
                              \/ i \in Living /\ creatures'[i].sandbox = creatures[i].sandbox
    PROVE  PopulationHolds'
BY DEF CreaturesInv, PopulationHolds

\* No step but an attack gives hit points to a creature that lives.
NobodyHeals == \A j \in Living \cap Living' : Vigour(j)' <= Vigour(j)

\* Who keeps its hit points, or loses or copies its record, is not healed.
LEMMA NotHealed ==
    ASSUME CreaturesInv,
           \A j \in Living \cap Living' : creatures'[j].hp = creatures[j].hp,
           \A j \in Living \cap Living' \cap Registered' :
              combatants'[j].hp = IF j \in Registered THEN combatants[j].hp ELSE creatures[j].hp
    PROVE  NobodyHeals
<1>1. ASSUME NEW j \in Living \cap Living'
      PROVE  Vigour(j)' <= Vigour(j)
  <2>1. j \in Id /\ creatures[j].hp \in Nat /\ (j \in Registered => combatants[j].hp \in Nat)
    BY Known, CreatureFields, CombatantFields DEF Registered
  <2>2. j \in Registered => creatures[j].hp <= combatants[j].hp
    BY <2>1 DEF CreaturesInv, Weaker
  <2>3. CASE j \in Registered'
    BY <2>1, <2>3 DEF Vigour
  <2>4. CASE j \notin Registered'
    BY <2>1, <2>2, <2>4 DEF Vigour
  <2>5. QED
    BY <2>3, <2>4
<1>2. QED
  BY <1>1 DEF NobodyHeals

LEMMA AttackStep ==
    ASSUME CreaturesInv, NEW i \in Id, Attack(i)
    PROVE  /\ CreaturesInv'
           /\ \A j \in Living \ {i} : Vigour(j)' = Vigour(j)
<1> DEFINE fresh == [hp |-> MAX_HP, roomId |-> creatures[i].currentRoomId]
<1>1. /\ phase = "rest" /\ i \in Living /\ i \in DOMAIN creatures
      /\ combatants' = IF i \in Registered THEN combatants ELSE Put(combatants, i, fresh)
      /\ inCombat' = IF combatants'[i].roomId = creatures[i].currentRoomId
                     THEN inCombat \cup {i} ELSE inCombat
      /\ UNCHANGED <<creatures, nextCreatureId, zoneCreatureRecords, playersInRoom,
                     phase, pending, noisyRooms>>
  BY Known DEF Attack, tickVars, Joined, Meet
<1>2. creatures[i] \in Creature /\ creatures[i].hp <= MAX_HP
  BY <1>1, Known, CreatureFields, CreaturesAssumptions
<1>3. fresh \in Combatant
  BY <1>2, CreatureFields, CreaturesAssumptions DEF Combatant
<1> HIDE DEF fresh
<1>4. IsMap(combatants, Id, Combatant)'
  BY <1>1, <1>3 DEF CreaturesInv, IsMap, Put
<1>5. /\ Registered' = Registered \cup {i}
      /\ \A j \in Registered : combatants'[j] = combatants[j]
      /\ i \notin Registered => combatants'[i] = fresh
  <2>1. CASE i \in Registered
    BY <1>1, <2>1 DEF Registered
  <2>2. CASE i \notin Registered
    BY <1>1, <2>2 DEF Registered, Put
  <2>3. QED
    BY <2>1, <2>2
<1>6. Living' = Living
  BY <1>1 DEF Living
<1>7. Ids'
  BY <1>1, <1>5 DEF CreaturesInv, Ids
<1>8. Phases'
  BY <1>1 DEF CreaturesInv, Phases
<1>9. ASSUME NEW j \in Id
      PROVE  Weaker(j)' /\ InFight(j)' /\ Together(j)'
  <2>1. Weaker(j)'
    <3>1. i \notin Registered => combatants'[i].hp = MAX_HP
      BY <1>5 DEF fresh
    <3>2. QED
      BY <1>1, <1>2, <1>5, <1>6, <3>1 DEF CreaturesInv, Weaker
  <2>2. InFight(j)'
    BY <1>1, <1>5, <1>6 DEF CreaturesInv, InFight
  <2>3. Together(j)'
    <3>1. CASE j \in inCombat
      BY <1>1, <1>5, <1>6, <3>1, Known DEF CreaturesInv, Together
    <3>2. CASE j \notin inCombat
      BY <1>1, <3>2 DEF Together
    <3>3. QED
      BY <3>1, <3>2
  <2>4. QED
    BY <2>1, <2>2, <2>3
<1>10. PopulationHolds'
  BY <1>1, <1>6 DEF CreaturesInv, PopulationHolds
<1>11. inCombat' \subseteq Id
  BY <1>1 DEF CreaturesInv
<1>12. \A j \in Living \ {i} : Vigour(j)' = Vigour(j)
  BY <1>1, <1>5 DEF Vigour
<1>13. QED
  BY <1>1, <1>4, <1>7, <1>8, <1>9, <1>10, <1>11, <1>12 DEF CreaturesInv

\* Records and fights only go, with creatures unchanged or gone too.
LEMMA RemovalStep ==
    ASSUME CreaturesInv, phase = "rest",
           NEW gone, creatures' = Without(creatures, gone),
           NEW lost, combatants' = Without(combatants, lost),
           inCombat' = inCombat \ lost,
           gone \cap Living \subseteq lost,
           UNCHANGED <<nextCreatureId, zoneCreatureRecords, playersInRoom,
                       phase, pending, noisyRooms>>
    PROVE  CreaturesInv' /\ NobodyHeals
<1>1. /\ DOMAIN creatures' = DOMAIN creatures \ gone
      /\ \A j \in DOMAIN creatures \ gone : creatures'[j] = creatures[j]
  BY DEF Without
<1>2. /\ Registered' = Registered \ lost
      /\ \A j \in Registered \ lost : combatants'[j] = combatants[j]
  BY DEF Registered, Without
<1>3. IsMap(creatures, Id, Creature)' /\ IsMap(combatants, Id, Combatant)'
  BY DEF CreaturesInv, IsMap, Without
<1>4. Living' = Living \ gone /\ \A j \in Living' : creatures'[j] = creatures[j]
  BY <1>1 DEF Living
<1>5. Ids'
  BY <1>1, <1>2 DEF CreaturesInv, Ids
<1>6. Phases'
  BY DEF CreaturesInv, Phases
<1>7. ASSUME NEW j \in Id
      PROVE  Weaker(j)' /\ InFight(j)' /\ Together(j)'
  <2>1. Weaker(j)'
    BY <1>2, <1>4 DEF CreaturesInv, Weaker
  <2>2. InFight(j)'
    BY <1>2, <1>4 DEF CreaturesInv, InFight
  <2>3. Together(j)'
    <3>1. CASE j \in inCombat' \cap Living'
      <4>1. j \in inCombat /\ j \in Living /\ j \in Registered \ lost
        BY <1>4, <3>1, Known
      <4>2. creatures[j].currentRoomId = combatants[j].roomId
        BY <4>1 DEF CreaturesInv, Together
      <4>3. QED
        BY <1>2, <1>4, <3>1, <4>1, <4>2 DEF Together
    <3>2. CASE j \notin inCombat' \cap Living'
      BY <3>2 DEF Together
    <3>3. QED
      BY <3>1, <3>2
  <2>4. QED
    BY <2>1, <2>2, <2>3
<1>8. PopulationHolds'
  BY <1>4, PopulationKept
<1>9. inCombat' \subseteq Id
  BY DEF CreaturesInv
<1>10. NobodyHeals
  BY <1>2, <1>4, NotHealed
<1>11. QED
  BY <1>3, <1>5, <1>6, <1>7, <1>8, <1>9, <1>10 DEF CreaturesInv

LEMMA EndFightStep ==
    ASSUME CreaturesInv, NEW i \in Id, EndFight(i)
    PROVE  CreaturesInv' /\ NobodyHeals
<1>1. creatures' = Without(creatures, {})
  BY DEF EndFight, Without, CreaturesInv, IsMap
<1>2. QED
  BY <1>1, RemovalStep DEF EndFight, tickVars

LEMMA ClearStep ==
    ASSUME CreaturesInv, NEW r \in Place, ClearCreaturesInRoom(r)
    PROVE  CreaturesInv' /\ NobodyHeals
BY RemovalStep DEF ClearCreaturesInRoom, tickVars

LEMMA PlayersMoveStep ==
    ASSUME CreaturesInv, PlayersMove
    PROVE  CreaturesInv' /\ NobodyHeals
<1>1. /\ playersInRoom' \subseteq Place
      /\ UNCHANGED <<creatures, nextCreatureId, zoneCreatureRecords, combatants, inCombat,
                     phase, pending, noisyRooms>>
  BY DEF PlayersMove, tickVars
<1>2. Living' = Living /\ Registered' = Registered
  BY <1>1 DEF Living, Registered
<1>3. NobodyHeals
  BY <1>1, <1>2, NotHealed
<1>4. QED
  BY <1>1, <1>2, <1>3 DEF CreaturesInv, Ids, Phases, Weaker, InFight, Together, PopulationHolds

-----------------------------------------------------------------------------
(* Creatures that come *)

LEMMA VacantFinite ==
    /\ Vacant \subseteq Spawn /\ Spawn \subseteq Nat /\ IsFiniteSet(Vacant)
    /\ Cardinality(Vacant) \in Nat /\ Cardinality(Spawn) \in Nat
<1>1. IsFiniteSet(Spawn) /\ Spawn = 1..Cardinality(Spawn)
  BY CreaturesAssumptions
<1>2. Cardinality(Spawn) \in Nat
  BY <1>1, FS_CardinalityType
<1>3. Spawn \subseteq Nat
  BY <1>1, <1>2
<1>4. Vacant \subseteq Spawn
  BY DEF Vacant
<1>5. IsFiniteSet(Vacant) /\ Cardinality(Vacant) \in Nat
  BY <1>1, <1>4, FS_Subset, FS_CardinalityType
<1>6. QED
  BY <1>2, <1>3, <1>4, <1>5

\* The ids for the vacant spawns are new, and each spawn has its own.
LEMMA NextIds ==
    ASSUME CreaturesInv
    PROVE  /\ \A s \in Vacant : /\ NextId(s) \in Nat /\ NextId(s) >= nextCreatureId
                              /\ NextId(s) < nextCreatureId + Cardinality(Vacant)
           /\ \A s, t \in Vacant : NextId(s) = NextId(t) => s = t
<1> DEFINE below(s) == {t \in Vacant : t < s}
<1>0. nextCreatureId \in Nat /\ Cardinality(Vacant) \in Nat /\ Vacant \subseteq Nat
  BY Known, VacantFinite
<1>1. ASSUME NEW s \in Vacant
      PROVE  /\ IsFiniteSet(below(s)) /\ Cardinality(below(s)) \in Nat
             /\ Cardinality(below(s)) < Cardinality(Vacant)
  <2>1. below(s) \subseteq Vacant /\ s \notin below(s)
    BY <1>0
  <2>2. below(s) # Vacant
    BY <2>1
  <2>3. IsFiniteSet(below(s)) /\ Cardinality(below(s)) \in Nat
    BY <2>1, VacantFinite, FS_Subset, FS_CardinalityType
  <2>4. Cardinality(below(s)) <= Cardinality(Vacant) /\ Cardinality(below(s)) # Cardinality(Vacant)
    BY <2>1, <2>2, VacantFinite, FS_Subset
  <2>5. QED
    BY <1>0, <2>3, <2>4
<1>2. ASSUME NEW s \in Vacant, NEW t \in Vacant, s < t
      PROVE  Cardinality(below(s)) < Cardinality(below(t))
  <2>1. below(s) \subseteq below(t) /\ s \in below(t) /\ s \notin below(s)
    <3>1. s \in Nat /\ t \in Nat /\ \A u \in Vacant : u \in Nat
      BY <1>0
    <3>2. \A u \in Vacant : u < s => u < t
      BY <1>2, <3>1
    <3>3. below(s) \subseteq below(t)
      BY <3>2
    <3>4. s \in below(t) /\ s \notin below(s)
      BY <1>2, <3>1
    <3>5. QED
      BY <3>3, <3>4
  <2>2. below(s) # below(t)
    BY <2>1
  <2>3. Cardinality(below(s)) <= Cardinality(below(t)) /\ Cardinality(below(s)) # Cardinality(below(t))
    BY <1>1, <2>1, <2>2, FS_Subset
  <2>4. QED
    BY <1>1, <2>3
<1>3. \A s : NextId(s) = nextCreatureId + Cardinality(below(s))
  BY DEF NextId
<1> HIDE DEF below
<1>4. ASSUME NEW s \in Vacant
      PROVE  /\ NextId(s) \in Nat /\ NextId(s) >= nextCreatureId
             /\ NextId(s) < nextCreatureId + Cardinality(Vacant)
  BY <1>0, <1>1, <1>3
<1>5. ASSUME NEW s \in Vacant, NEW t \in Vacant, NextId(s) = NextId(t)
      PROVE  s = t
  <2>1. Cardinality(below(s)) = Cardinality(below(t))
    BY <1>0, <1>1, <1>3, <1>5
  <2>2. ~(s < t) /\ ~(t < s)
    BY <1>1, <1>2, <2>1
  <2>3. QED
    BY <1>0, <2>2
<1>6. QED
  BY <1>4, <1>5

\* Creatures of new ids: nothing that is true of the old ones changes.
LEMMA ArrivalStep ==
    ASSUME CreaturesInv, phase = "rest",
           NEW new, NEW stay \in SUBSET DOMAIN creatures,
           Living \subseteq stay,
           \A i \in new : i \in Id /\ i >= nextCreatureId /\ i < nextCreatureId',
           creatures' = [i \in stay \cup new |-> creatures'[i]],
           \A i \in stay : creatures'[i] = creatures[i],
           \A i \in new : /\ creatures'[i] \in Creature /\ creatures'[i].hp > 0
                          /\ i \in Registered' => combatants'[i].hp = creatures'[i].hp,
           nextCreatureId' \in nextCreatureId..MaxCreatures,
           IsMap(combatants, Id, Combatant)',
           Registered \subseteq Registered', Registered' \subseteq Registered \cup new,
           \A i \in Registered : combatants'[i] = combatants[i],
           zoneCreatureRecords' \in [Spawn -> Id],
           \A s \in Spawn : zoneCreatureRecords'[s] < nextCreatureId',
           UNCHANGED <<playersInRoom, inCombat, phase, pending, noisyRooms>>,
           PopulationHolds'
    PROVE  CreaturesInv' /\ NobodyHeals
<1>0. \A i \in DOMAIN creatures \cup Registered : i \in Id /\ i \in Int /\ i < nextCreatureId
  BY Known DEF CreaturesInv, Ids, Id, Registered
<1>1. new \cap (DOMAIN creatures \cup Registered) = {}
  BY <1>0, Known DEF Id
<1>2. DOMAIN creatures' = stay \cup new
  OBVIOUS
<1>3. IsMap(creatures, Id, Creature)'
  BY <1>0, <1>2, Known DEF IsMap
<1>4. Living \subseteq Living' /\ Living' \subseteq Living \cup new
  BY <1>2 DEF Living
<1>5. Ids'
  <2>1. nextCreatureId' \in 0..MaxCreatures /\ nextCreatureId <= nextCreatureId'
    BY Known
  <2>2. \A i \in DOMAIN creatures' \cup Registered' : i < nextCreatureId'
    BY <1>0, <1>2, <2>1, Known
  <2>3. QED
    BY <2>1, <2>2 DEF Ids
<1>6. Phases'
  BY DEF CreaturesInv, Phases
<1>7. ASSUME NEW j \in Id
      PROVE  Weaker(j)' /\ InFight(j)' /\ Together(j)'
  <2>1. Weaker(j)'
    <3>1. CASE j \in new
      <4>1. creatures'[j].hp \in Nat
        BY <3>1, CreatureFields
      <4>2. QED
        BY <3>1, <4>1 DEF Weaker
    <3>2. CASE j \notin new /\ j \in Living'
      <4>1. j \in Living /\ j \in stay /\ (j \in Registered' => j \in Registered)
        BY <1>4, <3>2
      <4>2. QED
        BY <4>1 DEF CreaturesInv, Weaker
    <3>3. CASE j \notin Living'
      BY <3>3 DEF Weaker
    <3>4. QED
      BY <3>1, <3>2, <3>3
  <2>2. InFight(j)'
    BY <1>4 DEF CreaturesInv, InFight
  <2>3. Together(j)'
    <3>1. CASE j \in inCombat' \cap Living'
      <4>1. j \in inCombat /\ j \in Registered /\ j \in Living /\ j \in stay
        BY <1>1, <1>4, <3>1, Known
      <4>2. QED
        BY <4>1 DEF CreaturesInv, Together
    <3>2. CASE j \notin inCombat' \cap Living'
      BY <3>2 DEF Together
    <3>3. QED
      BY <3>1, <3>2
  <2>4. QED
    BY <2>1, <2>2, <2>3
<1>8. NobodyHeals
  <2>1. \A j \in Living : j \in stay /\ (j \in Registered' => j \in Registered)
    BY <1>1, Known
  <2>2. QED
    BY <2>1, NotHealed
<1>9. QED
  BY <1>3, <1>5, <1>6, <1>7, <1>8 DEF CreaturesInv

LEMMA RespawnStep ==
    ASSUME CreaturesInv, RespawnZoneCreatures
    PROVE  CreaturesInv' /\ NobodyHeals
<1> DEFINE new     == {NextId(s) : s \in Vacant}
           made(i) == {s \in Vacant : NextId(s) = i}
           stay    == DOMAIN creatures \ {zoneCreatureRecords[s] : s \in Vacant}
<1>1. /\ phase = "rest"
      /\ nextCreatureId + Cardinality(Vacant) <= MaxCreatures
      /\ nextCreatureId' = nextCreatureId + Cardinality(Vacant)
      /\ creatures' = [i \in stay \cup new |->
                          IF i \in stay THEN creatures[i]
                          ELSE ZoneCreature(CHOOSE s \in made(i) : TRUE)]
      /\ UNCHANGED <<playersInRoom, combatants, inCombat, phase, pending, noisyRooms>>
      /\ zoneCreatureRecords' = [s \in Spawn |->
                                    IF s \in Vacant THEN NextId(s) ELSE zoneCreatureRecords[s]]
  BY DEF RespawnZoneCreatures, Repopulate, tickVars
<1>2. /\ nextCreatureId \in Nat /\ MaxCreatures \in Nat /\ Cardinality(Vacant) \in Nat
      /\ zoneCreatureRecords \in [Spawn -> Id]
      /\ \A s \in Spawn : zoneCreatureRecords[s] < nextCreatureId
      /\ DOMAIN creatures \subseteq Id
      /\ \A i \in DOMAIN creatures : i < nextCreatureId
  BY Known, VacantFinite DEF CreaturesInv, Ids
<1>3. \A s \in Vacant : /\ NextId(s) \in Nat /\ NextId(s) >= nextCreatureId
                       /\ NextId(s) < nextCreatureId + Cardinality(Vacant)
  BY NextIds
<1>4. \A i \in new : i \in Id /\ i >= nextCreatureId /\ i < nextCreatureId'
  BY <1>1, <1>2, <1>3 DEF Id
<1>5. \A i \in new : i \notin DOMAIN creatures
  BY <1>2, <1>4 DEF Id
<1>6. Living \subseteq stay
  BY Known DEF Vacant
<1>7. stay \subseteq DOMAIN creatures /\ \A i \in stay : creatures'[i] = creatures[i]
  BY <1>1
<1>8. ASSUME NEW i \in new
      PROVE  creatures'[i] \in Creature /\ creatures'[i].hp > 0 /\ i \notin Registered'
  <2>1. PICK s \in Spawn : creatures'[i] = ZoneCreature(s)
    <3>1. i \notin stay
      BY <1>5
    <3>2. creatures'[i] = ZoneCreature(CHOOSE s \in made(i) : TRUE)
      BY <1>1, <3>1
    <3>3. (CHOOSE s \in made(i) : TRUE) \in made(i)
      OBVIOUS
    <3>4. (CHOOSE s \in made(i) : TRUE) \in Spawn
      BY <3>3, VacantFinite
    <3>5. QED
      BY <3>2, <3>4
  <2>2. Home[s] \in Place /\ (s \in Aggressive) \in BOOLEAN
    BY CreaturesAssumptions, Places
  <2>3. creatures'[i] \in Creature
    BY <2>1, <2>2, NewCreatureType DEF ZoneCreature
  <2>4. creatures'[i].hp > 0
    BY <2>1, CreaturesAssumptions DEF ZoneCreature, NewCreature
  <2>5. i \notin Registered'
    <3>1. \A j \in Registered : j \in Id /\ j < nextCreatureId
      BY Known DEF CreaturesInv, Ids, Registered
    <3>2. Registered' = Registered
      BY <1>1 DEF Registered
    <3>3. QED
      BY <1>2, <1>4, <3>1, <3>2 DEF Id
  <2>6. QED
    BY <2>3, <2>4, <2>5
<1>9. \A s \in Spawn : zoneCreatureRecords'[s] \in Id /\ zoneCreatureRecords'[s] < nextCreatureId'
  <2>1. ASSUME NEW s \in Spawn
        PROVE  zoneCreatureRecords'[s] \in Id /\ zoneCreatureRecords'[s] < nextCreatureId'
    <3>1. CASE s \in Vacant
      BY <1>1, <1>4, <3>1
    <3>2. CASE s \notin Vacant
      <4>1. zoneCreatureRecords'[s] = zoneCreatureRecords[s] /\ zoneCreatureRecords[s] \in Id
        BY <1>1, <1>2, <3>2
      <4>2. QED
        BY <1>1, <1>2, <4>1 DEF Id
    <3>3. QED
      BY <3>1, <3>2
  <2>2. QED
    BY <2>1
<1>10. zoneCreatureRecords' \in [Spawn -> Id]
  BY <1>1, <1>9
<1>11. PopulationHolds'
  <2>1. ASSUME NEW s \in Spawn, NEW t \in Spawn,
               zoneCreatureRecords'[s] = zoneCreatureRecords'[t]
        PROVE  s = t
    <3>1. /\ zoneCreatureRecords'[s] = IF s \in Vacant THEN NextId(s) ELSE zoneCreatureRecords[s]
          /\ zoneCreatureRecords'[t] = IF t \in Vacant THEN NextId(t) ELSE zoneCreatureRecords[t]
      BY <1>1
    <3>2. /\ zoneCreatureRecords[s] \in Nat /\ zoneCreatureRecords[s] < nextCreatureId
          /\ zoneCreatureRecords[t] \in Nat /\ zoneCreatureRecords[t] < nextCreatureId
      BY <1>2 DEF Id
    <3>3. CASE s \in Vacant /\ t \in Vacant
      <4>1. NextId(s) = NextId(t)
        BY <2>1, <3>1, <3>3
      <4>2. QED
        BY <3>3, <4>1, NextIds
    <3>4. CASE s \notin Vacant /\ t \notin Vacant
      <4>1. zoneCreatureRecords[s] = zoneCreatureRecords[t]
        BY <2>1, <3>1, <3>4
      <4>2. QED
        BY <4>1 DEF CreaturesInv, PopulationHolds
    <3>5. CASE s \in Vacant /\ t \notin Vacant
      <4>1. NextId(s) = zoneCreatureRecords[t]
        BY <2>1, <3>1, <3>5
      <4>2. NextId(s) \in Nat /\ NextId(s) >= nextCreatureId
        BY <1>3, <3>5
      <4>3. QED
        BY <1>2, <3>2, <4>1, <4>2
    <3>6. CASE s \notin Vacant /\ t \in Vacant
      <4>1. NextId(t) = zoneCreatureRecords[s]
        BY <2>1, <3>1, <3>6
      <4>2. NextId(t) \in Nat /\ NextId(t) >= nextCreatureId
        BY <1>3, <3>6
      <4>3. QED
        BY <1>2, <3>2, <4>1, <4>2
    <3>7. QED
      BY <3>3, <3>4, <3>5, <3>6
  <2>2. ASSUME NEW i \in Living'
        PROVE  creatures'[i].sandbox \/ \E s \in Spawn : zoneCreatureRecords'[s] = i
    <3>1. i \in stay \cup new /\ creatures'[i].isAlive
      BY <1>1, <2>2 DEF Living
    <3>2. CASE i \in new
      <4>1. PICK s \in Vacant : i = NextId(s)
        BY <3>2
      <4>2. QED
        BY <1>1, <4>1, VacantFinite
    <3>3. CASE i \in stay
      <4>1. i \in Living /\ creatures'[i] = creatures[i]
        BY <1>7, <3>1, <3>3 DEF Living
      <4>2. creatures[i].sandbox \/ \E s \in Spawn : zoneCreatureRecords[s] = i
        BY <4>1 DEF CreaturesInv, PopulationHolds
      <4>3. \A s \in Spawn : zoneCreatureRecords[s] = i => s \notin Vacant
        BY <4>1 DEF Vacant
      <4>4. QED
        BY <1>1, <4>1, <4>2, <4>3
    <3>4. QED
      BY <3>1, <3>2, <3>3
  <2>3. QED
    BY <2>1, <2>2 DEF PopulationHolds
<1>12. /\ IsMap(combatants, Id, Combatant)' /\ Registered' = Registered
       /\ \A i \in Registered : combatants'[i] = combatants[i]
  BY <1>1 DEF CreaturesInv, Registered
<1>13. creatures' = [i \in stay \cup new |-> creatures'[i]]
  BY <1>1
<1>14. nextCreatureId' \in nextCreatureId..MaxCreatures
  BY <1>1, <1>2
<1> HIDE DEF new, stay
<1>15. QED
  BY <1>1, <1>4, <1>6, <1>7, <1>8, <1>9, <1>10, <1>11, <1>12, <1>13, <1>14, ArrivalStep

LEMMA SpawnStep ==
    ASSUME CreaturesInv, NEW r \in Place, NEW aggressive \in BOOLEAN, NEW registered \in BOOLEAN,
           SpawnCreatureInRoom(r, aggressive, registered)
    PROVE  CreaturesInv' /\ NobodyHeals
<1> DEFINE c   == NewCreature(r, aggressive, TRUE)
           new == {nextCreatureId}
<1>1. /\ phase = "rest" /\ nextCreatureId < MaxCreatures
      /\ nextCreatureId' = nextCreatureId + 1
      /\ creatures' = Put(creatures, nextCreatureId, c)
      /\ combatants' = IF registered THEN Put(combatants, nextCreatureId, ToCombatant(c))
                       ELSE combatants
      /\ UNCHANGED <<zoneCreatureRecords, playersInRoom, inCombat, phase, pending, noisyRooms>>
  BY DEF SpawnCreatureInRoom, tickVars
<1>2. nextCreatureId \in Nat /\ MaxCreatures \in Nat /\ nextCreatureId \in Id
  BY <1>1, Known DEF Id
<1>3. /\ c \in Creature /\ c.hp = MAX_HP /\ MAX_HP > 0 /\ c.sandbox
      /\ ToCombatant(c) \in Combatant /\ ToCombatant(c).hp = MAX_HP
  <2>0. TRUE \in BOOLEAN
    OBVIOUS
  <2>1. c \in Creature
    BY <2>0, NewCreatureType
  <2>11. c.hp = MAX_HP /\ c.sandbox
    BY DEF NewCreature
  <2>12. MAX_HP > 0
    BY CreaturesAssumptions
  <2>2. ToCombatant(c) \in Combatant /\ ToCombatant(c).hp = MAX_HP
    BY <2>1, <2>11, CreatureFields DEF ToCombatant, Combatant
  <2>3. QED
    BY <2>1, <2>11, <2>12, <2>2
<1> HIDE DEF c
<1>4. \A i \in DOMAIN creatures \cup Registered : i \in Nat /\ i < nextCreatureId
  BY Known DEF CreaturesInv, Ids, Id, Registered
<1>5. /\ creatures' = [i \in DOMAIN creatures \cup new |-> creatures'[i]]
      /\ creatures'[nextCreatureId] = c
      /\ \A i \in DOMAIN creatures : creatures'[i] = creatures[i]
  BY <1>1, <1>2, <1>4 DEF Put
<1>6. /\ IsMap(combatants, Id, Combatant)'
      /\ Registered \subseteq Registered' /\ Registered' \subseteq Registered \cup new
      /\ \A i \in Registered : combatants'[i] = combatants[i]
      /\ nextCreatureId \in Registered' => combatants'[nextCreatureId] = ToCombatant(c)
  <2>1. CASE registered
    <3>1. IsMap(combatants, Id, Combatant)'
      BY <1>1, <1>2, <1>3, <2>1 DEF CreaturesInv, IsMap, Put
    <3>2. QED
      BY <1>1, <1>2, <1>4, <2>1, <3>1 DEF Registered, Put
  <2>2. CASE ~registered
    BY <1>1, <1>2, <1>4, <2>2 DEF CreaturesInv, Registered
  <2>3. QED
    BY <2>1, <2>2
<1>7. PopulationHolds'
  <2>1. ASSUME NEW i \in Living'
        PROVE  \/ creatures'[i].sandbox
               \/ i \in Living /\ creatures'[i].sandbox = creatures[i].sandbox
    BY <1>3, <1>5, <2>1 DEF Living
  <2>2. \A i \in Living' : \/ creatures'[i].sandbox
                           \/ i \in Living /\ creatures'[i].sandbox = creatures[i].sandbox
    BY <2>1
  <2>3. zoneCreatureRecords' = zoneCreatureRecords
    BY <1>1
  <2>4. QED
    BY <2>2, <2>3 DEF CreaturesInv, PopulationHolds
<1>8. /\ zoneCreatureRecords' \in [Spawn -> Id]
      /\ \A s \in Spawn : zoneCreatureRecords'[s] < nextCreatureId'
  BY <1>1, <1>2 DEF CreaturesInv, Ids, Id
<1>9. nextCreatureId' \in nextCreatureId..MaxCreatures
  BY <1>1, <1>2
<1>10. \A i \in new : i \in Id /\ i >= nextCreatureId /\ i < nextCreatureId'
  BY <1>1, <1>2
<1>11. \A i \in new : /\ creatures'[i] \in Creature /\ creatures'[i].hp > 0
                      /\ i \in Registered' => combatants'[i].hp = creatures'[i].hp
  BY <1>3, <1>5, <1>6
<1>12. Living \subseteq DOMAIN creatures
  BY DEF Living
<1> HIDE DEF new
<1>13. QED
  BY <1>1, <1>5, <1>6, <1>7, <1>8, <1>9, <1>10, <1>11, <1>12, ArrivalStep

-----------------------------------------------------------------------------
(* The tick *)

LEMMA StartTickStep ==
    ASSUME CreaturesInv, NEW duels \in SUBSET Place, StartTick(duels)
    PROVE  CreaturesInv' /\ NobodyHeals
<1>1. /\ phase' = "creatures" /\ pending' = Living
      /\ noisyRooms' = duels \cup {combatants[i].roomId : i \in inCombat}
      /\ UNCHANGED <<creatures, nextCreatureId, zoneCreatureRecords, playersInRoom,
                     combatants, inCombat>>
  BY DEF StartTick
<1>2. Living' = Living /\ Registered' = Registered
  BY <1>1 DEF Living, Registered
<1>3. \A i \in inCombat : combatants[i].roomId \in Place
  BY Known, CombatantFields DEF Registered
<1>4. Phases'
  BY <1>1, <1>2, <1>3 DEF Phases
<1>5. NobodyHeals
  BY <1>1, <1>2, NotHealed
<1>6. QED
  BY <1>1, <1>2, <1>4, <1>5 DEF CreaturesInv, Ids, Weaker, InFight, Together, PopulationHolds

LEMMA CreatureActsStep ==
    ASSUME CreaturesInv, NEW i \in Id, CreatureActs(i)
    PROVE  CreaturesInv' /\ NobodyHeals
<1>1. /\ phase = "creatures" /\ i \in pending /\ pending' = pending \ {i}
      /\ UNCHANGED <<nextCreatureId, zoneCreatureRecords, playersInRoom, phase, noisyRooms>>
  BY DEF CreatureActs, IsNext
<1>2. i \in Living /\ i \in DOMAIN creatures /\ creatures[i] \in Creature
  BY <1>1, Known DEF CreaturesInv, Phases
<1>3. PICK c \in Behaviours(creatures[i], noisyRooms) :
         /\ creatures' = [creatures EXCEPT ![i] = c]
         /\ IF c.behaviorState = "hostile" /\ Sees(c)
            THEN /\ combatants' = IF i \in Registered THEN combatants
                                  ELSE Put(combatants, i, ToCombatant(c))
                 /\ inCombat' = Joined(i, c.currentRoomId, combatants')
            ELSE UNCHANGED <<combatants, inCombat>>
  BY DEF CreatureActs
<1>4. /\ c \in Creature /\ c.hp = creatures[i].hp /\ c.isAlive = creatures[i].isAlive
      /\ c.sandbox = creatures[i].sandbox
  BY <1>2, BehaviourType DEF SameBody
<1>5. ToCombatant(c) \in Combatant /\ ToCombatant(c).hp = c.hp
  BY <1>4, CreatureFields DEF ToCombatant, Combatant
<1>6. /\ DOMAIN creatures' = DOMAIN creatures /\ creatures'[i] = c
      /\ \A j \in DOMAIN creatures \ {i} : creatures'[j] = creatures[j]
      /\ IsMap(creatures, Id, Creature)'
  BY <1>2, <1>3, <1>4 DEF CreaturesInv, IsMap
<1>7. /\ Living' = Living
      /\ \A j \in Living : /\ creatures'[j].hp = creatures[j].hp
                           /\ creatures'[j].sandbox = creatures[j].sandbox
  BY <1>2, <1>4, <1>6 DEF Living
<1>8. /\ Registered \subseteq Registered' /\ Registered' \subseteq Registered \cup {i}
      /\ \A j \in Registered : combatants'[j] = combatants[j]
      /\ i \notin Registered /\ i \in Registered' => combatants'[i].hp = c.hp
      /\ IsMap(combatants, Id, Combatant)'
      /\ inCombat \subseteq inCombat' /\ inCombat' \subseteq inCombat \cup {i}
      /\ i \in inCombat' => i \in Registered'
  <2>1. CASE c.behaviorState = "hostile" /\ Sees(c)
    <3>1. inCombat \subseteq inCombat' /\ inCombat' \subseteq inCombat \cup {i}
      BY <1>3, <2>1 DEF Joined
    <3>2. CASE i \in Registered
      BY <1>3, <2>1, <3>1, <3>2 DEF Registered, CreaturesInv
    <3>3. CASE i \notin Registered
      <4>1. combatants' = Put(combatants, i, ToCombatant(c))
        BY <1>3, <2>1, <3>3
      <4>2. IsMap(combatants, Id, Combatant)'
        BY <1>5, <4>1 DEF CreaturesInv, IsMap, Put
      <4>3. QED
        BY <1>5, <3>1, <3>3, <4>1, <4>2 DEF Registered, Put
    <3>4. QED
      BY <3>2, <3>3
  <2>2. CASE ~(c.behaviorState = "hostile" /\ Sees(c))
    BY <1>3, <2>2, Known DEF Registered, CreaturesInv
  <2>3. QED
    BY <2>1, <2>2
<1>9. Ids'
  <2>1. DOMAIN creatures' \cup Registered' = DOMAIN creatures \cup Registered
    BY <1>2, <1>6, <1>8
  <2>2. QED
    BY <1>1, <2>1 DEF CreaturesInv, Ids
<1>10. Phases'
  BY <1>1, <1>7 DEF CreaturesInv, Phases
<1>11. ASSUME NEW j \in Id
       PROVE  Weaker(j)' /\ InFight(j)' /\ Together(j)'
  <2>1. Weaker(j)'
    <3>1. c.hp \in Nat
      BY <1>4, CreatureFields
    <3>2. CASE j \in Registered
      BY <1>7, <1>8, <3>2 DEF CreaturesInv, Weaker
    <3>3. CASE j \notin Registered
      <4>1. j \in Living' => j \in Living /\ creatures'[j].hp = creatures[j].hp
        BY <1>7
      <4>2. j \in Living => creatures[j].hp > 0
        BY DEF CreaturesInv, Weaker
      <4>3. j \in Registered' => combatants'[j].hp = creatures'[j].hp /\ creatures'[j].hp \in Nat
        BY <1>6, <1>8, <3>1, <3>3
      <4>4. j \in Registered' => creatures'[j].hp <= combatants'[j].hp
        BY <4>3
      <4>5. QED
        BY <4>1, <4>2, <4>4 DEF Weaker
    <3>4. QED
      BY <3>2, <3>3
  <2>2. InFight(j)'
    <3>1. CASE j = i
      BY <1>2, <1>7, <1>8, <3>1 DEF InFight
    <3>2. CASE j # i
      BY <1>7, <1>8, <3>2 DEF CreaturesInv, InFight
    <3>3. QED
      BY <3>1, <3>2
  <2>3. Together(j)'
    BY <1>1 DEF Together
  <2>4. QED
    BY <2>1, <2>2, <2>3
<1>12. PopulationHolds'
  BY <1>1, <1>7 DEF CreaturesInv, PopulationHolds
<1>13. inCombat' \subseteq Id /\ playersInRoom' \subseteq Place
  BY <1>1, <1>8 DEF CreaturesInv
<1>14. NobodyHeals
  <2>1. \A j \in Living \cap Living' \cap Registered' :
           combatants'[j].hp = IF j \in Registered THEN combatants[j].hp ELSE creatures[j].hp
    BY <1>4, <1>8
  <2>2. QED
    BY <1>7, <2>1, NotHealed
<1>15. QED
  BY <1>6, <1>8, <1>9, <1>10, <1>11, <1>12, <1>13, <1>14 DEF CreaturesInv

LEMMA StartFightsStep ==
    ASSUME CreaturesInv, StartFights
    PROVE  CreaturesInv' /\ NobodyHeals
<1>1. /\ pending = {} /\ noisyRooms' = {}
      /\ \/ phase' = "rest" /\ pending' = {} /\ inCombat = {}
         \/ phase' = "fights" /\ pending' = Registered
      /\ UNCHANGED <<creatures, nextCreatureId, zoneCreatureRecords, playersInRoom,
                     combatants, inCombat>>
  BY DEF StartFights
<1>2. Living' = Living /\ Registered' = Registered
  BY <1>1 DEF Living, Registered
<1>3. Phases'
  BY <1>1, <1>2 DEF Phases
<1>4. \A i \in Id : Together(i)'
  BY <1>1, <1>2, Known DEF Together
<1>5. NobodyHeals
  BY <1>1, <1>2, NotHealed
<1>6. QED
  BY <1>1, <1>2, <1>3, <1>4, <1>5 DEF CreaturesInv, Ids, Weaker, InFight, PopulationHolds

LEMMA EndTickStep ==
    ASSUME CreaturesInv, EndTick
    PROVE  CreaturesInv' /\ NobodyHeals
<1>1. /\ phase = "fights" /\ pending = {} /\ phase' = "rest"
      /\ UNCHANGED <<creatures, nextCreatureId, zoneCreatureRecords, playersInRoom,
                     combatants, inCombat, noisyRooms, pending>>
  BY DEF EndTick
<1>2. Living' = Living /\ Registered' = Registered
  BY <1>1 DEF Living, Registered
<1>3. Phases'
  BY <1>1 DEF CreaturesInv, Phases
<1>4. \A i \in Id : Together(i)'
  BY <1>1, <1>2 DEF CreaturesInv, Together
<1>5. NobodyHeals
  BY <1>1, <1>2, NotHealed
<1>6. QED
  BY <1>1, <1>2, <1>3, <1>4, <1>5 DEF CreaturesInv, Ids, Weaker, InFight, PopulationHolds

LEMMA ChangedType ==
    ASSUME NEW K, NEW V, NEW m, IsMap(m, K, V), NEW i \in K, NEW v, v # None => v \in V
    PROVE  IsMap(Changed(m, i, v), K, V)
<1>1. CASE v = None
  BY <1>1 DEF Changed, IsMap, Without
<1>2. CASE v # None
  BY <1>2 DEF Changed, IsMap, Put
<1>3. QED
  BY <1>1, <1>2

\* Of the one whose turn it is in the fights: what it was, and what comes of it.
LEMMA FightFacts ==
    ASSUME CreaturesInv, NEW i \in Id, CreatureFights(i)
    PROVE  /\ phase = "fights" /\ i \in pending /\ pending' = pending \ {i}
           /\ UNCHANGED <<nextCreatureId, zoneCreatureRecords, playersInRoom, phase, noisyRooms>>
           /\ i \in Registered /\ combatants[i] \in Combatant
           /\ \E f : /\ FateOK(f, OrNone(creatures, i), combatants[i], i \in inCombat)
                     /\ creatures' = Changed(creatures, i, f.creature)
                     /\ combatants' = Changed(combatants, i, f.combatant)
                     /\ inCombat' = IF f.fights THEN inCombat ELSE inCombat \ {i}
<1>1. /\ phase = "fights" /\ i \in pending /\ pending' = pending \ {i}
      /\ UNCHANGED <<nextCreatureId, zoneCreatureRecords, playersInRoom, phase, noisyRooms>>
  BY DEF CreatureFights, IsNext
<1>2. i \in Registered
  BY <1>1 DEF CreaturesInv, Phases
<1>3. combatants[i] \in Combatant
  BY <1>2, Known DEF Registered
<1>4. OrNone(creatures, i) \in Creature \cup {None}
  BY Known DEF OrNone
<1>5. i \in inCombat /\ combatants[i].hp > 0 =>
         OrNone(creatures, i) # None /\ OrNone(creatures, i).isAlive
  <2>1. i \in inCombat /\ combatants[i].hp > 0 => i \in Living
    BY DEF CreaturesInv, InFight
  <2>2. i \in Living => /\ i \in DOMAIN creatures /\ creatures[i].isAlive
                        /\ creatures[i] \in Creature
    BY Known DEF Living
  <2>3. i \in DOMAIN creatures => OrNone(creatures, i) = creatures[i]
    BY DEF OrNone
  <2>4. QED
    BY <2>1, <2>2, <2>3, NoneIsNoRecord
<1>6. PICK f \in Fates(OrNone(creatures, i), combatants[i], i \in inCombat) :
         /\ creatures' = Changed(creatures, i, f.creature)
         /\ combatants' = Changed(combatants, i, f.combatant)
         /\ inCombat' = IF f.fights THEN inCombat ELSE inCombat \ {i}
  BY DEF CreatureFights
<1>7. (i \in inCombat) \in BOOLEAN
  OBVIOUS
<1>8. FateOK(f, OrNone(creatures, i), combatants[i], i \in inCombat)
  BY <1>3, <1>4, <1>5, <1>7, FateFacts
<1>9. QED
  BY <1>1, <1>2, <1>3, <1>6, <1>8

LEMMA CreatureFightsStep ==
    ASSUME CreaturesInv, NEW i \in Id, CreatureFights(i)
    PROVE  CreaturesInv' /\ NobodyHeals
<1> DEFINE c == OrNone(creatures, i)
           k == combatants[i]
<1>1. /\ phase = "fights" /\ i \in pending /\ pending' = pending \ {i}
      /\ UNCHANGED <<nextCreatureId, zoneCreatureRecords, playersInRoom, phase, noisyRooms>>
      /\ i \in Registered /\ k \in Combatant
  BY FightFacts
<1>2. PICK f : /\ FateOK(f, c, k, i \in inCombat)
               /\ creatures' = Changed(creatures, i, f.creature)
               /\ combatants' = Changed(combatants, i, f.combatant)
               /\ inCombat' = IF f.fights THEN inCombat ELSE inCombat \ {i}
  BY FightFacts
<1>3. /\ i \in DOMAIN creatures => c = creatures[i] /\ c \in Creature /\ c # None
      /\ i \notin DOMAIN creatures => c = None
  BY Known, NoneIsNoRecord DEF OrNone
<1> HIDE DEF c, k
<1>4. f.creature = None <=> i \notin DOMAIN creatures
  BY <1>2, <1>3 DEF FateOK
<1>5. /\ DOMAIN creatures' = DOMAIN creatures
      /\ i \in DOMAIN creatures => creatures'[i] = f.creature
      /\ \A j \in DOMAIN creatures \ {i} : creatures'[j] = creatures[j]
  <2> DEFINE d == f.creature
  <2>0. creatures' = Changed(creatures, i, d)
    BY <1>2
  <2> HIDE DEF d
  <2>1. /\ d = None => DOMAIN creatures' = DOMAIN creatures \ {i}
        /\ d # None => DOMAIN creatures' = DOMAIN creatures \cup {i} /\ creatures'[i] = d
        /\ \A j \in DOMAIN creatures \ {i} : creatures'[j] = creatures[j]
    <3>1. CASE d = None
      <4>1. creatures' = Without(creatures, {i})
        BY <2>0, <3>1 DEF Changed
      <4>2. QED
        BY <3>1, <4>1 DEF Without
    <3>2. CASE d # None
      <4>1. creatures' = Put(creatures, i, d)
        BY <2>0, <3>2 DEF Changed
      <4>2. QED
        BY <3>2, <4>1 DEF Put
    <3>3. QED
      BY <3>1, <3>2
  <2> USE DEF d
  <2>2. QED
    BY <1>4, <2>1
<1>6. /\ Registered' = IF f.combatant = None THEN Registered \ {i} ELSE Registered
      /\ f.combatant # None => combatants'[i] = f.combatant
      /\ \A j \in Registered \ {i} : combatants'[j] = combatants[j]
  <2> DEFINE d == f.combatant
  <2>0. combatants' = Changed(combatants, i, d)
    BY <1>2
  <2> HIDE DEF d
  <2>1. /\ d = None => DOMAIN combatants' = DOMAIN combatants \ {i}
        /\ d # None => DOMAIN combatants' = DOMAIN combatants \cup {i} /\ combatants'[i] = d
        /\ \A j \in DOMAIN combatants \ {i} : combatants'[j] = combatants[j]
    <3>1. CASE d = None
      <4>1. combatants' = Without(combatants, {i})
        BY <2>0, <3>1 DEF Changed
      <4>2. QED
        BY <3>1, <4>1 DEF Without
    <3>2. CASE d # None
      <4>1. combatants' = Put(combatants, i, d)
        BY <2>0, <3>2 DEF Changed
      <4>2. QED
        BY <3>2, <4>1 DEF Put
    <3>3. QED
      BY <3>1, <3>2
  <2> USE DEF d
  <2>2. QED
    BY <1>1, <2>1 DEF Registered
<1>7. IsMap(creatures, Id, Creature)'
  <2>1. f.creature # None => f.creature \in Creature
    BY <1>2 DEF FateOK
  <2>2. QED
    BY <1>2, <2>1, ChangedType DEF CreaturesInv
<1>8. IsMap(combatants, Id, Combatant)'
  <2>1. f.combatant # None => f.combatant \in Combatant
    BY <1>2 DEF FateOK
  <2>2. QED
    BY <1>2, <2>1, ChangedType DEF CreaturesInv
<1>9. i \in Living' => /\ i \in Living /\ i \in DOMAIN creatures /\ creatures'[i] = f.creature
                       /\ f.creature.isAlive /\ c = creatures[i] /\ f.creature.sandbox = c.sandbox
  BY <1>2, <1>3, <1>5 DEF Living, FateOK
<1>10. \A j \in Id : j # i => (j \in Living' <=> j \in Living)
  BY <1>5 DEF Living
<1>11. \A j \in Living : j \in DOMAIN creatures
  BY DEF Living
<1>12. Ids'
  BY <1>1, <1>5, <1>6 DEF CreaturesInv, Ids
<1>13. Phases'
  <2>1. pending' \subseteq Registered'
    BY <1>1, <1>6 DEF CreaturesInv, Phases
  <2>2. QED
    BY <1>1, <2>1 DEF CreaturesInv, Phases
<1>14. ASSUME i \in Living'
       PROVE  /\ creatures'[i].hp > 0
              /\ i \notin Registered' => creatures'[i].hp <= k.hp
              /\ i \in Registered' => /\ combatants'[i] = f.combatant
                                      /\ creatures'[i].hp = f.combatant.hp
                                      /\ creatures'[i].currentRoomId = f.combatant.roomId
                                      /\ f.combatant.hp <= k.hp
  <2>1. c # None /\ f.creature.isAlive
    BY <1>3, <1>9, <1>14
  <2>2. CASE f.combatant = None
    <3>1. f.creature = c /\ c = creatures[i]
      BY <1>2, <1>9, <1>14, <2>1, <2>2 DEF FateOK
    <3>2. creatures[i].hp > 0 /\ creatures[i].hp <= combatants[i].hp
      BY <1>1, <1>9, <1>14 DEF CreaturesInv, Weaker
    <3>3. QED
      BY <1>6, <1>9, <1>14, <2>2, <3>1, <3>2 DEF k
  <2>3. CASE f.combatant # None
    <3>1. /\ f.creature.hp = f.combatant.hp /\ f.creature.hp > 0
          /\ f.creature.currentRoomId = f.combatant.roomId /\ f.combatant.hp <= k.hp
      BY <1>2, <2>1, <2>3 DEF FateOK
    <3>2. QED
      BY <1>1, <1>6, <1>9, <1>14, <2>3, <3>1
  <2>4. QED
    BY <2>2, <2>3
<1>15. i \in inCombat' => /\ i \in Registered'
                          /\ combatants'[i].hp > 0 => i \in Living'
  <2>1. SUFFICES ASSUME i \in inCombat'
                 PROVE  i \in Registered' /\ (combatants'[i].hp > 0 => i \in Living')
    OBVIOUS
  <2>2. f.fights
    BY <1>2, <2>1
  <2>3. f.combatant # None /\ (f.combatant.hp > 0 => f.creature # None /\ f.creature.isAlive)
    BY <1>2, <2>2 DEF FateOK
  <2>4. combatants'[i] = f.combatant /\ i \in Registered'
    BY <1>1, <1>6, <2>3
  <2>5. f.creature # None /\ f.creature.isAlive => i \in Living'
    BY <1>4, <1>5 DEF Living
  <2>6. QED
    BY <2>3, <2>4, <2>5
<1>16. inCombat' \subseteq inCombat /\ \A j : j # i => (j \in inCombat' <=> j \in inCombat)
  BY <1>2
<1>17. ASSUME NEW j \in Id, j # i
       PROVE  Weaker(j)' /\ InFight(j)' /\ Together(j)'
  <2>1. /\ j \in Living' <=> j \in Living
        /\ j \in Registered' <=> j \in Registered
        /\ j \in inCombat' <=> j \in inCombat
        /\ j \in Living => creatures'[j] = creatures[j]
        /\ j \in Registered => combatants'[j] = combatants[j]
    BY <1>5, <1>6, <1>10, <1>11, <1>16, <1>17
  <2>2. Weaker(j)'
    BY <2>1 DEF CreaturesInv, Weaker
  <2>3. InFight(j)'
    BY <2>1 DEF CreaturesInv, InFight
  <2>4. Together(j)'
    <3>1. CASE j \in pending
      BY <1>1, <1>17, <3>1 DEF Together
    <3>2. CASE j \in inCombat' \cap Living' /\ j \notin pending
      <4>1. j \in inCombat \cap Living /\ j \in Registered
        BY <2>1, <3>2, Known
      <4>2. creatures[j].currentRoomId = combatants[j].roomId
        BY <1>1, <3>2, <4>1 DEF CreaturesInv, Together
      <4>3. QED
        BY <2>1, <4>1, <4>2 DEF Together
    <3>3. CASE j \notin inCombat' \cap Living'
      BY <3>3 DEF Together
    <3>4. QED
      BY <3>1, <3>2, <3>3
  <2>5. QED
    BY <2>2, <2>3, <2>4
<1>18. Weaker(i)' /\ InFight(i)' /\ Together(i)'
  <2>1. Weaker(i)'
    <3>1. i \in Living' => creatures'[i].hp \in Nat
      BY <1>7, <1>11, CreatureFields DEF Living, IsMap
    <3>2. QED
      BY <1>14, <3>1 DEF Weaker
  <2>2. InFight(i)'
    BY <1>15 DEF InFight
  <2>3. Together(i)'
    BY <1>14, <1>15 DEF Together
  <2>4. QED
    BY <2>1, <2>2, <2>3
<1>19. PopulationHolds'
  <2>1. \A j \in Living' : j \in Living /\ creatures'[j].sandbox = creatures[j].sandbox
    <3>1. Living' \subseteq Id
      BY <1>5, Known DEF Living
    <3>2. ASSUME NEW j \in Living', j # i
          PROVE  j \in Living /\ creatures'[j] = creatures[j]
      BY <1>5, <1>10, <1>11, <3>1, <3>2
    <3>3. QED
      BY <1>9, <3>2
  <2>2. QED
    BY <1>1, <2>1 DEF CreaturesInv, PopulationHolds
<1>20. CreaturesInv'
  <2>1. \A j \in Id : Weaker(j)' /\ InFight(j)' /\ Together(j)'
    BY <1>17, <1>18
  <2>2. inCombat' \subseteq Id /\ playersInRoom' \subseteq Place
    BY <1>1, <1>16 DEF CreaturesInv
  <2>3. QED
    BY <1>7, <1>8, <1>12, <1>13, <1>19, <2>1, <2>2 DEF CreaturesInv
<1>21. ASSUME NEW j \in Living \cap Living'
       PROVE  Vigour(j)' <= Vigour(j)
  <2>1. CASE j = i
    <3>1. Vigour(j) = k.hp
      BY <1>1, <2>1 DEF Vigour, k
    <3>2. i \in Registered' => Vigour(j)' = combatants'[i].hp
      BY <2>1 DEF Vigour
    <3>3. i \notin Registered' => Vigour(j)' = creatures'[i].hp
      BY <2>1 DEF Vigour
    <3>4. QED
      BY <1>14, <1>21, <2>1, <3>1, <3>2, <3>3
  <2>2. CASE j # i
    <3>1. j \in Registered' <=> j \in Registered
      BY <1>6, <2>2
    <3>2. creatures'[j] = creatures[j] /\ (j \in Registered => combatants'[j] = combatants[j])
      BY <1>5, <1>6, <1>11, <2>2
    <3>3. Vigour(j)' = Vigour(j)
      BY <3>1, <3>2 DEF Vigour
    <3>4. Vigour(j) \in Nat
      BY <1>11, Known, CreatureFields, CombatantFields DEF Vigour, Registered
    <3>5. QED
      BY <3>3, <3>4
  <2>3. QED
    BY <2>1, <2>2
<1>22. QED
  BY <1>20, <1>21 DEF NobodyHeals

-----------------------------------------------------------------------------
(* The specification *)

LEMMA InitInv ==
    ASSUME Init
    PROVE  CreaturesInv
<1>1. /\ creatures = [i \in 0..(Cardinality(Spawn) - 1) |-> ZoneCreature(i + 1)]
      /\ nextCreatureId = Cardinality(Spawn)
      /\ zoneCreatureRecords = [s \in Spawn |-> s - 1]
      /\ playersInRoom = {} /\ combatants = EmptyMap /\ inCombat = {}
      /\ phase = "rest" /\ pending = {} /\ noisyRooms = {}
  BY DEF Init
<1>2. /\ Cardinality(Spawn) \in Nat /\ Spawn = 1..Cardinality(Spawn)
      /\ Cardinality(Spawn) <= MaxCreatures /\ MaxCreatures \in Nat
  BY VacantFinite, CreaturesAssumptions
<1>3. \A i \in 0..(Cardinality(Spawn) - 1) :
         /\ i \in Id /\ i \in Nat /\ i < Cardinality(Spawn) /\ i + 1 \in Spawn
         /\ creatures[i] = ZoneCreature(i + 1)
  BY <1>1, <1>2 DEF Id
<1>4. ASSUME NEW s \in Spawn
      PROVE  ZoneCreature(s) \in Creature /\ ZoneCreature(s).hp = MAX_HP /\ MAX_HP > 0
  <2>1. Home[s] \in Place /\ (s \in Aggressive) \in BOOLEAN /\ FALSE \in BOOLEAN
    BY CreaturesAssumptions, Places
  <2>2. ZoneCreature(s) \in Creature
    BY <2>1, NewCreatureType DEF ZoneCreature
  <2>3. QED
    BY <2>2, CreaturesAssumptions DEF ZoneCreature, NewCreature
<1>5. DOMAIN creatures = 0..(Cardinality(Spawn) - 1)
  BY <1>1
<1>6. IsMap(creatures, Id, Creature)
  BY <1>1, <1>3, <1>4, <1>5 DEF IsMap
<1>7. IsMap(combatants, Id, Combatant) /\ Registered = {}
  BY <1>1 DEF Registered, IsMap, EmptyMap
<1>8. \A s \in Spawn : /\ zoneCreatureRecords[s] = s - 1 /\ s - 1 \in Id
                       /\ s - 1 < Cardinality(Spawn) /\ s \in Nat
  BY <1>1, <1>2 DEF Id
<1>9. Ids
  <2>1. zoneCreatureRecords \in [Spawn -> Id]
    BY <1>1, <1>8
  <2>2. \A i \in DOMAIN creatures \cup Registered : i < nextCreatureId
    BY <1>1, <1>3, <1>5, <1>7
  <2>3. QED
    BY <1>1, <1>2, <1>8, <2>1, <2>2 DEF Ids
<1>10. Phases
  BY <1>1 DEF Phases
<1>11. \A i \in Id : Weaker(i) /\ InFight(i) /\ Together(i)
  <2>1. \A i \in Living : i \in DOMAIN creatures
    BY DEF Living
  <2>2. \A i \in Living : creatures[i].hp > 0
    BY <1>3, <1>4, <1>5, <2>1
  <2>3. QED
    BY <1>1, <1>7, <2>2 DEF Weaker, InFight, Together
<1>12. PopulationHolds
  <2>1. ASSUME NEW i \in Living
        PROVE  \E s \in Spawn : zoneCreatureRecords[s] = i
    <3>1. i \in Nat /\ i + 1 \in Spawn
      BY <1>3, <1>5 DEF Living
    <3>2. zoneCreatureRecords[i + 1] = (i + 1) - 1
      BY <1>8, <3>1
    <3>3. QED
      BY <3>1, <3>2
  <2>2. ASSUME NEW s \in Spawn, NEW t \in Spawn, zoneCreatureRecords[s] = zoneCreatureRecords[t]
        PROVE  s = t
    BY <1>8, <2>2
  <2>3. QED
    BY <2>1, <2>2 DEF PopulationHolds
<1>13. QED
  BY <1>1, <1>6, <1>7, <1>9, <1>10, <1>11, <1>12 DEF CreaturesInv

\* What a step does to the invariant, and who it heals.
LEMMA NextStep ==
    ASSUME CreaturesInv, [Next]_vars
    PROVE  /\ CreaturesInv'
           /\ NobodyHeals \/ \E i \in Id : Attack(i) /\ \A j \in Living \ {i} : Vigour(j)' = Vigour(j)
<1>1. CASE UNCHANGED vars
  <2>1. /\ UNCHANGED <<creatures, nextCreatureId, zoneCreatureRecords, playersInRoom, combatants>>
        /\ UNCHANGED <<inCombat, phase, pending, noisyRooms>>
    BY <1>1 DEF vars
  <2>2. Living' = Living /\ Registered' = Registered
    BY <2>1 DEF Living, Registered
  <2>3. NobodyHeals
    BY <2>1, <2>2, NotHealed
  <2>4. QED
    BY <2>1, <2>2, <2>3
       DEF CreaturesInv, Ids, Phases, Weaker, InFight, Together, PopulationHolds
<1>2. CASE Tick
  <2>1. ASSUME NEW duels \in {{}} \cup {{r} : r \in Place}, StartTick(duels)
        PROVE  CreaturesInv' /\ NobodyHeals
    BY <2>1, StartTickStep
  <2>2. ASSUME NEW i \in Id, CreatureActs(i)
        PROVE  CreaturesInv' /\ NobodyHeals
    BY <2>2, CreatureActsStep
  <2>3. CASE StartFights
    BY <2>3, StartFightsStep
  <2>4. ASSUME NEW i \in Id, CreatureFights(i)
        PROVE  CreaturesInv' /\ NobodyHeals
    BY <2>4, CreatureFightsStep
  <2>5. CASE EndTick
    BY <2>5, EndTickStep
  <2>6. QED
    BY <1>2, <2>1, <2>2, <2>3, <2>4, <2>5 DEF Tick
<1>3. ASSUME NEW i \in Id, Attack(i)
      PROVE  CreaturesInv' /\ \A j \in Living \ {i} : Vigour(j)' = Vigour(j)
  BY <1>3, AttackStep
<1>4. ASSUME NEW i \in Id, EndFight(i)
      PROVE  CreaturesInv' /\ NobodyHeals
  BY <1>4, EndFightStep
<1>5. CASE RespawnZoneCreatures
  BY <1>5, RespawnStep
<1>6. ASSUME NEW r \in Arena, NEW aggressive \in ArenaTemplates, NEW registered \in BOOLEAN,
             SpawnCreatureInRoom(r, aggressive, registered)
      PROVE  CreaturesInv' /\ NobodyHeals
  <2>1. r \in Place /\ aggressive \in BOOLEAN
    BY CreaturesAssumptions, Places
  <2>2. QED
    BY <1>6, <2>1, SpawnStep
<1>7. ASSUME NEW r \in Arena, ClearCreaturesInRoom(r)
      PROVE  CreaturesInv' /\ NobodyHeals
  <2>1. r \in Place
    BY CreaturesAssumptions, Places
  <2>2. QED
    BY <1>7, <2>1, ClearStep
<1>8. CASE PlayersMove
  BY <1>8, PlayersMoveStep
<1>9. QED
  BY <1>1, <1>2, <1>3, <1>4, <1>5, <1>6, <1>7, <1>8 DEF Next

\* The invariant holds in every state of every behaviour.
THEOREM CreaturesInvariant == Spec => []CreaturesInv
<1>1. Init => CreaturesInv
  BY InitInv
<1>2. CreaturesInv /\ [Next]_vars => CreaturesInv'
  BY NextStep
<1>3. QED
  BY <1>1, <1>2, PTL DEF Spec

\* The maps of the creature manager and the records of the combat system hold
\* what their types say, and nobody lives without hit points.
THEOREM CreaturesTyped == Spec => []TypeOK
<1>1. CreaturesInv => TypeOK
  BY InvImplies
<1>2. QED
  BY <1>1, CreaturesInvariant, PTL

\* After a tick, a creature that fights is in the room the combat system has
\* it in, wherever its behaviour wanted to take it.
THEOREM FightersStayTogether == Spec => []FightersAreTogether
<1>1. CreaturesInv => FightersAreTogether
  BY InvImplies
<1>2. QED
  BY <1>1, CreaturesInvariant, PTL

\* However the creatures of a zone are killed, cleared away and replaced, each
\* definition counts at most one living creature as its own.
THEOREM PopulationIsKept == Spec => []PopulationHolds
<1>1. CreaturesInv => PopulationHolds
  BY InvImplies
<1>2. QED
  BY <1>1, CreaturesInvariant, PTL

\* A living creature gains hit points by a player's attack on it and by nothing
\* else, whichever of its two records the next blow would find.
THEOREM NothingElseHeals == Spec => OnlyAttackHeals
<1>1. CreaturesInv /\ [Next]_vars =>
         [\A i \in Living \cap Living' : Vigour(i)' > Vigour(i) => Attack(i)]_vars
  <2>1. SUFFICES ASSUME CreaturesInv, [Next]_vars, NEW i \in Living \cap Living',
                        Vigour(i)' > Vigour(i)
                 PROVE  Attack(i)
    OBVIOUS
  <2>2. CreaturesInv'
    BY <2>1, NextStep
  <2>3. Vigour(i) \in Nat
    BY <2>1, VigourType
  <2>4. Vigour(i)' \in Nat
    <3>1. (CreaturesInv => \A j \in Living : Vigour(j) \in Nat)'
      BY VigourType, PTL
    <3>2. QED
      BY <2>1, <2>2, <3>1
  <2>5. ~NobodyHeals
    BY <2>1, <2>3, <2>4 DEF NobodyHeals
  <2>6. PICK j \in Id : Attack(j) /\ \A l \in Living \ {j} : Vigour(l)' = Vigour(l)
    BY <2>1, <2>5, NextStep
  <2>7. i = j
    BY <2>1, <2>3, <2>6
  <2>8. QED
    BY <2>6, <2>7
<1>2. QED
  BY <1>1, CreaturesInvariant, PTL DEF Spec, OnlyAttackHeals
=============================================================================
