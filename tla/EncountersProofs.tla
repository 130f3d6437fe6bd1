-------------------------- MODULE EncountersProofs --------------------------
(***************************************************************************)
(* For any players, creatures, rooms and bounds: the properties of         *)
(* Encounters that MCEncounters checks.                                    *)
(*                                                                         *)
(* CombatInv is inductive.  It adds to the properties that an encounter    *)
(* which is not about to be cleaned up is sound - short of the time-out    *)
(* and with two members - and that whoever the running tick reports as     *)
(* defeated or fled is in no fight any more, so that nothing can happen to *)
(* it twice.                                                               *)
(***************************************************************************)
EXTENDS Encounters, TLAPS

Fights ==
    /\ IsMap(encounters, EncounterId, CombatEncounter)
    /\ IsMap(combatantEncounter, Id, EncounterId)
    /\ nextEncounterId \in 1..(MaxEncounterId + 1)
    /\ \A e \in DOMAIN encounters : e < nextEncounterId
    /\ OneFightEach

Sound(e) ==
    /\ encounters[e].quiet # COMBAT_TIMEOUT_TICKS
    /\ \E c, d \in encounters[e].members : c # d

Ticks ==
    /\ calls \in 0..MaxCalls
    /\ ticking \in BOOLEAN
    /\ pending \subseteq DOMAIN encounters
    /\ endedEncounterIds \subseteq DOMAIN encounters
    /\ events \in Events
    /\ ~ticking => pending = {} /\ endedEncounterIds = {} /\ events = NoEvents

Reported ==
    /\ events.defeated \cap events.fled = {}
    /\ (events.defeated \cup events.fled) \cap DOMAIN combatantEncounter = {}

CombatInv ==
    /\ IsMap(combatants, Id, Combatant)
    /\ IsMap(queuedActions, Id, QueuedAction)
    /\ Fights
    /\ Ticks
    /\ FightersAreRegistered
    /\ ActionsHaveFights
    /\ \A e \in DOMAIN encounters : e \in endedEncounterIds \ pending \/ Sound(e)
    /\ Reported

\* The properties follow.
LEMMA InvImplies ==
    ASSUME CombatInv
    PROVE  /\ CombatTypeOK /\ OneFightEach /\ FightersAreRegistered
           /\ ActionsHaveFights /\ NobodyFightsAlone /\ NobodyFallsAndFlees
<1>1. CombatTypeOK
  BY DEF CombatInv, Fights, Ticks, CombatTypeOK
<1>2. NobodyFightsAlone
  BY DEF CombatInv, Ticks, Sound, NobodyFightsAlone
<1>3. QED
  BY <1>1, <1>2 DEF CombatInv, Fights, Reported, NobodyFallsAndFlees

-----------------------------------------------------------------------------
(* Types *)

LEMMA EncounterFields ==
    ASSUME CombatInv, NEW e \in DOMAIN encounters
    PROVE  /\ e \in EncounterId
           /\ encounters[e] \in CombatEncounter
           /\ encounters[e].members \in SUBSET Id
           /\ encounters[e].quiet \in 0..COMBAT_TIMEOUT_TICKS
<1>1. e \in EncounterId /\ encounters[e] \in CombatEncounter
  BY DEF CombatInv, Fights, IsMap
<1>2. QED
  BY <1>1 DEF CombatEncounter

\* Members of a fight are registered, and know of it.
LEMMA Members ==
    ASSUME CombatInv, NEW e \in DOMAIN encounters, NEW c \in encounters[e].members
    PROVE  /\ c \in DOMAIN combatants /\ c \in DOMAIN combatantEncounter
           /\ combatantEncounter[c] = e
BY DEF CombatInv, Fights, OneFightEach, FightersAreRegistered

LEMMA StrikeType ==
    ASSUME NEW t \in Id \cup {Nobody}
    PROVE  Strike(t) \in QueuedAction
BY DEF Strike, QueuedAction

LEMMA NewCombatantType ==
    ASSUME NEW r \in Room
    PROVE  NewCombatant(r) \in Combatant
<1>1. NoWindUp \in WindUp
  BY CombatAssumptions DEF NoWindUp, WindUp
<1>2. QED
  BY <1>1 DEF NewCombatant, Combatant

LEMMA WithRegisteredType ==
    ASSUME CombatInv, NEW who \in SUBSET Id, NEW r \in Room
    PROVE  /\ IsMap(WithRegistered(who, r), Id, Combatant)
           /\ DOMAIN WithRegistered(who, r) = DOMAIN combatants \cup who
<1> DEFINE m == WithRegistered(who, r)
<1>1. DOMAIN m = DOMAIN combatants \cup who
  BY DEF WithRegistered
<1>2. DOMAIN combatants \subseteq Id
  BY DEF CombatInv, IsMap
<1>3. ASSUME NEW c \in DOMAIN m PROVE m[c] \in Combatant
  <2>1. CASE c \in DOMAIN combatants
    BY <2>1, <1>3 DEF CombatInv, WithRegistered, Registered, IsMap
  <2>2. CASE c \notin DOMAIN combatants
    BY <2>2, <1>3, NewCombatantType DEF WithRegistered, Registered
  <2>3. QED
    BY <2>1, <2>2
<1>4. m = [c \in DOMAIN m |-> m[c]]
  BY DEF WithRegistered
<1>5. QED
  BY <1>1, <1>2, <1>3, <1>4 DEF IsMap

\* A change of target or room keeps the record of a combatant.
LEMMA RecordTypes ==
    ASSUME NEW rec \in Combatant
    PROVE  /\ \A t \in Id \cup {Nobody} : [rec EXCEPT !.target = t] \in Combatant
           /\ \A r \in Room : [rec EXCEPT !.room = r] \in Combatant
           /\ \A w \in WindUp : [rec EXCEPT !.windUp = w] \in Combatant
BY DEF Combatant

LEMMA UpdateType ==
    ASSUME NEW K, NEW V, NEW m, IsMap(m, K, V), NEW k, NEW v \in V
    PROVE  /\ IsMap([m EXCEPT ![k] = v], K, V)
           /\ DOMAIN [m EXCEPT ![k] = v] = DOMAIN m
BY DEF IsMap

LEMMA EngageType ==
    ASSUME CombatInv, NEW known, IsMap(known, Id, Combatant),
           NEW a \in DOMAIN known, NEW t \in DOMAIN known,
           Engage(known, a, t)
    PROVE  /\ IsMap(combatants', Id, Combatant)
           /\ DOMAIN combatants' = DOMAIN known
           /\ IsMap(queuedActions', Id, QueuedAction)
           /\ DOMAIN queuedActions' = DOMAIN queuedActions \cup {a}
<1>1. a \in Id /\ t \in Id
  BY DEF IsMap
<1> DEFINE aimed == [known EXCEPT ![a] = [known[a] EXCEPT !.target = t]]
<1>2. IsMap(aimed, Id, Combatant) /\ DOMAIN aimed = DOMAIN known
  <2>1. [known[a] EXCEPT !.target = t] \in Combatant
    BY <1>1, RecordTypes DEF IsMap
  <2>2. QED
    BY <2>1, UpdateType
<1> DEFINE back == [aimed[t] EXCEPT !.target = IF @ = Nobody THEN a ELSE @]
<1>3. back \in Combatant
  <2>1. aimed[t] \in Combatant
    BY <1>2 DEF IsMap
  <2>2. (IF aimed[t].target = Nobody THEN a ELSE aimed[t].target) \in Id \cup {Nobody}
    BY <1>1, <2>1 DEF Combatant
  <2>3. QED
    BY <2>1, <2>2, RecordTypes
<1>4. combatants' = [aimed EXCEPT ![t] = back]
  BY DEF Engage
<1>5. IsMap(combatants', Id, Combatant) /\ DOMAIN combatants' = DOMAIN known
  BY <1>2, <1>3, <1>4, UpdateType
<1>6. IsMap(queuedActions', Id, QueuedAction)
  BY <1>1, StrikeType DEF CombatInv, Engage, IsMap, Put
<1>7. DOMAIN queuedActions' = DOMAIN queuedActions \cup {a}
  BY DEF Engage, Put
<1>8. QED
  BY <1>5, <1>6, <1>7

-----------------------------------------------------------------------------
(* Between ticks *)

\* What CompanyStays says of one step.
Together ==
    \A c, d \in DOMAIN combatantEncounter \cap DOMAIN combatantEncounter' :
        combatantEncounter[c] = combatantEncounter[d]
            => combatantEncounter'[c] = combatantEncounter'[d]

\* No encounter is waiting for the end of a tick.
LEMMA Calm ==
    ASSUME CombatInv, ~ticking
    PROVE  /\ \A e \in DOMAIN encounters : Sound(e)
           /\ endedEncounterIds = {} /\ events = NoEvents
BY DEF CombatInv, Ticks

\* What a call has to establish.
LEMMA CallFrame ==
    ASSUME CombatInv, ~ticking, UNCHANGED tickVars, calls' \in 0..MaxCalls,
           IsMap(combatants', Id, Combatant),
           IsMap(queuedActions', Id, QueuedAction),
           Fights', \A e \in DOMAIN encounters' : Sound(e)',
           DOMAIN combatantEncounter' \subseteq DOMAIN combatants',
           DOMAIN queuedActions' \subseteq DOMAIN combatantEncounter'
    PROVE  CombatInv'
<1>1. /\ pending' = {} /\ endedEncounterIds' = {} /\ events' = NoEvents
      /\ ticking' = FALSE
  BY DEF CombatInv, Ticks, tickVars
<1>2. NoEvents \in Events /\ NoEvents.defeated = {} /\ NoEvents.fled = {}
  BY DEF NoEvents, Events
<1>3. Ticks'
  BY <1>1, <1>2 DEF Ticks
<1>4. Reported'
  BY <1>1, <1>2 DEF Reported
<1>5. FightersAreRegistered' /\ ActionsHaveFights'
  BY DEF FightersAreRegistered, ActionsHaveFights
<1>6. QED
  BY <1>3, <1>4, <1>5 DEF CombatInv

\* A call that leaves all fights as they are.
LEMMA FightsStay ==
    ASSUME CombatInv, ~ticking,
           UNCHANGED <<encounters, combatantEncounter, nextEncounterId>>
    PROVE  /\ Fights' /\ \A e \in DOMAIN encounters' : Sound(e)'
           /\ DOMAIN combatantEncounter' = DOMAIN combatantEncounter
           /\ Together
<1>1. Fights'
  BY DEF CombatInv, Fights, OneFightEach
<1>2. \A e \in DOMAIN encounters' : Sound(e)'
  BY Calm DEF Sound
<1>3. QED
  BY <1>1, <1>2 DEF Together

LEMMA NewEncounterFights ==
    ASSUME CombatInv, ~ticking, NEW a \in Id, NEW t \in Id, a # t, NewEncounter(a, t)
    PROVE  /\ Fights' /\ \A e \in DOMAIN encounters' : Sound(e)'
           /\ DOMAIN combatantEncounter' = DOMAIN combatantEncounter \cup {a, t}
           /\ Together
<1> DEFINE n == nextEncounterId
<1> DEFINE rec == [members |-> {a, t}, quiet |-> 0]
<1>1. n \in EncounterId /\ n \notin DOMAIN encounters /\ n \in Nat
  BY CombatAssumptions DEF NewEncounter, CombatInv, Fights, EncounterId
<1>2. rec \in CombatEncounter /\ rec.quiet # COMBAT_TIMEOUT_TICKS
  BY CombatAssumptions DEF CombatEncounter
<1>3. /\ encounters' = Put(encounters, n, rec)
      /\ combatantEncounter' = Put(Put(combatantEncounter, a, n), t, n)
      /\ nextEncounterId' = n + 1
  BY DEF NewEncounter
<1>4. /\ DOMAIN encounters' = DOMAIN encounters \cup {n}
      /\ encounters'[n] = rec
      /\ \A e \in DOMAIN encounters : encounters'[e] = encounters[e]
  BY <1>1, <1>3 DEF Put
<1>5. /\ DOMAIN combatantEncounter' = DOMAIN combatantEncounter \cup {a, t}
      /\ combatantEncounter'[a] = n /\ combatantEncounter'[t] = n
      /\ a \notin DOMAIN combatantEncounter /\ t \notin DOMAIN combatantEncounter
      /\ \A c \in DOMAIN combatantEncounter : combatantEncounter'[c] = combatantEncounter[c]
  BY <1>3 DEF Put, NewEncounter, IsInCombat
<1>6. OneFightEach'
  <2>1. \A c \in DOMAIN combatantEncounter' :
            /\ combatantEncounter'[c] \in DOMAIN encounters'
            /\ c \in encounters'[combatantEncounter'[c]].members
    BY <1>4, <1>5 DEF CombatInv, Fights, OneFightEach
  <2>2. \A e \in DOMAIN encounters' : \A c \in encounters'[e].members :
            c \in DOMAIN combatantEncounter' /\ combatantEncounter'[c] = e
    BY <1>4, <1>5 DEF CombatInv, Fights, OneFightEach
  <2>3. QED
    BY <2>1, <2>2 DEF OneFightEach
<1>7. Fights'
  <2>1. IsMap(encounters', EncounterId, CombatEncounter)
    BY <1>1, <1>2, <1>3 DEF CombatInv, Fights, IsMap, Put
  <2>2. IsMap(combatantEncounter', Id, EncounterId)
    BY <1>1, <1>3 DEF CombatInv, Fights, IsMap, Put
  <2>3. nextEncounterId' \in 1..(MaxEncounterId + 1)
    BY <1>1, <1>3, CombatAssumptions DEF EncounterId
  <2>4. \A e \in DOMAIN encounters : e \in Nat /\ e < n
    BY EncounterFields, CombatAssumptions DEF CombatInv, Fights, EncounterId
  <2>5. \A e \in DOMAIN encounters' : e < nextEncounterId'
    BY <1>1, <1>3, <1>4, <2>4
  <2>6. QED
    BY <1>6, <2>1, <2>2, <2>3, <2>5 DEF Fights
<1>8. \A e \in DOMAIN encounters' : Sound(e)'
  BY <1>1, <1>2, <1>4, Calm DEF Sound
<1>9. QED
  BY <1>5, <1>7, <1>8 DEF Together

LEMMA JoinEncounterFights ==
    ASSUME CombatInv, ~ticking, NEW newcomer \in Id, NEW fighter \in Id,
           JoinEncounter(newcomer, fighter)
    PROVE  /\ Fights' /\ \A e \in DOMAIN encounters' : Sound(e)'
           /\ DOMAIN combatantEncounter' = DOMAIN combatantEncounter \cup {newcomer}
           /\ Together
<1> DEFINE n == combatantEncounter[fighter]
<1> DEFINE rec == [encounters[n] EXCEPT !.members = @ \cup {newcomer}]
<1>1. n \in DOMAIN encounters /\ n \in EncounterId
  BY EncounterFields DEF JoinEncounter, IsInCombat, CombatInv, Fights, OneFightEach
<1>2. /\ rec \in CombatEncounter
      /\ rec.members = encounters[n].members \cup {newcomer}
      /\ rec.quiet = encounters[n].quiet
  BY <1>1, EncounterFields DEF CombatEncounter
<1>3. /\ encounters' = [encounters EXCEPT ![n] = rec]
      /\ combatantEncounter' = Put(combatantEncounter, newcomer, n)
      /\ nextEncounterId' = nextEncounterId
  BY DEF JoinEncounter
<1>4. /\ DOMAIN encounters' = DOMAIN encounters
      /\ encounters'[n] = rec
      /\ \A e \in DOMAIN encounters : e # n => encounters'[e] = encounters[e]
  BY <1>1, <1>3
<1>5. /\ DOMAIN combatantEncounter' = DOMAIN combatantEncounter \cup {newcomer}
      /\ combatantEncounter'[newcomer] = n
      /\ newcomer \notin DOMAIN combatantEncounter
      /\ \A c \in DOMAIN combatantEncounter : combatantEncounter'[c] = combatantEncounter[c]
  BY <1>3 DEF Put, JoinEncounter, IsInCombat
<1>6. OneFightEach'
  <2>1. ASSUME NEW c \in DOMAIN combatantEncounter'
        PROVE  /\ combatantEncounter'[c] \in DOMAIN encounters'
               /\ c \in encounters'[combatantEncounter'[c]].members
    <3>1. CASE c = newcomer
      BY <1>1, <1>2, <1>4, <1>5, <3>1
    <3>2. CASE c # newcomer
      <4>1. /\ c \in DOMAIN combatantEncounter
            /\ combatantEncounter[c] \in DOMAIN encounters
            /\ c \in encounters[combatantEncounter[c]].members
        BY <1>5, <2>1, <3>2 DEF CombatInv, Fights, OneFightEach
      <4>2. QED
        BY <1>2, <1>4, <1>5, <4>1
    <3>3. QED
      BY <3>1, <3>2
  <2>2. ASSUME NEW e \in DOMAIN encounters', NEW c \in encounters'[e].members
        PROVE  c \in DOMAIN combatantEncounter' /\ combatantEncounter'[c] = e
    <3>1. CASE e = n /\ c = newcomer
      BY <1>5, <3>1
    <3>2. CASE e # n \/ c # newcomer
      <4>1. e \in DOMAIN encounters /\ c \in encounters[e].members
        BY <1>2, <1>4, <2>2, <3>2
      <4>2. QED
        BY <1>5, <4>1, Members
    <3>3. QED
      BY <3>1, <3>2
  <2>3. QED
    BY <2>1, <2>2 DEF OneFightEach
<1>7. Fights'
  <2>1. IsMap(encounters', EncounterId, CombatEncounter)
    BY <1>2, <1>3, UpdateType DEF CombatInv, Fights
  <2>2. IsMap(combatantEncounter', Id, EncounterId)
    BY <1>1, <1>3 DEF CombatInv, Fights, IsMap, Put
  <2>3. QED
    BY <1>3, <1>4, <1>6, <2>1, <2>2 DEF CombatInv, Fights
<1>8. ASSUME NEW e \in DOMAIN encounters'
      PROVE  Sound(e)'
  <2>1. Sound(e) /\ encounters[e].members \subseteq encounters'[e].members
                 /\ encounters'[e].quiet = encounters[e].quiet
    BY <1>2, <1>4, <1>8, Calm
  <2>2. QED
    BY <2>1 DEF Sound
<1>9. QED
  BY <1>5, <1>7, <1>8 DEF Together

LEMMA MergeEncountersFights ==
    ASSUME CombatInv, ~ticking, NEW a \in Id, NEW t \in Id, MergeEncounters(a, t)
    PROVE  /\ Fights' /\ \A e \in DOMAIN encounters' : Sound(e)'
           /\ DOMAIN combatantEncounter' = DOMAIN combatantEncounter
           /\ Together
<1> DEFINE encA == combatantEncounter[a]
<1> DEFINE encB == combatantEncounter[t]
<1> DEFINE other == encounters[encB].members
<1> DEFINE least == IF encounters[encB].quiet < encounters[encA].quiet
                    THEN encounters[encB].quiet ELSE encounters[encA].quiet
<1> DEFINE rec == [members |-> encounters[encA].members \cup other, quiet |-> least]
<1>1. encA \in DOMAIN encounters /\ encB \in DOMAIN encounters /\ encA # encB
  BY DEF MergeEncounters, IsInCombat, CombatInv, Fights, OneFightEach
<1>2. encA \in EncounterId /\ rec \in CombatEncounter /\ least # COMBAT_TIMEOUT_TICKS
  BY <1>1, EncounterFields, Calm DEF CombatEncounter, Sound
<1>3. /\ encounters' = Put(Without(encounters, {encB}), encA, rec)
      /\ combatantEncounter' = [c \in DOMAIN combatantEncounter |->
                IF c \in other THEN encA ELSE combatantEncounter[c]]
      /\ nextEncounterId' = nextEncounterId
  BY DEF MergeEncounters
<1>4. /\ DOMAIN encounters' = DOMAIN encounters \ {encB}
      /\ encounters'[encA] = rec
      /\ \A e \in DOMAIN encounters' : e # encA => encounters'[e] = encounters[e]
  BY <1>1, <1>3 DEF Put, Without
<1>5. /\ DOMAIN combatantEncounter' = DOMAIN combatantEncounter
      /\ \A c \in DOMAIN combatantEncounter :
            /\ c \in other <=> combatantEncounter[c] = encB
            /\ c \in other => combatantEncounter'[c] = encA
            /\ c \notin other => combatantEncounter'[c] = combatantEncounter[c]
  BY <1>1, <1>3 DEF CombatInv, Fights, OneFightEach
<1>6. OneFightEach'
  <2>1. ASSUME NEW c \in DOMAIN combatantEncounter'
        PROVE  /\ combatantEncounter'[c] \in DOMAIN encounters'
               /\ c \in encounters'[combatantEncounter'[c]].members
    <3>1. CASE c \in other
      BY <1>1, <1>4, <1>5, <2>1, <3>1
    <3>2. CASE c \notin other
      BY <1>1, <1>4, <1>5, <2>1, <3>2 DEF CombatInv, Fights, OneFightEach
    <3>3. QED
      BY <3>1, <3>2
  <2>2. ASSUME NEW e \in DOMAIN encounters', NEW c \in encounters'[e].members
        PROVE  c \in DOMAIN combatantEncounter' /\ combatantEncounter'[c] = e
    <3>1. CASE e = encA /\ c \in other
      BY <1>1, <1>5, <3>1, Members
    <3>2. CASE e = encA /\ c \notin other
      BY <1>1, <1>4, <1>5, <2>2, <3>2, Members
    <3>3. CASE e # encA
      BY <1>1, <1>4, <1>5, <2>2, <3>3, Members
    <3>4. QED
      BY <3>1, <3>2, <3>3
  <2>3. QED
    BY <2>1, <2>2 DEF OneFightEach
<1>7. Fights'
  <2>1. IsMap(encounters', EncounterId, CombatEncounter)
    BY <1>2, <1>3 DEF CombatInv, Fights, IsMap, Put, Without
  <2>2. IsMap(combatantEncounter', Id, EncounterId)
    <3>1. ASSUME NEW c \in DOMAIN combatantEncounter'
          PROVE  c \in Id /\ combatantEncounter'[c] \in EncounterId
      BY <1>2, <1>5, <3>1 DEF CombatInv, Fights, IsMap
    <3>2. QED
      BY <1>3, <1>5, <3>1 DEF CombatInv, Fights, IsMap
  <2>3. QED
    BY <1>3, <1>4, <1>6, <2>1, <2>2 DEF CombatInv, Fights
<1>8. \A e \in DOMAIN encounters' : Sound(e)'
  <2>1. ASSUME NEW e \in DOMAIN encounters' PROVE Sound(e)'
    <3>1. Sound(encA) /\ (e # encA => Sound(e))
      BY <1>1, <1>4, <2>1, Calm
    <3>2. QED
      BY <1>2, <1>4, <2>1, <3>1 DEF Sound
  <2>2. QED
    BY <2>1
<1>9. QED
  BY <1>5, <1>7, <1>8 DEF Together

\* initiateCombat, whatever it does to the fights.
LEMMA InitiateCombatInv ==
    ASSUME CombatInv, ~ticking, UNCHANGED tickVars, calls' \in 0..MaxCalls,
           NEW known, IsMap(known, Id, Combatant),
           DOMAIN combatants \subseteq DOMAIN known,
           NEW a \in DOMAIN known, NEW t \in DOMAIN known, a # t,
           InitiateCombat(known, a, t)
    PROVE  CombatInv' /\ Together
<1>1. a \in Id /\ t \in Id
  BY DEF IsMap
<1>2. /\ DOMAIN combatantEncounter \subseteq DOMAIN known
      /\ DOMAIN queuedActions \subseteq DOMAIN combatantEncounter
  BY DEF CombatInv, FightersAreRegistered, ActionsHaveFights
<1>3. CASE known[a].room # known[t].room
  <2>1. /\ combatants' = known /\ queuedActions' = queuedActions
        /\ UNCHANGED <<encounters, combatantEncounter, nextEncounterId>>
    BY <1>3 DEF InitiateCombat
  <2>2. QED
    BY <1>2, <2>1, FightsStay, CallFrame DEF CombatInv
<1>4. CASE known[a].room = known[t].room
  <2>1. Engage(known, a, t)
    BY <1>4 DEF InitiateCombat
  <2>2. /\ Fights' /\ \A e \in DOMAIN encounters' : Sound(e)'
        /\ Together
        /\ DOMAIN combatantEncounter \subseteq DOMAIN combatantEncounter'
        /\ DOMAIN combatantEncounter' \subseteq DOMAIN combatantEncounter \cup {a, t}
        /\ a \in DOMAIN combatantEncounter'
    <3>1. CASE NewEncounter(a, t)
      BY <1>1, <3>1, NewEncounterFights
    <3>2. CASE JoinEncounter(t, a)
      BY <1>1, <3>2, JoinEncounterFights DEF JoinEncounter, IsInCombat
    <3>3. CASE JoinEncounter(a, t)
      <4>1. /\ Fights' /\ \A e \in DOMAIN encounters' : Sound(e)'
            /\ DOMAIN combatantEncounter' = DOMAIN combatantEncounter \cup {a}
            /\ Together
        BY <1>1, <3>3, JoinEncounterFights
      <4>2. QED
        BY <4>1
    <3>4. CASE SameEncounter(a, t)
      BY <3>4, FightsStay DEF SameEncounter, IsInCombat
    <3>5. CASE MergeEncounters(a, t)
      BY <1>1, <3>5, MergeEncountersFights DEF MergeEncounters, IsInCombat
    <3>6. QED
      BY <1>4, <3>1, <3>2, <3>3, <3>4, <3>5 DEF InitiateCombat
  <2>3. /\ IsMap(combatants', Id, Combatant) /\ DOMAIN combatants' = DOMAIN known
        /\ IsMap(queuedActions', Id, QueuedAction)
        /\ DOMAIN queuedActions' = DOMAIN queuedActions \cup {a}
    BY <2>1, EngageType
  <2>4. /\ DOMAIN combatantEncounter' \subseteq DOMAIN combatants'
        /\ DOMAIN queuedActions' \subseteq DOMAIN combatantEncounter'
    BY <1>2, <2>2, <2>3
  <2>5. QED
    BY <2>2, <2>3, <2>4, CallFrame
<1>5. QED
  BY <1>3, <1>4

\* A call that changes at most one record and one queued action of a fighter.
LEMMA RecordsInv ==
    ASSUME CombatInv, ~ticking, UNCHANGED tickVars, calls' \in 0..MaxCalls,
           IsMap(combatants', Id, Combatant),
           DOMAIN combatants \subseteq DOMAIN combatants',
           IsMap(queuedActions', Id, QueuedAction),
           DOMAIN queuedActions' \subseteq DOMAIN combatantEncounter,
           UNCHANGED <<encounters, combatantEncounter, nextEncounterId>>
    PROVE  CombatInv' /\ Together
<1>1. DOMAIN combatantEncounter \subseteq DOMAIN combatants'
  BY DEF CombatInv, FightersAreRegistered
<1>2. QED
  BY <1>1, FightsStay, CallFrame

LEMMA CalledFrame ==
    ASSUME CombatInv, Called
    PROVE  ~ticking /\ UNCHANGED tickVars /\ calls' \in 0..MaxCalls
BY CombatAssumptions DEF Called, CombatInv, Ticks

\* Queueing a typed action for a fighter.
LEMMA QueueType ==
    ASSUME CombatInv, NEW c, IsInCombat(c), NEW action \in QueuedAction
    PROVE  /\ IsMap(Put(queuedActions, c, action), Id, QueuedAction)
           /\ DOMAIN Put(queuedActions, c, action) \subseteq DOMAIN combatantEncounter
<1>1. c \in Id
  BY DEF IsInCombat, CombatInv, Fights, IsMap
<1>2. DOMAIN Put(queuedActions, c, action) = DOMAIN queuedActions \cup {c}
  BY DEF Put
<1>3. QED
  BY <1>1, <1>2 DEF CombatInv, ActionsHaveFights, IsInCombat, IsMap, Put

\* Writing a typed record of a registered combatant.
LEMMA RecordType ==
    ASSUME CombatInv, NEW c, Registered(c), NEW rec \in Combatant
    PROVE  /\ IsMap([combatants EXCEPT ![c] = rec], Id, Combatant)
           /\ DOMAIN [combatants EXCEPT ![c] = rec] = DOMAIN combatants
BY UpdateType DEF CombatInv

LEMMA AttackInv ==
    ASSUME CombatInv, NEW p \in Player, NEW t \in Id, NEW r \in Room, Attack(p, t, r)
    PROVE  CombatInv' /\ Together
<1>1. {p, t} \in SUBSET Id
  BY DEF Id
<1>2. QED
  BY <1>1, CalledFrame, WithRegisteredType, InitiateCombatInv DEF Attack

LEMMA AimType ==
    ASSUME CombatInv, NEW c, Registered(c), NEW t \in Id
    PROVE  /\ IsMap([combatants EXCEPT ![c].target = t], Id, Combatant)
           /\ DOMAIN [combatants EXCEPT ![c].target = t] = DOMAIN combatants
<1>1. combatants[c] \in Combatant
  BY DEF CombatInv, Registered, IsMap
<1>2. [combatants[c] EXCEPT !.target = t] \in Combatant
  BY <1>1, RecordTypes
<1>3. QED
  BY <1>2, RecordType

LEMMA FighterRegistered ==
    ASSUME CombatInv, NEW c, IsInCombat(c)
    PROVE  Registered(c)
BY DEF CombatInv, FightersAreRegistered, IsInCombat, Registered

LEMMA AttackAnotherInv ==
    ASSUME CombatInv, NEW p \in Player, NEW t \in Id, AttackAnother(p, t)
    PROVE  CombatInv' /\ Together
<1>1. Registered(p) /\ IsInCombat(p)
  BY FighterRegistered DEF AttackAnother
<1>2. IsMap(combatants', Id, Combatant) /\ DOMAIN combatants' = DOMAIN combatants
  BY <1>1, AimType DEF AttackAnother, CombatInv
<1>3. Strike(t) \in QueuedAction
  BY StrikeType
<1>4. QED
  BY <1>1, <1>2, <1>3, QueueType, CalledFrame, RecordsInv DEF AttackAnother

LEMMA TargetInv ==
    ASSUME CombatInv, NEW p \in Player, NEW t \in Id, Target(p, t)
    PROVE  CombatInv' /\ Together
<1>1. Registered(p)
  BY FighterRegistered DEF Target
<1>2. IsMap(combatants', Id, Combatant) /\ DOMAIN combatants' = DOMAIN combatants
  BY <1>1, AimType DEF Target
<1>3. /\ IsMap(queuedActions', Id, QueuedAction)
      /\ DOMAIN queuedActions' \subseteq DOMAIN combatantEncounter
  BY DEF Target, CombatInv, ActionsHaveFights
<1>4. QED
  BY <1>2, <1>3, CalledFrame, RecordsInv DEF Target

LEMMA SubmitActionInv ==
    ASSUME CombatInv, NEW c \in Id, NEW action \in PlainActions(c), SubmitAction(c, action)
    PROVE  CombatInv' /\ Together
<1>1. action \in QueuedAction
  <2>1. [act |-> "flee", at |-> Nobody] \in QueuedAction
    BY DEF QueuedAction
  <2>2. QED
    BY <2>1, StrikeType DEF PlainActions
<1>2. QED
  BY <1>1, QueueType, CalledFrame, RecordsInv DEF SubmitAction, CombatInv

LEMMA CreatureStrikeInv ==
    ASSUME CombatInv, NEW c \in Creature, NEW p \in Player, NEW r \in Room,
           CreatureStrike(c, p, r)
    PROVE  CombatInv' /\ Together
<1>1. c # p /\ {c, p} \in SUBSET Id
  BY CombatAssumptions DEF Id
<1>2. CASE ~IsInCombat(c)
  BY <1>1, <1>2, CalledFrame, WithRegisteredType, InitiateCombatInv DEF CreatureStrike
<1>3. CASE IsInCombat(c)
  <2>1. Strike(p) \in QueuedAction
    BY StrikeType DEF Id
  <2>2. QED
    BY <1>1, <1>3, <2>1, WithRegisteredType, QueueType, CalledFrame, RecordsInv
    DEF CreatureStrike
<1>4. QED
  BY <1>2, <1>3

LEMMA CreatureTelegraphInv ==
    ASSUME CombatInv, NEW c \in Creature, NEW p \in Player, NEW r \in Room,
           NEW ticks \in 1..WIND_UP_TICKS, CreatureTelegraph(c, p, r, ticks)
    PROVE  CombatInv' /\ Together
<1> DEFINE known == WithRegistered({p}, r)
<1> DEFINE w == [left |-> ticks, at |-> p]
<1>1. c \in DOMAIN combatants
  BY FighterRegistered DEF CreatureTelegraph, Registered
<1>2. IsMap(known, Id, Combatant) /\ DOMAIN known = DOMAIN combatants \cup {p}
  BY WithRegisteredType DEF Id
<1>3. w \in WindUp
  BY CombatAssumptions DEF WindUp, Id
<1>4. [known[c] EXCEPT !.windUp = w] \in Combatant
  BY <1>1, <1>2, <1>3, RecordTypes DEF IsMap
<1>5. /\ IsMap(combatants', Id, Combatant)
      /\ DOMAIN combatants' = DOMAIN combatants \cup {p}
  BY <1>2, <1>4, UpdateType DEF CreatureTelegraph
<1>6. /\ IsMap(queuedActions', Id, QueuedAction)
      /\ DOMAIN queuedActions' \subseteq DOMAIN combatantEncounter
  BY DEF CreatureTelegraph, CombatInv, ActionsHaveFights
<1>7. QED
  BY <1>5, <1>6, CalledFrame, RecordsInv DEF CreatureTelegraph

LEMMA RiseInv ==
    ASSUME CombatInv, NEW p \in Player, NEW r \in Room, Rise(p, r)
    PROVE  CombatInv' /\ Together
<1> DEFINE known == Put(combatants, p, NewCombatant(r))
<1>1. p \in Id
  BY DEF Id
<1>2. IsMap(known, Id, Combatant)
  BY <1>1, NewCombatantType DEF CombatInv, IsMap, Put
<1>3. DOMAIN known = DOMAIN combatants \cup {p}
  BY DEF Put
<1>4. ASSUME NEW c \in Creature, IsInCombat(c), InitiateCombat(known, c, p)
      PROVE  CombatInv' /\ Together
  <2>1. c \in DOMAIN known /\ c # p
    BY <1>3, <1>4, FighterRegistered, CombatAssumptions DEF Registered
  <2>2. QED
    BY <1>2, <1>3, <1>4, <2>1, CalledFrame, InitiateCombatInv DEF Rise
<1>5. ASSUME combatants' = known,
             UNCHANGED <<encounters, combatantEncounter, queuedActions, nextEncounterId>>
      PROVE  CombatInv' /\ Together
  <2>1. /\ IsMap(queuedActions', Id, QueuedAction)
        /\ DOMAIN queuedActions' \subseteq DOMAIN combatantEncounter
    BY <1>5 DEF CombatInv, ActionsHaveFights
  <2>2. QED
    BY <1>2, <1>3, <1>5, <2>1, CalledFrame, RecordsInv DEF Rise
<1>6. QED
  BY <1>4, <1>5 DEF Rise

LEMMA UpdateCombatantRoomInv ==
    ASSUME CombatInv, NEW p \in Player, NEW r \in Room, UpdateCombatantRoom(p, r)
    PROVE  CombatInv' /\ Together
<1>1. combatants[p] \in Combatant
  BY DEF CombatInv, UpdateCombatantRoom, Registered, IsMap
<1>2. [combatants[p] EXCEPT !.room = r] \in Combatant
  BY <1>1, RecordTypes
<1>3. IsMap(combatants', Id, Combatant) /\ DOMAIN combatants' = DOMAIN combatants
  BY <1>2, RecordType DEF UpdateCombatantRoom
<1>4. /\ IsMap(queuedActions', Id, QueuedAction)
      /\ DOMAIN queuedActions' \subseteq DOMAIN combatantEncounter
  BY DEF UpdateCombatantRoom, CombatInv, ActionsHaveFights
<1>5. QED
  BY <1>3, <1>4, CalledFrame, RecordsInv DEF UpdateCombatantRoom

-----------------------------------------------------------------------------
(* Clean-up *)

\* Forgetting encounters, and some people besides, keeps what is left whole.
LEMMA ForgetInv ==
    ASSUME CombatInv, NEW es \in SUBSET DOMAIN encounters, NEW alsoWho,
           NEW who, who = [e \in DOMAIN encounters |-> encounters[e].members \ alsoWho],
           Forget(es, alsoWho, who), UNCHANGED nextEncounterId
    PROVE  /\ IsMap(combatants', Id, Combatant)
           /\ IsMap(queuedActions', Id, QueuedAction)
           /\ Fights'
           /\ DOMAIN combatantEncounter' \subseteq DOMAIN combatantEncounter
           /\ FightersAreRegistered' /\ ActionsHaveFights'
           /\ DOMAIN encounters' = DOMAIN encounters \ es
           /\ \A e \in DOMAIN encounters' :
                  /\ encounters'[e].members = encounters[e].members \ alsoWho
                  /\ encounters'[e].quiet = encounters[e].quiet
           /\ Together
<1> DEFINE gone == (UNION {who[e] : e \in es}) \cup alsoWho
<1>1. /\ combatants' = Without(combatants, gone)
      /\ queuedActions' = Without(queuedActions, gone)
      /\ combatantEncounter' = Without(combatantEncounter, gone)
      /\ encounters' = [e \in DOMAIN encounters \ es |->
                            [encounters[e] EXCEPT !.members = who[e]]]
  BY DEF Forget
<1>2. /\ IsMap(combatants', Id, Combatant)
      /\ IsMap(queuedActions', Id, QueuedAction)
      /\ IsMap(combatantEncounter', Id, EncounterId)
  BY <1>1 DEF CombatInv, Fights, IsMap, Without
<1>3. /\ DOMAIN combatants' = DOMAIN combatants \ gone
      /\ DOMAIN queuedActions' = DOMAIN queuedActions \ gone
      /\ DOMAIN combatantEncounter' = DOMAIN combatantEncounter \ gone
      /\ \A c \in DOMAIN combatantEncounter' : combatantEncounter'[c] = combatantEncounter[c]
  <2> HIDE DEF gone
  <2>1. QED
    BY <1>1 DEF Without
<1>4. FightersAreRegistered' /\ ActionsHaveFights'
  BY <1>3 DEF CombatInv, FightersAreRegistered, ActionsHaveFights
<1>5. Together
  BY <1>3 DEF Together
<1>6. DOMAIN encounters' = DOMAIN encounters \ es
  BY <1>1
<1>7. ASSUME NEW e \in DOMAIN encounters'
      PROVE  /\ e \in EncounterId
             /\ encounters'[e] \in CombatEncounter
             /\ encounters'[e].members = encounters[e].members \ alsoWho
             /\ encounters'[e].quiet = encounters[e].quiet
  <2>1. /\ e \in DOMAIN encounters
        /\ encounters'[e] = [encounters[e] EXCEPT !.members = who[e]]
        /\ who[e] = encounters[e].members \ alsoWho
    BY <1>1, <1>6, <1>7
  <2>2. e \in EncounterId /\ encounters[e] \in CombatEncounter
    BY <2>1, EncounterFields
  <2>3. QED
    BY <2>1, <2>2 DEF CombatEncounter
<1>8. IsMap(encounters', EncounterId, CombatEncounter)
  <2>1. DOMAIN encounters' \in SUBSET EncounterId
    BY <1>7
  <2>2. encounters' = [e \in DOMAIN encounters' |-> encounters'[e]]
    BY <1>1
  <2>3. QED
    BY <1>7, <2>1, <2>2 DEF IsMap
<1>9. OneFightEach'
  <2>1. ASSUME NEW c \in DOMAIN combatantEncounter'
        PROVE  /\ combatantEncounter'[c] \in DOMAIN encounters'
               /\ c \in encounters'[combatantEncounter'[c]].members
    <3> DEFINE e == combatantEncounter[c]
    <3>1. e \in DOMAIN encounters /\ c \in encounters[e].members /\ c \notin gone
      BY <1>3, <2>1 DEF CombatInv, Fights, OneFightEach
    <3>2. c \in who[e]
      BY <3>1
    <3>3. e \notin es
      BY <3>1, <3>2
    <3>4. e \in DOMAIN encounters' /\ combatantEncounter'[c] = e
      BY <1>3, <1>6, <2>1, <3>1, <3>3
    <3>5. encounters'[e].members = encounters[e].members \ alsoWho
      BY <1>7, <3>4
    <3>6. QED
      BY <3>1, <3>4, <3>5
  <2>2. ASSUME NEW e \in DOMAIN encounters', NEW c \in encounters'[e].members
        PROVE  c \in DOMAIN combatantEncounter' /\ combatantEncounter'[c] = e
    <3>1. /\ e \in DOMAIN encounters /\ e \notin es
          /\ c \in encounters[e].members /\ c \notin alsoWho
      BY <1>6, <1>7, <2>2
    <3>2. c \in DOMAIN combatantEncounter /\ combatantEncounter[c] = e
      BY <3>1, Members
    <3>3. ASSUME NEW d \in es, c \in who[d] PROVE FALSE
      BY <3>1, <3>2, <3>3, Members
    <3>4. c \notin gone
      BY <3>1, <3>3
    <3>5. QED
      BY <1>3, <3>2, <3>4
  <2>3. QED
    BY <2>1, <2>2 DEF OneFightEach
<1>10. Fights'
  BY <1>2, <1>6, <1>8, <1>9 DEF CombatInv, Fights
<1>11. QED
  BY <1>2, <1>3, <1>4, <1>5, <1>6, <1>7, <1>10

LEMMA RemoveCombatantInv ==
    ASSUME CombatInv, NEW c \in Id, RemoveCombatant(c)
    PROVE  CombatInv' /\ Together
<1> DEFINE es == EndedWithout(c)
<1>1. /\ ~ticking /\ UNCHANGED tickVars /\ calls' \in 0..MaxCalls
      /\ UNCHANGED nextEncounterId
  BY CalledFrame DEF RemoveCombatant
<1>2. es \in SUBSET DOMAIN encounters
  BY DEF EndedWithout
<1>3. Forget(es, {c}, MembersWithout(c))
  BY DEF RemoveCombatant
<1>4. MembersWithout(c) = [e \in DOMAIN encounters |-> encounters[e].members \ {c}]
  BY DEF MembersWithout
<1>5. /\ IsMap(combatants', Id, Combatant)
      /\ IsMap(queuedActions', Id, QueuedAction)
      /\ Fights'
      /\ FightersAreRegistered' /\ ActionsHaveFights'
      /\ DOMAIN encounters' = DOMAIN encounters \ es
      /\ \A e \in DOMAIN encounters' :
             /\ encounters'[e].members = encounters[e].members \ {c}
             /\ encounters'[e].quiet = encounters[e].quiet
      /\ Together
  BY <1>1, <1>2, <1>3, <1>4, ForgetInv
<1>6. ASSUME NEW e \in DOMAIN encounters'
      PROVE  Sound(e)'
  <2>1. e \in DOMAIN encounters /\ e \notin es
    BY <1>5, <1>6
  <2>2. Sound(e)
    BY <1>1, <2>1, Calm
  <2>3. CASE c \notin encounters[e].members
    BY <1>5, <1>6, <2>2, <2>3 DEF Sound
  <2>4. CASE c \in encounters[e].members
    <3>1. IsInCombat(c) /\ e = combatantEncounter[c]
      BY <2>1, <2>4, Members DEF IsInCombat
    <3>2. ~FightIsOver(combatants, encounters[e].members \ {c})
      BY <2>1, <3>1 DEF EndedWithout, MembersWithout
    <3>3. \E a, b \in encounters[e].members \ {c} : a # b
      BY <3>2 DEF FightIsOver, Living
    <3>4. QED
      BY <1>5, <1>6, <2>2, <3>3 DEF Sound
  <2>5. QED
    BY <2>3, <2>4
<1>7. QED
  BY <1>1, <1>5, <1>6, CallFrame DEF FightersAreRegistered, ActionsHaveFights

LEMMA FinishTickInv ==
    ASSUME CombatInv, FinishTick
    PROVE  CombatInv' /\ Together
<1> DEFINE es == endedEncounterIds
<1> DEFINE who == [e \in DOMAIN encounters |-> encounters[e].members]
<1>1. /\ Forget(es, {}, who) /\ UNCHANGED nextEncounterId
      /\ es \in SUBSET DOMAIN encounters
      /\ pending = {} /\ pending' = {} /\ endedEncounterIds' = {}
      /\ ticking' = FALSE /\ events' = NoEvents /\ calls' = calls
  BY DEF FinishTick, CombatInv, Ticks
<1>2. who = [e \in DOMAIN encounters |-> encounters[e].members \ {}]
  OBVIOUS
<1>3. /\ IsMap(combatants', Id, Combatant)
      /\ IsMap(queuedActions', Id, QueuedAction)
      /\ Fights'
      /\ FightersAreRegistered' /\ ActionsHaveFights'
      /\ DOMAIN encounters' = DOMAIN encounters \ es
      /\ \A e \in DOMAIN encounters' :
             /\ encounters'[e].members = encounters[e].members \ {}
             /\ encounters'[e].quiet = encounters[e].quiet
      /\ Together
  BY <1>1, <1>2, ForgetInv
<1>4. ASSUME NEW e \in DOMAIN encounters' PROVE Sound(e)'
  <2>1. Sound(e)
    BY <1>1, <1>3, <1>4 DEF CombatInv
  <2>2. QED
    BY <1>3, <1>4, <2>1 DEF Sound
<1>5. NoEvents \in Events /\ NoEvents.defeated = {} /\ NoEvents.fled = {}
  BY DEF NoEvents, Events
<1>6. Ticks' /\ Reported'
  BY <1>1, <1>5 DEF Ticks, Reported, CombatInv
<1>7. QED
  BY <1>3, <1>4, <1>6 DEF CombatInv

-----------------------------------------------------------------------------
(* The tick *)

LEMMA StartTickInv ==
    ASSUME CombatInv, StartTick
    PROVE  CombatInv' /\ Together
<1>1. /\ ~ticking /\ ticking' = TRUE /\ pending' = DOMAIN encounters
      /\ UNCHANGED <<combatants, encounters, combatantEncounter, queuedActions,
                     nextEncounterId, calls, endedEncounterIds, events>>
  BY DEF StartTick
<1>2. Fights' /\ (\A e \in DOMAIN encounters' : Sound(e)') /\ Together
  BY <1>1, FightsStay
<1>3. Ticks' /\ Reported'
  BY <1>1 DEF CombatInv, Ticks, Reported
<1>4. QED
  BY <1>1, <1>2, <1>3 DEF CombatInv, FightersAreRegistered, ActionsHaveFights

\* Those an encounter's resolution is about are in that encounter and in no
\* earlier event of the tick.
LEMMA FightersFight ==
    ASSUME CombatInv, NEW e \in pending
    PROVE  /\ ticking /\ e \in DOMAIN encounters /\ Sound(e)
           /\ Fighters(e) \subseteq encounters[e].members
           /\ Fighters(e) \subseteq DOMAIN combatantEncounter
           /\ Fighters(e) \subseteq Id
           /\ Fighters(e) \cap (events.defeated \cup events.fled) = {}
<1>1. ticking /\ e \in DOMAIN encounters /\ Sound(e)
  BY DEF CombatInv, Ticks
<1>2. Fighters(e) \subseteq encounters[e].members
  BY DEF Fighters, Living
<1>3. Fighters(e) \subseteq DOMAIN combatantEncounter /\ Fighters(e) \subseteq Id
  BY <1>1, <1>2, Members, EncounterFields
<1>4. QED
  BY <1>1, <1>2, <1>3 DEF CombatInv, Reported

LEMMA ResolvedRecords ==
    ASSUME CombatInv, NEW e \in pending,
           NEW aim \in [Fighters(e) -> Id \cup {Nobody}],
           NEW felled, NEW fleeing, NEW exit,
           \A c \in DOMAIN exit : exit[c] \in Room,
           ResolveEncounter(e, aim, felled, fleeing, exit)
    PROVE  IsMap(combatants', Id, Combatant) /\ DOMAIN combatants' = DOMAIN combatants
<1> DEFINE fighters == Fighters(e)
           fallen == felled \cap fighters
           rest == encounters[e].members \ (DOMAIN exit \cup fallen)
           Room1(c) == IF c \in DOMAIN exit THEN exit[c] ELSE combatants[c].room
           Aim(c) == IF c \in fighters THEN aim[c] ELSE combatants[c].target
           Target1(c) == LET t == Aim(c) IN IF c \in rest /\ t \in fallen THEN Nobody ELSE t
           WindUp1(c) == IF c \in fighters /\ WindingUp(c)
                         THEN [combatants[c].windUp EXCEPT !.left = @ - 1]
                         ELSE IF c \in fighters THEN NoWindUp
                         ELSE combatants[c].windUp
<1>1. combatants' = [c \in DOMAIN combatants |->
                        [alive  |-> combatants[c].alive /\ c \notin felled,
                         room   |-> Room1(c),
                         target |-> Target1(c),
                         windUp |-> WindUp1(c)]]
  BY DEF ResolveEncounter
<1>2. ASSUME NEW c \in DOMAIN combatants
      PROVE  [alive  |-> combatants[c].alive /\ c \notin felled,
              room   |-> Room1(c),
              target |-> Target1(c),
              windUp |-> WindUp1(c)] \in Combatant
  <2>1. combatants[c] \in Combatant
    BY <1>2 DEF CombatInv, IsMap
  <2>2. /\ combatants[c].room \in Room /\ combatants[c].target \in Id \cup {Nobody}
        /\ combatants[c].windUp \in WindUp
    BY <2>1 DEF Combatant
  <2>3. Room1(c) \in Room
    BY <2>2
  <2>4. Target1(c) \in Id \cup {Nobody}
    BY <2>2
  <2>5. WindUp1(c) \in WindUp
    <3>1. CASE c \in fighters /\ WindingUp(c)
      <4>1. combatants[c].windUp.left \in 0..WIND_UP_TICKS /\ combatants[c].windUp.left > 1
        BY <2>2, <3>1 DEF WindUp, WindingUp
      <4>2. combatants[c].windUp.left - 1 \in 0..WIND_UP_TICKS
        BY <4>1, CombatAssumptions
      <4>3. QED
        BY <2>2, <3>1, <4>2 DEF WindUp
    <3>2. CASE ~(c \in fighters /\ WindingUp(c))
      BY <2>2, <3>2, CombatAssumptions DEF WindUp, NoWindUp
    <3>3. QED
      BY <3>1, <3>2
  <2>6. (combatants[c].alive /\ c \notin felled) \in BOOLEAN
    BY Zenon
  <2>7. QED
    BY <2>3, <2>4, <2>5, <2>6 DEF Combatant
<1> HIDE DEF Room1, Target1, WindUp1
<1>3. DOMAIN combatants' = DOMAIN combatants
  BY <1>1
<1>4. \A c \in DOMAIN combatants : combatants'[c] \in Combatant
  BY <1>1, <1>2
<1>5. combatants' = [c \in DOMAIN combatants |-> combatants'[c]]
  BY <1>1
<1>6. DOMAIN combatants \in SUBSET Id
  BY DEF CombatInv, IsMap
<1>7. QED
  BY <1>3, <1>4, <1>5, <1>6 DEF IsMap

LEMMA ResolveEncounterInv ==
    ASSUME CombatInv, NEW e \in pending,
           NEW aim \in [Fighters(e) -> Id \cup {Nobody}],
           NEW felled, NEW fleeing \in SUBSET Fighters(e), NEW exit,
           DOMAIN exit \subseteq fleeing \ felled,
           \A c \in DOMAIN exit : exit[c] \in Room,
           ResolveEncounter(e, aim, felled, fleeing, exit)
    PROVE  CombatInv' /\ Together
<1> DEFINE fighters == Fighters(e)
           escaped == DOMAIN exit
           fallen == felled \cap fighters
           gone == escaped \cup fallen
           rest == encounters[e].members \ gone
           quiet == IF fighters = fleeing THEN encounters[e].quiet + 1 ELSE 0
           rec == [members |-> rest, quiet |-> quiet]
<1>1. /\ encounters' = [encounters EXCEPT ![e] = rec]
      /\ combatantEncounter' = Without(combatantEncounter, gone)
      /\ queuedActions' = Without(queuedActions, fighters)
      /\ endedEncounterIds' = IF FightIsOver(combatants', rest) \/ quiet = COMBAT_TIMEOUT_TICKS
                              THEN endedEncounterIds \cup {e} ELSE endedEncounterIds
      /\ pending' = pending \ {e}
      /\ events' = [defeated |-> events.defeated \cup fallen,
                    fled     |-> events.fled \cup escaped]
      /\ UNCHANGED <<nextEncounterId, calls, ticking>>
  BY DEF ResolveEncounter
<1>2. /\ ticking /\ e \in DOMAIN encounters /\ Sound(e)
      /\ fighters \subseteq encounters[e].members
      /\ fighters \subseteq DOMAIN combatantEncounter /\ fighters \subseteq Id
      /\ fighters \cap (events.defeated \cup events.fled) = {}
  BY FightersFight
<1>3. escaped \cap fallen = {} /\ gone \subseteq fighters
  OBVIOUS
<1>4. IsMap(combatants', Id, Combatant) /\ DOMAIN combatants' = DOMAIN combatants
  BY ResolvedRecords
<1>5. e \in EncounterId /\ rec \in CombatEncounter
  <2>1. /\ e \in EncounterId /\ encounters[e].members \in SUBSET Id
        /\ encounters[e].quiet \in 0..COMBAT_TIMEOUT_TICKS
        /\ encounters[e].quiet # COMBAT_TIMEOUT_TICKS
    BY <1>2, EncounterFields DEF Sound
  <2>2. quiet \in 0..COMBAT_TIMEOUT_TICKS
    BY <2>1, CombatAssumptions
  <2>3. QED
    BY <2>1, <2>2 DEF CombatEncounter
<1> HIDE DEF fighters, escaped, fallen, gone
<1>6. /\ DOMAIN combatantEncounter' = DOMAIN combatantEncounter \ gone
      /\ \A c \in DOMAIN combatantEncounter' : combatantEncounter'[c] = combatantEncounter[c]
      /\ DOMAIN queuedActions' = DOMAIN queuedActions \ fighters
  BY <1>1 DEF Without
<1>7. /\ DOMAIN encounters' = DOMAIN encounters
      /\ encounters'[e].members = encounters[e].members \ gone
      /\ encounters'[e].quiet = quiet
      /\ \A d \in DOMAIN encounters : d # e => encounters'[d] = encounters[d]
  BY <1>1, <1>2
<1>8. OneFightEach'
  <2>1. ASSUME NEW c \in DOMAIN combatantEncounter'
        PROVE  /\ combatantEncounter'[c] \in DOMAIN encounters'
               /\ c \in encounters'[combatantEncounter'[c]].members
    <3> DEFINE d == combatantEncounter[c]
    <3>1. d \in DOMAIN encounters /\ c \in encounters[d].members /\ c \notin gone
      BY <1>6, <2>1 DEF CombatInv, Fights, OneFightEach
    <3>2. c \in encounters'[d].members
      BY <1>7, <3>1
    <3>3. QED
      BY <1>6, <1>7, <2>1, <3>1, <3>2
  <2>2. ASSUME NEW d \in DOMAIN encounters', NEW c \in encounters'[d].members
        PROVE  c \in DOMAIN combatantEncounter' /\ combatantEncounter'[c] = d
    <3>1. d \in DOMAIN encounters /\ c \in encounters[d].members
      BY <1>7, <2>2
    <3>2. c \in DOMAIN combatantEncounter /\ combatantEncounter[c] = d
      BY <3>1, Members
    <3>3. c \notin gone
      <4>1. CASE d = e
        BY <1>7, <2>2, <4>1
      <4>2. CASE d # e
        <5>1. c \notin encounters[e].members
          BY <1>2, <3>2, <4>2, Members
        <5>2. QED
          BY <1>2, <1>3, <5>1
      <4>3. QED
        BY <4>1, <4>2
    <3>4. QED
      BY <1>6, <3>2, <3>3
  <2>3. QED
    BY <2>1, <2>2 DEF OneFightEach
<1>9. Fights'
  <2>1. IsMap(encounters', EncounterId, CombatEncounter)
    BY <1>1, <1>5, UpdateType DEF CombatInv, Fights
  <2>2. IsMap(combatantEncounter', Id, EncounterId)
    BY <1>1 DEF CombatInv, Fights, IsMap, Without
  <2>3. QED
    BY <1>1, <1>7, <1>8, <2>1, <2>2 DEF CombatInv, Fights
<1>10. IsMap(queuedActions', Id, QueuedAction)
  BY <1>1 DEF CombatInv, IsMap, Without
<1>11. FightersAreRegistered' /\ ActionsHaveFights'
  BY <1>3, <1>4, <1>6 DEF CombatInv, FightersAreRegistered, ActionsHaveFights
<1>12. /\ endedEncounterIds \subseteq endedEncounterIds'
       /\ endedEncounterIds' \subseteq DOMAIN encounters
       /\ pending' \subseteq DOMAIN encounters
  BY <1>1, <1>2 DEF CombatInv, Ticks
<1>13. fallen \subseteq fighters /\ escaped \subseteq fighters /\ gone = escaped \cup fallen
  BY DEF fallen, escaped, gone, fighters
<1>14. events' \in Events
  BY <1>1, <1>2, <1>13 DEF CombatInv, Ticks, Events
<1>15. Ticks'
  BY <1>1, <1>2, <1>7, <1>12, <1>14 DEF CombatInv, Ticks
<1>16. Reported'
  <2>1. /\ events'.defeated = events.defeated \cup fallen
        /\ events'.fled = events.fled \cup escaped
    BY <1>1
  <2>2. QED
    BY <1>2, <1>3, <1>6, <1>13, <2>1 DEF CombatInv, Reported
<1>17. ASSUME NEW d \in DOMAIN encounters'
       PROVE  d \in endedEncounterIds' \ pending' \/ Sound(d)'
  <2>1. CASE d # e
    <3>1. d \in endedEncounterIds \ pending \/ Sound(d)
      BY <1>7, <1>17 DEF CombatInv
    <3>2. Sound(d) => Sound(d)'
      BY <1>7, <1>17, <2>1 DEF Sound
    <3>3. QED
      BY <1>1, <1>12, <3>1, <3>2
  <2>2. CASE d = e
    <3>1. CASE FightIsOver(combatants', rest) \/ quiet = COMBAT_TIMEOUT_TICKS
      BY <1>1, <2>2, <3>1
    <3>2. CASE ~(FightIsOver(combatants', rest) \/ quiet = COMBAT_TIMEOUT_TICKS)
      <4>1. \E a, b \in rest : a # b
        BY <3>2 DEF FightIsOver, Living
      <4>2. QED
        BY <1>7, <2>2, <3>2, <4>1 DEF Sound
    <3>3. QED
      BY <3>1, <3>2
  <2>3. QED
    BY <2>1, <2>2
<1>18. Together
  BY <1>6 DEF Together
<1>19. QED
  BY <1>4, <1>9, <1>10, <1>11, <1>15, <1>16, <1>17, <1>18 DEF CombatInv

LEMMA ResolveNextInv ==
    ASSUME CombatInv, ResolveNext
    PROVE  CombatInv' /\ Together
<1>1. PICK e \in pending :
        \E aim \in [Fighters(e) -> Id \cup {Nobody}], fleeing \in MayFlee(e) :
            \E felled \in MayFall(e, aim), escaped \in SUBSET fleeing :
                /\ escaped \subseteq AbleToFlee(fleeing, felled)
                /\ \E exit \in [escaped -> Room] :
                        ResolveEncounter(e, aim, felled, fleeing, exit)
  BY DEF ResolveNext
<1>2. PICK aim \in [Fighters(e) -> Id \cup {Nobody}], fleeing \in MayFlee(e) :
        \E felled \in MayFall(e, aim), escaped \in SUBSET fleeing :
            /\ escaped \subseteq AbleToFlee(fleeing, felled)
            /\ \E exit \in [escaped -> Room] :
                    ResolveEncounter(e, aim, felled, fleeing, exit)
  BY <1>1
<1>3. PICK felled \in MayFall(e, aim), escaped \in SUBSET fleeing :
        /\ escaped \subseteq AbleToFlee(fleeing, felled)
        /\ \E exit \in [escaped -> Room] : ResolveEncounter(e, aim, felled, fleeing, exit)
  BY <1>2
<1>4. PICK exit \in [escaped -> Room] : ResolveEncounter(e, aim, felled, fleeing, exit)
  BY <1>3
<1>5. fleeing \in SUBSET Fighters(e)
  BY DEF MayFlee, Fleeing
<1>6. DOMAIN exit \subseteq fleeing \ felled
  BY <1>3 DEF AbleToFlee
<1>7. \A c \in DOMAIN exit : exit[c] \in Room
  OBVIOUS
<1>8. QED
  BY <1>4, <1>5, <1>6, <1>7, ResolveEncounterInv

-----------------------------------------------------------------------------
(* The theorems *)

LEMMA InitInv ==
    ASSUME CombatInit
    PROVE  CombatInv
<1>1. /\ IsMap(EmptyMap, Id, Combatant) /\ IsMap(EmptyMap, EncounterId, CombatEncounter)
      /\ IsMap(EmptyMap, Id, EncounterId) /\ IsMap(EmptyMap, Id, QueuedAction)
      /\ DOMAIN EmptyMap = {}
  BY DEF IsMap, EmptyMap
<1>2. NoEvents \in Events /\ NoEvents.defeated = {} /\ NoEvents.fled = {}
  BY DEF NoEvents, Events
<1>3. Fights
  BY <1>1, CombatAssumptions DEF CombatInit, Fights, OneFightEach
<1>4. Ticks /\ Reported
  <2>1. ticking = FALSE
    BY Zenon DEF CombatInit
  <2>2. ticking \in BOOLEAN
    BY <2>1, Zenon
  <2>3. calls \in 0..MaxCalls
    BY CombatAssumptions DEF CombatInit
  <2>4. pending = {} /\ endedEncounterIds = {} /\ events = NoEvents
    BY DEF CombatInit
  <2>5. QED
    BY <1>2, <2>1, <2>2, <2>3, <2>4 DEF Ticks, Reported
<1>5. QED
  BY <1>1, <1>3, <1>4 DEF CombatInit, CombatInv, FightersAreRegistered, ActionsHaveFights

LEMMA CallInv ==
    ASSUME CombatInv, Call
    PROVE  CombatInv' /\ Together
<1>1. CASE \E p \in Player, t \in Id, r \in Room : Attack(p, t, r)
  BY <1>1, AttackInv
<1>2. CASE \E p \in Player, t \in Id : AttackAnother(p, t) \/ Target(p, t)
  BY <1>2, AttackAnotherInv, TargetInv
<1>3. CASE \E c \in Id : \E action \in PlainActions(c) : SubmitAction(c, action)
  BY <1>3, SubmitActionInv
<1>4. CASE \E c \in Creature, p \in Player, r \in Room : CreatureStrike(c, p, r)
  BY <1>4, CreatureStrikeInv
<1>5. CASE \E c \in Creature, p \in Player, r \in Room, ticks \in 1..WIND_UP_TICKS :
                CreatureTelegraph(c, p, r, ticks)
  BY <1>5, CreatureTelegraphInv
<1>6. CASE \E p \in Player, r \in Room : Rise(p, r) \/ UpdateCombatantRoom(p, r)
  BY <1>6, RiseInv, UpdateCombatantRoomInv
<1>7. CASE \E c \in Id : RemoveCombatant(c)
  BY <1>7, RemoveCombatantInv
<1>8. QED
  BY <1>1, <1>2, <1>3, <1>4, <1>5, <1>6, <1>7 DEF Call

LEMMA StepInv ==
    ASSUME CombatInv, [CombatNext]_combatVars
    PROVE  CombatInv' /\ Together
<1>1. CASE Call
  BY <1>1, CallInv
<1>2. CASE StartTick
  BY <1>2, StartTickInv
<1>3. CASE ResolveNext
  BY <1>3, ResolveNextInv
<1>4. CASE FinishTick
  BY <1>4, FinishTickInv
<1>5. CASE UNCHANGED combatVars
  <2>1. /\ UNCHANGED <<combatants, queuedActions, endedEncounterIds, pending, events>>
        /\ UNCHANGED <<encounters, combatantEncounter, nextEncounterId, ticking, calls>>
    BY <1>5 DEF combatVars
  <2>2. Fights' /\ Ticks' /\ Reported' /\ FightersAreRegistered' /\ ActionsHaveFights'
    BY <2>1 DEF CombatInv, Fights, OneFightEach, Ticks, Reported,
                FightersAreRegistered, ActionsHaveFights
  <2>3. \A e \in DOMAIN encounters : Sound(e)' <=> Sound(e)
    BY <2>1 DEF Sound
  <2>4. QED
    BY <2>1, <2>2, <2>3 DEF CombatInv, Together
<1>6. QED
  BY <1>1, <1>2, <1>3, <1>4, <1>5 DEF CombatNext

\* CombatInv holds in every state: it does at the start, and every call of
\* the combat system and every step of a tick preserves it.
THEOREM CombatInvariant == CombatSpec => []CombatInv
<1>1. CombatInv /\ [CombatNext]_combatVars => CombatInv'
  BY StepInv
<1>2. QED
  BY <1>1, InitInv, PTL DEF CombatSpec

\* The maps of the combat system hold what their types say, and a tick only
\* works on encounters there are.
THEOREM CombatTypes == CombatSpec => []CombatTypeOK
<1>1. CombatInv => CombatTypeOK
  BY InvImplies
<1>2. QED
  BY <1>1, CombatInvariant, PTL

\* Member sets and combatantEncounter agree, through every join, merge,
\* flight, defeat, departure and clean-up.
THEOREM OneFight == CombatSpec => []OneFightEach
<1>1. CombatInv => OneFightEach
  BY InvImplies
<1>2. QED
  BY <1>1, CombatInvariant, PTL

\* A clean-up never unregisters somebody who still fights.
THEOREM RecordsOfFighters == CombatSpec => []FightersAreRegistered
<1>1. CombatInv => FightersAreRegistered
  BY InvImplies
<1>2. QED
  BY <1>1, CombatInvariant, PTL

\* A queued action always belongs to somebody who fights: whatever takes a
\* combatant out of its fight takes its action along.
THEOREM ActionsOfFighters == CombatSpec => []ActionsHaveFights
<1>1. CombatInv => ActionsHaveFights
  BY InvImplies
<1>2. QED
  BY <1>1, CombatInvariant, PTL

\* No tick and no departure leaves a fight with fewer than two members.
THEOREM FightsHaveTwo == CombatSpec => []NobodyFightsAlone
<1>1. CombatInv => NobodyFightsAlone
  BY InvImplies
<1>2. QED
  BY <1>1, CombatInvariant, PTL

\* A tick reports nobody as both defeated and fled, in however many
\* encounters it was struck.
THEOREM FallOrFlee == CombatSpec => []NobodyFallsAndFlees
<1>1. CombatInv => NobodyFallsAndFlees
  BY InvImplies
<1>2. QED
  BY <1>1, CombatInvariant, PTL

\* Those who share a fight share it after every step, if they still fight: a
\* merge moves all of one side.
THEOREM Company == CombatSpec => CompanyStays
<1>1. CombatInv /\ [CombatNext]_combatVars =>
        [\A c, d \in DOMAIN combatantEncounter \cap DOMAIN combatantEncounter' :
            combatantEncounter[c] = combatantEncounter[d]
                => combatantEncounter'[c] = combatantEncounter'[d]]_combatVars
  BY StepInv DEF Together
<1>2. QED
  BY <1>1, CombatInvariant, PTL DEF CombatSpec, CompanyStays
=============================================================================
