----------------------------- MODULE PlayerLife -----------------------------
(***************************************************************************)
(* A player's life in one ZoneRoom: sessions, combat, downing and death.   *)
(*                                                                         *)
(* The room is single-threaded; what interleaves is the simulation tick,   *)
(* the command handlers, and the continuations of onLeave and of           *)
(* handlePlayerDeath, each of which awaits saves, a reconnection or a      *)
(* timer and then goes on with what it remembers.  Every stretch of code   *)
(* between two awaits is one action.                                       *)
(*                                                                         *)
(* CombatSystem is external to this module: `fighting` says who is in an   *)
(* encounter and in which room; who is hit, flees or falls in a tick is    *)
(* any choice the tick parameters allow.  The zone is persistent (isZone)  *)
(* and permadeath is off, the defaults.                                    *)
(***************************************************************************)
EXTENDS Downing

CONSTANTS
    SandboxRoom,      \* arena rooms, where nobody goes down
    MaxSessions       \* bound: player -> how many times it connects

ASSUME LifeAssumptions ==
    /\ SandboxRoom \subseteq Room
    /\ MaxSessions \in [Player -> Nat]

VARIABLES
    players,            \* map: player -> currentRoomId
    link,               \* the player's client
    sessions,           \* how many sessions the player has begun
    fighting,           \* map: combatant player -> room of the combatant
    downedPlayers,      \* DowningSystem
    stabilizeChannels,  \* DowningSystem
    pending,            \* pendingDeathTeleport
    leaves,             \* onLeave calls that are suspended
    deaths              \* handlePlayerDeath calls that are suspended

downingVars == <<downedPlayers, stabilizeChannels>>
vars == <<players, link, sessions, fighting, downedPlayers, stabilizeChannels,
          pending, leaves, deaths>>

\* on      connected, its session in playerIds
\* orphan  connected, its session no longer in playerIds
\* away    not connected
\* cut     not connected, and a session waiting to come back lost its entry
Link == {"on", "orphan", "away", "cut"}

\* waiting  in allowReconnection;  closing  saving before the removal.
\* A second suspended call of the same player at the same stage is merged
\* with the first (bound).
LeaveTask == [who : Player, stage : {"waiting", "closing"}]

\* saving    up to the death-count update    locating  reading the last inn
\* teleport  the three-second timer          exiting   saving the profile
\* closing   saving, for a player whose client was not found
DeathTask ==
    [who : Player,
     stage : {"saving", "locating", "teleport", "exiting", "closing"}]

Waiting(p) == [who |-> p, stage |-> "waiting"]
Closing(p) == [who |-> p, stage |-> "closing"]
Dying(p, stage) == [who |-> p, stage |-> stage]

Present == DOMAIN players
Fighters == DOMAIN fighting
IsDowned(p) == p \in DOMAIN downedPlayers

Init ==
    /\ players = EmptyMap
    /\ link = [p \in Player |-> "away"]
    /\ sessions = [p \in Player |-> 0]
    /\ fighting = EmptyMap
    /\ downedPlayers = EmptyMap
    /\ stabilizeChannels = EmptyMap
    /\ pending = {}
    /\ leaves = {}
    /\ deaths = {}

-----------------------------------------------------------------------------
(* Pieces the handlers share                                               *)

\* DowningSystem.removePlayer.
LeaveDowning(p) ==
    /\ downedPlayers' = Without(downedPlayers, {p})
    /\ stabilizeChannels' = Without(stabilizeChannels,
            {p} \cup ChannelsOn(stabilizeChannels, {p}))

\* CombatSystem.removeCombatant; it may end the encounter for others there.
LeaveCombat(p) ==
    \E others \in SUBSET {q \in Fighters : p \in Fighters /\ fighting[q] = fighting[p]} :
        fighting' = Without(fighting, {p} \cup others)

\* Mutant: the mark is not cleaned up.
ForgetButMark(p) ==
    /\ players' = Without(players, {p})
    /\ UNCHANGED pending

\* players.delete with cleanupPlayerCaches.
Forget(p) ==
    /\ players' = Without(players, {p})
    /\ pending' = pending \ {p}

Connected(p) == link[p] \in {"on", "orphan"}

\* A command reaches its handler: the client's player is here and not downed.
MayCommand(p) ==
    /\ link[p] = "on"
    /\ p \in Present
    /\ ~IsDowned(p)

-----------------------------------------------------------------------------
(* Sessions                                                                *)

\* A new client of p is connected and mapped.
NewSession(p) ==
    /\ sessions[p] < MaxSessions[p]
    /\ sessions' = [sessions EXCEPT ![p] = @ + 1]
    /\ link' = [link EXCEPT ![p] = "on"]

\* onJoin of a player the room does not have.
Join(p, r) ==
    /\ p \notin Present
    /\ ~Connected(p)
    /\ NewSession(p)
    /\ players' = Put(players, p, r)
    /\ UNCHANGED <<fighting, downingVars, pending, leaves, deaths>>

\* onJoin of a player the room still has (a browser refresh, or a return while
\* the previous session waits or is being closed): the old session's entry
\* goes, and a fresh PlayerState takes the old one's room.
Refresh(p) ==
    /\ p \in Present
    /\ NewSession(p)
    /\ UNCHANGED <<players, fighting, downingVars, pending, leaves, deaths>>

\* onLeave after a connection loss, up to allowReconnection.
Drop(p) ==
    /\ link[p] = "on"
    /\ Waiting(p) \notin leaves
    /\ link' = [link EXCEPT ![p] = "away"]
    /\ leaves' = leaves \cup {Waiting(p)}
    /\ UNCHANGED <<sessions, players, fighting, downingVars, pending, deaths>>

\* The same session comes back in time.
Reconnect(p) ==
    /\ Waiting(p) \in leaves
    /\ ~Connected(p)
    /\ link' = [link EXCEPT ![p] = IF @ = "cut" THEN "orphan" ELSE "on"]
    /\ leaves' = leaves \ {Waiting(p)}
    /\ UNCHANGED <<sessions, players, fighting, downingVars, pending, deaths>>

\* The clean-up onLeave begins for p: out of the downing system, then the
\* saves if the room still has the player.
BeginClose(p, others) ==
    /\ LeaveDowning(p)
    /\ leaves' = others \cup IF p \in Present THEN {Closing(p)} ELSE {}

\* allowReconnection gives up.  A downed player is left to bleed.
Timeout(p) ==
    /\ Waiting(p) \in leaves
    /\ \/ IsDowned(p) /\ leaves' = leaves \ {Waiting(p)} /\ UNCHANGED downingVars
       \/ ~IsDowned(p) /\ BeginClose(p, leaves \ {Waiting(p)})
    /\ UNCHANGED <<sessions, players, link, fighting, pending, deaths>>

\* onLeave with code 4000: the player left the game or follows a ROOM_SWITCH.
\* It is nothing to the room when the session is no longer mapped.
Leave(p) ==
    /\ \/ link[p] = "on" /\ BeginClose(p, leaves)
       \/ link[p] = "orphan" /\ UNCHANGED <<downingVars, leaves>>
    /\ link' = [link EXCEPT ![p] = "away"]
    /\ UNCHANGED <<sessions, players, fighting, pending, deaths>>

\* The saves are done: whoever is in players under this id is removed.
Close(p) ==
    /\ Closing(p) \in leaves
    /\ leaves' = leaves \ {Closing(p)}
    /\ Forget(p)
    /\ LeaveCombat(p)
    /\ UNCHANGED <<sessions, link, downingVars, deaths>>

-----------------------------------------------------------------------------
(* Commands                                                                *)

\* go: refused in combat.  Followers in the room come along, in combat or not,
\* unless downed; combatants' rooms are kept in step.
Move(p, r, followers) ==
    /\ MayCommand(p)
    /\ p \notin Fighters
    /\ r # players[p]
    /\ \A q \in followers : players[q] = players[p] /\ ~IsDowned(q)
    /\ LET moved == {p} \cup followers
       IN  /\ players' = [q \in Present |-> IF q \in moved THEN r ELSE players[q]]
           /\ fighting' = [q \in Fighters |-> IF q \in moved THEN r ELSE fighting[q]]
    /\ UNCHANGED <<sessions, link, downingVars, pending, leaves, deaths>>

\* attack on a creature (targets empty) or on another player in the room, who
\* is registered as a combatant when there is none.  In combat it only
\* redirects the blows.
Attack(p, targets) ==
    /\ MayCommand(p)
    /\ p \notin Fighters
    /\ \A q \in targets :
          /\ players[q] = players[p]
          /\ q \in Fighters => fighting[q] = players[p]
    /\ fighting' = [q \in Fighters \cup {p} \cup targets |->
                        IF q \in Fighters THEN fighting[q] ELSE players[p]]
    /\ UNCHANGED <<sessions, players, link, downingVars, pending, leaves, deaths>>

\* stabilize, with a bandage in the pack.
Stabilize(s, t) ==
    /\ MayCommand(s)
    /\ MayStabilize(downedPlayers, stabilizeChannels, s, t)
    /\ downedPlayers[t].room = players[s]
    /\ stabilizeChannels' = Put(stabilizeChannels, s,
            [target |-> t, ticks |-> STABILIZE_CHANNEL_TICKS])
    /\ UNCHANGED <<sessions, players, link, fighting, downedPlayers, pending, leaves, deaths>>

-----------------------------------------------------------------------------
(* The simulation tick                                                     *)

\* Creatures see players that are neither downed nor waiting for a teleport.
SeenByCreatures == {p \in Present : ~IsDowned(p) /\ p \notin pending}

\* The calls handlePlayerDeath makes before its first await, for each of ps.
StartDeaths(ps) ==
    /\ pending' = pending \cup (ps \cap Present)
    /\ deaths' = deaths \cup {Dying(p, "saving") : p \in ps \cap Present}

\* Mutant: an early return for a player who is gone.
RevivedIfPresent(d, saved) == Without(d, saved \cap Present)

\* handlePlayerStabilized takes the saved out of the downing system, whether or
\* not the room still has the player.
RevivedDowned(d, saved) == Without(d, saved)

\* One update():
\*   joined    players the creatures attack
\*   fallen    combatants brought to 0 HP
\*   gone      combatants whose encounter ends or who flee, with where they are
\*   strikes   rooms where a blow was struck
\*   rejoined  revived players put back into a fight
\* A player's death comes to its end before the next one is caused (bound).
Tick(joined, fallen, gone, strikes, rejoined) ==
    LET combatants == Fighters \cup joined
        at         == [q \in combatants |->
                        IF q \in Fighters THEN fighting[q] ELSE players[q]]
        \* checkKillingBlows
        killed     == {p \in Killable(downedPlayers) : downedPlayers[p].room \in strikes}
        down1      == Without(downedPlayers, killed)
        chan1      == Without(stabilizeChannels, ChannelsOn(stabilizeChannels, killed))
        \* handlePlayerDefeats
        felled     == {p \in fallen \cap Present : players[p] \notin SandboxRoom}
        down2      == [p \in DOMAIN down1 \cup felled |->
                        IF p \in felled THEN FreshlyDowned(players[p]) ELSE down1[p]]
        \* tickDowningSystem
        saved      == Saved(down2, chan1)
        bledOut    == BledOut(down2, chan1)
        chan2      == TickChannels(down2, chan1)
        \* deliverCombatResults moves those who fled
        fled       == DOMAIN gone \cap Present
        fightOn    == [q \in (combatants \ (fallen \cup DOMAIN gone)) \cup rejoined |->
                        IF q \in rejoined THEN down2[q].room ELSE at[q]]
    IN  /\ joined \subseteq SeenByCreatures \ Fighters
        /\ fallen \subseteq combatants
        /\ DOMAIN gone \subseteq combatants \ fallen
        /\ strikes \subseteq {at[q] : q \in combatants}
        /\ \A t \in deaths : t.who \notin killed \cup bledOut
        /\ rejoined \subseteq saved \cap Present
        /\ \A p \in rejoined :
              \E q \in combatants \ (fallen \cup DOMAIN gone) : at[q] = down2[p].room
        /\ players' = [q \in Present |-> IF q \in fled THEN gone[q] ELSE players[q]]
        /\ fighting' = fightOn
        /\ downedPlayers' = RevivedDowned(TickDowned(down2, chan1), saved)
        /\ stabilizeChannels' = Without(chan2, saved \cup ChannelsOn(chan2, saved))
        /\ StartDeaths(killed \cup bledOut)
        /\ UNCHANGED <<sessions, link, leaves>>

TickAny ==
    \E joined \in SUBSET (SeenByCreatures \ Fighters) :
    \E fallen \in SUBSET (Fighters \cup joined) :
    \E out \in SUBSET ((Fighters \cup joined) \ fallen) :
    \E gone \in [out -> Room] :
    \E strikes \in SUBSET Room :
    \E rejoined \in SUBSET DOMAIN downedPlayers :
        Tick(joined, fallen, gone, strikes, rejoined)

-----------------------------------------------------------------------------
(* handlePlayerDeath after its first await                                 *)

\* The task t moves on to stage.
Advance(t, stage) == deaths' = (deaths \ {t}) \cup {Dying(t.who, stage)}

\* findClient: by the first session of the player in playerIds, which may be
\* one that waits to come back while the player is here with another.
ClientFound(p) ==
    IF Waiting(p) \in leaves /\ link[p] = "on" THEN BOOLEAN ELSE {link[p] = "on"}

\* The death is recorded; findClient decides between the two endings.
DeathRecorded(t) ==
    /\ t.stage = "saving"
    /\ \E found \in ClientFound(t.who) :
          Advance(t, IF found THEN "locating" ELSE "closing")
    /\ UNCHANGED <<sessions, players, link, fighting, downingVars, pending, leaves>>

\* The respawn target is known: overlay, timer, and out of combat and downing.
TeleportScheduled(t) ==
    /\ t.stage = "locating"
    /\ Advance(t, "teleport")
    /\ LeaveDowning(t.who)
    /\ LeaveCombat(t.who)
    /\ UNCHANGED <<sessions, players, link, pending, leaves>>

\* Mutant: the timer looks for the client instead of the player.
TeleportIfConnected(t) ==
    /\ t.stage = "teleport"
    /\ IF link[t.who] = "on"
       THEN Advance(t, "exiting")
       ELSE deaths' = deaths \ {t}
    /\ UNCHANGED <<sessions, players, link, fighting, downingVars, pending, leaves>>

\* The timer fires; it checks no more than that the room has a player so named.
TeleportDue(t) ==
    /\ t.stage = "teleport"
    /\ IF t.who \in Present
       THEN Advance(t, "exiting")
       ELSE deaths' = deaths \ {t}
    /\ UNCHANGED <<sessions, players, link, fighting, downingVars, pending, leaves>>

\* The client is sent its ROOM_SWITCH and the player is removed.
TeleportDone(t) ==
    /\ t.stage = "exiting"
    /\ deaths' = deaths \ {t}
    /\ Forget(t.who)
    /\ UNCHANGED <<sessions, link, fighting, downingVars, leaves>>

\* Died with no client: removed from everything once saved, playerIds included.
DeathClosed(t) ==
    /\ t.stage = "closing"
    /\ deaths' = deaths \ {t}
    /\ Forget(t.who)
    /\ link' = [link EXCEPT ![t.who] = IF Connected(t.who) THEN "orphan" ELSE "cut"]
    /\ LeaveDowning(t.who)
    /\ LeaveCombat(t.who)
    /\ UNCHANGED <<sessions, leaves>>

DeathStep(t) ==
    \/ DeathRecorded(t)
    \/ TeleportScheduled(t)
    \/ TeleportDue(t)
    \/ TeleportDone(t)
    \/ DeathClosed(t)

DeathsOf(p) == \E t \in deaths : t.who = p /\ DeathStep(t)

-----------------------------------------------------------------------------

Others(p) == Present \ {p}

Next ==
    \/ \E p \in Player, r \in Room : Join(p, r)
    \/ \E p \in Player : Refresh(p)
    \/ \E p \in Player : Drop(p)
    \/ \E p \in Player : Reconnect(p)
    \/ \E p \in Player : Timeout(p)
    \/ \E p \in Player : Leave(p)
    \/ \E p \in Player : Close(p)
    \/ \E p \in Player, r \in Room : \E fs \in SUBSET Others(p) : Move(p, r, fs)
    \/ \E p \in Player : \E ts \in {{}} \cup {{q} : q \in Others(p)} : Attack(p, ts)
    \/ \E s \in Player, t \in Player : Stabilize(s, t)
    \/ TickAny
    \/ \E p \in Player : DeathsOf(p)

\* Awaited saves settle and timers fire.
Fairness == \A p \in Player : WF_vars(DeathsOf(p)) /\ WF_vars(Close(p))

Spec == Init /\ [][Next]_vars /\ Fairness

-----------------------------------------------------------------------------
(* Properties that hold                                                    *)

\* Every map and set holds well-formed entries.
TypeOK ==
    /\ IsMap(players, Player, Room)
    /\ link \in [Player -> Link]
    /\ sessions \in [Player -> Nat]
    /\ \A p \in Player : sessions[p] <= MaxSessions[p]
    /\ IsMap(fighting, Player, Room)
    /\ IsMap(downedPlayers, Player, DownedPlayer)
    /\ IsMap(stabilizeChannels, Player, StabilizeChannel)
    /\ pending \subseteq Player
    /\ leaves \subseteq LeaveTask
    /\ deaths \subseteq DeathTask

\* The mark that hides a dying player from creatures never sticks: whoever
\* bears it is in the room, with a handlePlayerDeath call still to finish that
\* will take it off.
MarkedForDeathHaveDeath ==
    \A p \in pending : p \in Present /\ \E t \in deaths : t.who = p

\* Between ticks a downing record is a bleeding one: a rescue is completed,
\* record removed, in the tick that completes the channel, even for a patient
\* who is gone.
RecordsBleed ==
    \A p \in DOMAIN downedPlayers : downedPlayers[p].state = "downed"

\* A player's life as LifeCycle sees it.
StatusOf(p) ==
    IF p \notin Present THEN "absent"
    ELSE IF p \in pending THEN "dying"
    ELSE IF IsDowned(p) THEN "downed"
    ELSE "up"

Life == INSTANCE LifeCycle WITH status <- [p \in Player |-> StatusOf(p)]

\* ZoneRoom implements LifeCycle: through disconnections, refreshes and
\* late timers, only the downed come to die, the dying stay so until they are
\* out of the room, and they do get out.
ImplementsLifeCycle == Life!Spec

-----------------------------------------------------------------------------
(* What documents and comments say, and the code does not do               *)

\* onLeave gives up on a downed player because "DowningSystem handles death +
\* cleanup".  A rescue leaves the player standing, with nobody to come back and
\* nothing to remove it.
AbandonedAreCleanedUp ==
    \A p \in Present :
        \/ Connected(p)
        \/ Waiting(p) \in leaves \/ Closing(p) \in leaves
        \/ IsDowned(p)
        \/ \E t \in deaths : t.who = p
=============================================================================
