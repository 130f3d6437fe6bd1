--------------------------- MODULE PlayerLifeProofs ---------------------------
(***************************************************************************)
(* For any players, rooms, numbers of sessions and tick constants that     *)
(* satisfy TickConstants: the room's maps stay well-typed, a death mark    *)
(* has a death that will lift it, downing records bleed, and every step of *)
(* the room is a step of LifeCycle, or none, in the life of each player.   *)
(*                                                                         *)
(* LifeInv is inductive.  The refinement needs it: one who joins must not  *)
(* bear the mark of an earlier stay.                                       *)
(***************************************************************************)
EXTENDS PlayerLife, TLAPS

DowningOK ==
    /\ IsMap(downedPlayers, Player, DownedPlayer)
    /\ IsMap(stabilizeChannels, Player, StabilizeChannel)
    /\ RecordsBleed

SessionsOK ==
    /\ link \in [Player -> Link]
    /\ sessions \in [Player -> Nat]
    /\ \A p \in Player : sessions[p] <= MaxSessions[p]
    /\ leaves \subseteq LeaveTask

DeathsOK ==
    /\ pending \subseteq Player
    /\ deaths \subseteq DeathTask
    /\ MarkedForDeathHaveDeath

LifeInv ==
    /\ IsMap(players, Player, Room)
    /\ IsMap(fighting, Player, Room)
    /\ DowningOK
    /\ SessionsOK
    /\ DeathsOK

\* The properties follow.
LEMMA InvImplies ==
    ASSUME LifeInv
    PROVE  TypeOK /\ MarkedForDeathHaveDeath /\ RecordsBleed
BY DEF LifeInv, DowningOK, SessionsOK, DeathsOK, TypeOK

-----------------------------------------------------------------------------
(* What DowningSystem.tick makes of typed maps                             *)

\* The fields of a downing record.
LEMMA RecordFields ==
    ASSUME NEW rec \in DownedPlayer
    PROVE  /\ rec.state \in {"downed", "stabilized"} /\ rec.room \in Room
           /\ rec.bleed \in 1..BLEED_OUT_TICKS /\ rec.grace \in 0..GRACE_TICKS
BY DEF DownedPlayer

\* downPlayer writes a typed record.
LEMMA FreshlyDownedType ==
    ASSUME NEW r \in Room
    PROVE  FreshlyDowned(r) \in DownedPlayer
BY TickConstants DEF FreshlyDowned, DownedPlayer

\* A record that does not run out keeps its type while it bleeds.
LEMMA BleedType ==
    ASSUME NEW rec \in DownedPlayer, rec.bleed > 1
    PROVE  Bleed(rec) \in DownedPlayer
<1>1. /\ rec.bleed - 1 \in 1..BLEED_OUT_TICKS
      /\ (IF rec.grace > 0 THEN rec.grace - 1 ELSE 0) \in 0..GRACE_TICKS
  BY RecordFields, TickConstants
<1>2. QED
  BY <1>1, RecordFields DEF Bleed, DownedPlayer

\* The records of the downed after a tick, and whose they are.
LEMMA TickDownedType ==
    ASSUME NEW d, IsMap(d, Player, DownedPlayer), NEW c
    PROVE  /\ IsMap(TickDowned(d, c), Player, DownedPlayer)
           /\ DOMAIN TickDowned(d, c) = DOMAIN d \ BledOut(d, c)
           /\ \A p \in DOMAIN d \ (BledOut(d, c) \cup Saved(d, c)) :
                TickDowned(d, c)[p].state = d[p].state
<1> DEFINE out == TickDowned(d, c)
<1>1. DOMAIN out = DOMAIN d \ BledOut(d, c) /\ out = [p \in DOMAIN out |-> out[p]]
  BY DEF TickDowned
<1>2. DOMAIN d \subseteq Player /\ \A p \in DOMAIN d : d[p] \in DownedPlayer
  BY DEF IsMap
<1>3. ASSUME NEW p \in DOMAIN out
      PROVE  /\ out[p] \in DownedPlayer
             /\ p \notin Saved(d, c) => out[p].state = d[p].state
  <2>1. p \in DOMAIN d /\ p \notin BledOut(d, c) /\ d[p] \in DownedPlayer
    BY <1>1, <1>2, <1>3
  <2>2. CASE p \in Saved(d, c)
    <3>1. out[p] = [d[p] EXCEPT !.state = "stabilized"]
      BY <1>1, <1>3, <2>2 DEF TickDowned
    <3>2. QED
      BY <2>1, <2>2, <3>1 DEF DownedPlayer
  <2>3. CASE p \notin Saved(d, c) /\ p \in Bleeding(d, c)
    <3>1. out[p] = Bleed(d[p])
      BY <1>1, <1>3, <2>3 DEF TickDowned
    <3>2. d[p].bleed > 1
      BY <2>1, <2>3, RecordFields, TickConstants DEF BledOut
    <3>3. QED
      BY <2>1, <3>1, <3>2, BleedType DEF Bleed
  <2>4. CASE p \notin Saved(d, c) /\ p \notin Bleeding(d, c)
    BY <1>1, <1>3, <2>1, <2>4 DEF TickDowned
  <2>5. QED
    BY <2>2, <2>3, <2>4
<1>4. IsMap(out, Player, DownedPlayer)
  BY <1>1, <1>2, <1>3 DEF IsMap
<1>5. QED
  BY <1>1, <1>3, <1>4

\* The channels after a tick.
LEMMA TickChannelsType ==
    ASSUME NEW d, NEW c, IsMap(c, Player, StabilizeChannel)
    PROVE  IsMap(TickChannels(d, c), Player, StabilizeChannel)
<1> DEFINE out == TickChannels(d, c)
<1>1. /\ out = [s \in DOMAIN out |-> out[s]]
      /\ DOMAIN out \subseteq DOMAIN c \ Completing(c)
  BY DEF TickChannels
<1>2. DOMAIN c \subseteq Player /\ \A s \in DOMAIN c : c[s] \in StabilizeChannel
  BY DEF IsMap
<1>3. ASSUME NEW s \in DOMAIN out PROVE out[s] \in StabilizeChannel
  <2>1. s \in DOMAIN c /\ s \notin Completing(c) /\ c[s] \in StabilizeChannel
    BY <1>1, <1>2, <1>3
  <2>2. c[s].ticks \in 1..STABILIZE_CHANNEL_TICKS /\ c[s].ticks > 1
    BY <2>1, TickConstants DEF Completing, StabilizeChannel
  <2>3. out[s] = [c[s] EXCEPT !.ticks = @ - 1]
    BY <1>3 DEF TickChannels
  <2>4. QED
    BY <2>1, <2>2, <2>3, TickConstants DEF StabilizeChannel
<1>4. QED
  BY <1>1, <1>2, <1>3 DEF IsMap

-----------------------------------------------------------------------------
(* The pieces the handlers share                                           *)

\* DowningSystem.removePlayer, with whatever keys.
LEMMA WithoutDowned ==
    ASSUME LifeInv, NEW S, NEW T,
           downedPlayers' = Without(downedPlayers, S),
           stabilizeChannels' = Without(stabilizeChannels, T)
    PROVE  DowningOK'
<1>1. /\ IsMap(downedPlayers, Player, DownedPlayer)' 
      /\ IsMap(stabilizeChannels, Player, StabilizeChannel)'
  BY DEF LifeInv, DowningOK, IsMap, Without
<1>2. /\ DOMAIN downedPlayers' = DOMAIN downedPlayers \ S
      /\ \A p \in DOMAIN downedPlayers \ S : downedPlayers'[p] = downedPlayers[p]
  BY DEF Without
<1>3. RecordsBleed'
  BY <1>2 DEF LifeInv, DowningOK, RecordsBleed
<1>4. QED
  BY <1>1, <1>3 DEF DowningOK

LEMMA LeaveDowningStep ==
    ASSUME LifeInv, NEW p, LeaveDowning(p)
    PROVE  DowningOK'
BY WithoutDowned DEF LeaveDowning

LEMMA LeaveCombatStep ==
    ASSUME LifeInv, NEW p, LeaveCombat(p)
    PROVE  IsMap(fighting, Player, Room)'
BY DEF LifeInv, LeaveCombat, IsMap, Without

\* A closing takes the mark together with the player, and the only death that
\* may go at once is that player's.
LEMMA ForgetStep ==
    ASSUME LifeInv, NEW p, Forget(p),
           deaths' \subseteq deaths,
           \A t \in deaths \ deaths' : t.who = p
    PROVE  IsMap(players, Player, Room)' /\ DeathsOK'
<1>1. IsMap(players, Player, Room)'
  BY DEF LifeInv, Forget, IsMap, Without
<1>2. Present' = Present \ {p} /\ pending' = pending \ {p}
  BY DEF Forget, Present, Without
<1>3. ASSUME NEW q \in pending'
      PROVE  q \in Present' /\ \E t \in deaths' : t.who = q
  BY <1>2, <1>3 DEF LifeInv, DeathsOK, MarkedForDeathHaveDeath
<1>4. QED
  BY <1>1, <1>2, <1>3 DEF LifeInv, DeathsOK, MarkedForDeathHaveDeath

\* A death that moves on is still there.
LEMMA AdvanceStep ==
    ASSUME LifeInv, NEW t \in deaths,
           NEW stage \in {"saving", "locating", "teleport", "exiting", "closing"},
           Advance(t, stage), UNCHANGED <<players, pending>>
    PROVE  DeathsOK'
<1>1. t.who \in Player /\ Dying(t.who, stage) \in DeathTask /\ Dying(t.who, stage).who = t.who
  BY DEF LifeInv, DeathsOK, DeathTask, Dying
<1>2. deaths' \subseteq DeathTask
  BY <1>1 DEF LifeInv, DeathsOK, Advance
<1>3. ASSUME NEW u \in deaths PROVE \E v \in deaths' : v.who = u.who
  BY <1>1 DEF Advance
<1>4. Present' = Present
  BY DEF Present
<1>5. QED
  BY <1>2, <1>3, <1>4 DEF LifeInv, DeathsOK, MarkedForDeathHaveDeath

\* What a step leaves alone stays as it is.
LEMMA Untouched ==
    ASSUME LifeInv
    PROVE  /\ UNCHANGED players => IsMap(players, Player, Room)'
           /\ UNCHANGED fighting => IsMap(fighting, Player, Room)'
           /\ UNCHANGED downingVars => DowningOK'
           /\ UNCHANGED <<link, sessions, leaves>> => SessionsOK'
           /\ UNCHANGED <<players, pending, deaths>> => DeathsOK'
BY DEF LifeInv, DowningOK, SessionsOK, DeathsOK, RecordsBleed, MarkedForDeathHaveDeath,
       Present, downingVars

-----------------------------------------------------------------------------
(* Sessions and commands                                                   *)

LEMMA NewSessionStep ==
    ASSUME LifeInv, NEW p \in Player, NewSession(p), UNCHANGED leaves
    PROVE  SessionsOK'
<1>1. link' \in [Player -> Link]
  BY DEF LifeInv, SessionsOK, NewSession, Link
<1>2. /\ sessions' = [sessions EXCEPT ![p] = sessions[p] + 1]
      /\ sessions \in [Player -> Nat] /\ MaxSessions \in [Player -> Nat]
      /\ sessions[p] < MaxSessions[p]
      /\ \A q \in Player : sessions[q] <= MaxSessions[q]
  BY LifeAssumptions DEF LifeInv, SessionsOK, NewSession
<1>3. ASSUME NEW q \in Player
      PROVE  sessions'[q] \in Nat /\ sessions'[q] <= MaxSessions[q]
  <2>1. CASE q = p
    BY <1>2, <2>1
  <2>2. CASE q # p
    BY <1>2, <2>2
  <2>3. QED
    BY <2>1, <2>2
<1>4. sessions' \in [Player -> Nat]
  BY <1>2, <1>3
<1>5. QED
  BY <1>1, <1>3, <1>4 DEF LifeInv, SessionsOK

LEMMA JoinStep ==
    ASSUME LifeInv, NEW p \in Player, NEW r \in Room, Join(p, r)
    PROVE  LifeInv'
<1>1. IsMap(players, Player, Room)'
  BY DEF LifeInv, Join, IsMap, Put
<1>2. SessionsOK'
  BY NewSessionStep DEF Join
<1>3. Present \subseteq Present'
  BY DEF Join, Put, Present
<1>4. DeathsOK'
  BY <1>3 DEF LifeInv, DeathsOK, MarkedForDeathHaveDeath, Join
<1>5. QED
  BY <1>1, <1>2, <1>4, Untouched DEF LifeInv, Join

LEMMA RefreshStep ==
    ASSUME LifeInv, NEW p \in Player, Refresh(p)
    PROVE  LifeInv'
BY NewSessionStep, Untouched DEF LifeInv, Refresh

\* onLeave and the end of allowReconnection.
LEMMA LeaveTasks ==
    ASSUME NEW p \in Player
    PROVE  Waiting(p) \in LeaveTask /\ Closing(p) \in LeaveTask
BY DEF Waiting, Closing, LeaveTask

LEMMA DropStep ==
    ASSUME LifeInv, NEW p \in Player, Drop(p) \/ Reconnect(p)
    PROVE  LifeInv'
<1>1. link' \in [Player -> Link]
  BY DEF LifeInv, SessionsOK, Drop, Reconnect, Link
<1>2. leaves' \subseteq LeaveTask
  BY LeaveTasks DEF LifeInv, SessionsOK, Drop, Reconnect
<1>3. UNCHANGED <<sessions, players, fighting, downingVars, pending, deaths>>
  BY DEF Drop, Reconnect
<1>4. SessionsOK'
  BY <1>1, <1>2, <1>3 DEF LifeInv, SessionsOK
<1>5. QED
  BY <1>3, <1>4, Untouched DEF LifeInv

LEMMA BeginCloseStep ==
    ASSUME LifeInv, NEW p \in Player, NEW others \in SUBSET leaves, BeginClose(p, others)
    PROVE  DowningOK' /\ leaves' \subseteq LeaveTask
BY LeaveDowningStep, LeaveTasks DEF LifeInv, SessionsOK, BeginClose

LEMMA LeaveStep ==
    ASSUME LifeInv, NEW p \in Player, Timeout(p) \/ Leave(p)
    PROVE  LifeInv'
<1>1. DowningOK' /\ leaves' \subseteq LeaveTask
  <2>1. CASE BeginClose(p, leaves) \/ BeginClose(p, leaves \ {Waiting(p)})
    BY <2>1, BeginCloseStep
  <2>2. CASE UNCHANGED downingVars /\ leaves' \subseteq leaves
    BY <2>2, Untouched DEF LifeInv, SessionsOK
  <2>3. QED
    BY <2>1, <2>2 DEF Timeout, Leave
<1>2. link' \in [Player -> Link]
  BY DEF LifeInv, SessionsOK, Timeout, Leave, Link
<1>3. UNCHANGED <<sessions, players, fighting, pending, deaths>>
  BY DEF Timeout, Leave
<1>4. SessionsOK'
  BY <1>1, <1>2, <1>3 DEF LifeInv, SessionsOK
<1>5. QED
  BY <1>1, <1>3, <1>4, Untouched DEF LifeInv

LEMMA CloseStep ==
    ASSUME LifeInv, NEW p \in Player, Close(p)
    PROVE  LifeInv'
<1>1. SessionsOK'
  BY DEF LifeInv, SessionsOK, Close
<1>2. QED
  BY <1>1, ForgetStep, LeaveCombatStep, Untouched DEF LifeInv, Close

LEMMA MoveStep ==
    ASSUME LifeInv, NEW p \in Player, NEW r \in Room, NEW fs \in SUBSET Others(p),
           Move(p, r, fs)
    PROVE  LifeInv'
<1> DEFINE moved == {p} \cup fs
<1>1. /\ players' = [q \in Present |-> IF q \in moved THEN r ELSE players[q]]
      /\ fighting' = [q \in Fighters |-> IF q \in moved THEN r ELSE fighting[q]]
      /\ UNCHANGED <<sessions, link, downingVars, pending, leaves, deaths>>
  BY DEF Move
<1>2. IsMap(players, Player, Room)' /\ Present' = Present
  BY <1>1 DEF LifeInv, IsMap, Present
<1>3. IsMap(fighting, Player, Room)'
  BY <1>1 DEF LifeInv, IsMap, Fighters
<1>4. DeathsOK'
  BY <1>1, <1>2 DEF LifeInv, DeathsOK, MarkedForDeathHaveDeath
<1>5. QED
  BY <1>1, <1>2, <1>3, <1>4, Untouched DEF LifeInv

LEMMA AttackStep ==
    ASSUME LifeInv, NEW p \in Player, NEW ts \in SUBSET Others(p), Attack(p, ts)
    PROVE  LifeInv'
<1>1. /\ fighting' = [q \in Fighters \cup {p} \cup ts |->
                        IF q \in Fighters THEN fighting[q] ELSE players[p]]
      /\ p \in Present
      /\ UNCHANGED <<sessions, players, link, downingVars, pending, leaves, deaths>>
  BY DEF Attack, MayCommand
<1>2. players[p] \in Room /\ Others(p) \subseteq Player
  BY <1>1 DEF LifeInv, Present, Others, IsMap
<1>3. IsMap(fighting, Player, Room)'
  BY <1>1, <1>2 DEF LifeInv, IsMap, Fighters
<1>4. QED
  BY <1>1, <1>3, Untouched DEF LifeInv

LEMMA StabilizeStep ==
    ASSUME LifeInv, NEW s \in Player, NEW t \in Player, Stabilize(s, t)
    PROVE  LifeInv'
<1> DEFINE channel == [target |-> t, ticks |-> STABILIZE_CHANNEL_TICKS]
<1>1. /\ stabilizeChannels' = Put(stabilizeChannels, s, channel)
      /\ UNCHANGED <<sessions, players, link, fighting, downedPlayers, pending, leaves, deaths>>
  BY DEF Stabilize
<1>2. channel \in StabilizeChannel
  BY TickConstants DEF StabilizeChannel
<1>3. IsMap(stabilizeChannels, Player, StabilizeChannel)'
  BY <1>1, <1>2 DEF LifeInv, DowningOK, IsMap, Put
<1>4. DowningOK'
  BY <1>1, <1>3 DEF LifeInv, DowningOK, RecordsBleed
<1>5. QED
  BY <1>1, <1>4, Untouched DEF LifeInv

-----------------------------------------------------------------------------
(* The tick                                                                *)

\* The maps and sets that Tick names on its way.
TickKilled(strikes) == {p \in Killable(downedPlayers) : downedPlayers[p].room \in strikes}
TickDown1(strikes) == Without(downedPlayers, TickKilled(strikes))
TickChan1(strikes) ==
    Without(stabilizeChannels, ChannelsOn(stabilizeChannels, TickKilled(strikes)))
TickFelled(fallen) == {p \in fallen \cap Present : players[p] \notin SandboxRoom}
TickDown2(fallen, strikes) ==
    [p \in DOMAIN TickDown1(strikes) \cup TickFelled(fallen) |->
        IF p \in TickFelled(fallen) THEN FreshlyDowned(players[p])
        ELSE TickDown1(strikes)[p]]
TickSaved(fallen, strikes) == Saved(TickDown2(fallen, strikes), TickChan1(strikes))
TickBledOut(fallen, strikes) == BledOut(TickDown2(fallen, strikes), TickChan1(strikes))
TickChan2(fallen, strikes) == TickChannels(TickDown2(fallen, strikes), TickChan1(strikes))

\* Whoever the combatants of a tick are, each is somewhere.
TickAt(joined) ==
    [q \in Fighters \cup joined |-> IF q \in Fighters THEN fighting[q] ELSE players[q]]

\* Tick, said with these names.
LEMMA TickParts ==
    ASSUME NEW joined, NEW fallen, NEW gone, NEW strikes, NEW rejoined,
           Tick(joined, fallen, gone, strikes, rejoined)
    PROVE  LET down2 == TickDown2(fallen, strikes)
               chan1 == TickChan1(strikes)
               chan2 == TickChan2(fallen, strikes)
               saved == TickSaved(fallen, strikes)
               on    == ((Fighters \cup joined) \ (fallen \cup DOMAIN gone)) \cup rejoined
           IN  /\ joined \subseteq SeenByCreatures
               /\ rejoined \subseteq saved
               /\ players' = [q \in Present |->
                    IF q \in DOMAIN gone \cap Present THEN gone[q] ELSE players[q]]
               /\ fighting' = [q \in on |->
                    IF q \in rejoined THEN down2[q].room ELSE TickAt(joined)[q]]
               /\ downedPlayers' = RevivedDowned(TickDowned(down2, chan1), saved)
               /\ stabilizeChannels' = Without(chan2, saved \cup ChannelsOn(chan2, saved))
               /\ StartDeaths(TickKilled(strikes) \cup TickBledOut(fallen, strikes))
               /\ UNCHANGED <<sessions, link, leaves>>
BY DEF Tick, TickDown2, TickChan1, TickChan2, TickSaved, TickBledOut, TickFelled, TickDown1,
       TickKilled, TickAt

\* The records after the blows and the falls of a tick: typed, bleeding, and
\* the fresh ones in no danger to run out.
LEMMA TickRecords ==
    ASSUME LifeInv, NEW fallen, NEW strikes
    PROVE  LET down2 == TickDown2(fallen, strikes)
           IN  /\ IsMap(down2, Player, DownedPlayer)
               /\ \A p \in DOMAIN down2 : down2[p].state = "downed"
               /\ TickKilled(strikes) \cup TickBledOut(fallen, strikes)
                    \subseteq DOMAIN downedPlayers
<1> DEFINE down1  == TickDown1(strikes)
           felled == TickFelled(fallen)
           down2  == TickDown2(fallen, strikes)
<1>1. /\ DOMAIN down1 \subseteq DOMAIN downedPlayers
      /\ \A p \in DOMAIN down1 : down1[p] = downedPlayers[p]
  BY DEF TickDown1, Without
<1>2. /\ DOMAIN downedPlayers \subseteq Player
      /\ \A p \in DOMAIN downedPlayers :
            downedPlayers[p] \in DownedPlayer /\ downedPlayers[p].state = "downed"
  BY DEF LifeInv, DowningOK, RecordsBleed, IsMap
<1>3. felled \subseteq Player /\ \A p \in felled : players[p] \in Room
  BY DEF LifeInv, TickFelled, Present, IsMap
<1>4. /\ DOMAIN down2 = DOMAIN down1 \cup felled
      /\ down2 = [p \in DOMAIN down2 |-> down2[p]]
      /\ \A p \in DOMAIN down2 :
            down2[p] = IF p \in felled THEN FreshlyDowned(players[p]) ELSE down1[p]
  BY DEF TickDown2
<1>5. ASSUME NEW p \in DOMAIN down2
      PROVE  /\ down2[p] \in DownedPlayer /\ down2[p].state = "downed"
             /\ down2[p].bleed <= 1 => p \in DOMAIN downedPlayers
  <2>1. CASE p \in felled
    <3>1. down2[p] = FreshlyDowned(players[p]) /\ players[p] \in Room
      BY <1>3, <1>4, <1>5, <2>1
    <3>2. down2[p].state = "downed" /\ down2[p].bleed = BLEED_OUT_TICKS
      BY <3>1 DEF FreshlyDowned
    <3>3. QED
      BY <3>1, <3>2, FreshlyDownedType, TickConstants
  <2>2. CASE p \notin felled
    BY <1>1, <1>2, <1>4, <1>5, <2>2
  <2>3. QED
    BY <2>1, <2>2
<1>6. IsMap(down2, Player, DownedPlayer)
  <2>1. DOMAIN down2 \in SUBSET Player
    BY <1>1, <1>2, <1>3, <1>4
  <2>2. QED
    BY <1>4, <1>5, <2>1 DEF IsMap
<1>7. TickBledOut(fallen, strikes) \subseteq DOMAIN downedPlayers
  BY <1>5 DEF TickBledOut, BledOut, Bleeding
<1>8. TickKilled(strikes) \subseteq DOMAIN downedPlayers
  BY DEF TickKilled, Killable
<1>9. QED
  BY <1>5, <1>6, <1>7, <1>8

\* No tick leaves a map ill-typed, a rescued record behind or a mark alone.
LEMMA TickStep ==
    ASSUME LifeInv,
           NEW joined, NEW fallen, NEW out \in SUBSET ((Fighters \cup joined) \ fallen),
           NEW gone \in [out -> Room], NEW strikes, NEW rejoined,
           Tick(joined, fallen, gone, strikes, rejoined)
    PROVE  LifeInv'
<1> DEFINE down2 == TickDown2(fallen, strikes)
           chan1 == TickChan1(strikes)
           chan2 == TickChan2(fallen, strikes)
           saved == TickSaved(fallen, strikes)
           on    == ((Fighters \cup joined) \ (fallen \cup DOMAIN gone)) \cup rejoined
           dead  == TickKilled(strikes) \cup TickBledOut(fallen, strikes)
<1>1. /\ joined \subseteq SeenByCreatures
      /\ rejoined \subseteq saved
      /\ players' = [q \in Present |->
            IF q \in DOMAIN gone \cap Present THEN gone[q] ELSE players[q]]
      /\ fighting' = [q \in on |-> IF q \in rejoined THEN down2[q].room ELSE TickAt(joined)[q]]
      /\ downedPlayers' = Without(TickDowned(down2, chan1), saved)
      /\ stabilizeChannels' = Without(chan2, saved \cup ChannelsOn(chan2, saved))
      /\ StartDeaths(dead)
      /\ UNCHANGED <<sessions, link, leaves>>
  BY TickParts DEF RevivedDowned
<1>2. /\ IsMap(down2, Player, DownedPlayer)
      /\ \A p \in DOMAIN down2 : down2[p].state = "downed"
  BY TickRecords
<1>3. /\ DOMAIN players \subseteq Player /\ \A q \in DOMAIN players : players[q] \in Room
      /\ DOMAIN fighting \subseteq Player /\ \A q \in DOMAIN fighting : fighting[q] \in Room
  BY DEF LifeInv, IsMap
<1>4. IsMap(players, Player, Room)' /\ Present' = Present
  <2>1. DOMAIN players' = DOMAIN players
    BY <1>1 DEF Present
  <2>2. \A q \in DOMAIN players : players'[q] \in Room
    BY <1>1, <1>3 DEF Present
  <2>3. players' = [q \in DOMAIN players' |-> players'[q]]
    BY <1>1, <2>1 DEF Present
  <2>4. QED
    BY <1>3, <2>1, <2>2, <2>3 DEF IsMap, Present
<1>5. IsMap(fighting, Player, Room)'
  <2>1. joined \subseteq DOMAIN players
    BY <1>1 DEF SeenByCreatures, Present
  <2>2. \A q \in Fighters \cup joined : q \in Player /\ TickAt(joined)[q] \in Room
    BY <1>3, <2>1 DEF TickAt, Fighters
  <2>3. \A q \in rejoined : q \in Player /\ down2[q].room \in Room
    <3>1. rejoined \subseteq DOMAIN down2
      BY <1>1 DEF TickSaved, Saved
    <3>2. QED
      BY <1>2, <3>1, RecordFields DEF IsMap
  <2>4. DOMAIN fighting' = on /\ fighting' = [q \in on |-> fighting'[q]]
    BY <1>1
  <2>5. on \subseteq Player
    BY <2>2, <2>3
  <2>6. \A q \in on : fighting'[q] \in Room
    BY <1>1, <2>2, <2>3
  <2>7. QED
    BY <2>4, <2>5, <2>6 DEF IsMap
<1>6. DowningOK'
  <2>1. IsMap(downedPlayers, Player, DownedPlayer)'
    <3>1. IsMap(TickDowned(down2, chan1), Player, DownedPlayer)
      BY <1>2, TickDownedType
    <3>2. QED
      BY <1>1, <3>1 DEF IsMap, Without
  <2>2. IsMap(stabilizeChannels, Player, StabilizeChannel)'
    <3>1. IsMap(chan1, Player, StabilizeChannel)
      BY DEF LifeInv, DowningOK, TickChan1, IsMap, Without
    <3>2. IsMap(chan2, Player, StabilizeChannel)
      BY <3>1, TickChannelsType DEF TickChan2
    <3>3. QED
      BY <1>1, <3>2 DEF IsMap, Without
  <2>3. RecordsBleed'
    <3>1. /\ DOMAIN downedPlayers' = DOMAIN TickDowned(down2, chan1) \ saved
          /\ \A p \in DOMAIN downedPlayers' :
                downedPlayers'[p] = TickDowned(down2, chan1)[p]
      BY <1>1 DEF Without
    <3>2. /\ DOMAIN TickDowned(down2, chan1) = DOMAIN down2 \ BledOut(down2, chan1)
          /\ \A p \in DOMAIN down2 \ (BledOut(down2, chan1) \cup Saved(down2, chan1)) :
                TickDowned(down2, chan1)[p].state = down2[p].state
      BY <1>2, TickDownedType
    <3>3. QED
      BY <1>2, <3>1, <3>2 DEF RecordsBleed, TickSaved
  <2>4. QED
    BY <2>1, <2>2, <2>3 DEF DowningOK
<1>7. SessionsOK'
  BY <1>1, Untouched
<1>8. DeathsOK'
  <2>1. /\ pending' = pending \cup (dead \cap Present)
        /\ deaths' = deaths \cup {Dying(p, "saving") : p \in dead \cap Present}
    BY <1>1 DEF StartDeaths
  <2>2. \A p \in Player : Dying(p, "saving") \in DeathTask /\ Dying(p, "saving").who = p
    BY DEF Dying, DeathTask
  <2>3. Present \subseteq Player
    BY <1>3 DEF Present
  <2>4. pending' \subseteq Player /\ deaths' \subseteq DeathTask
    BY <2>1, <2>2, <2>3 DEF LifeInv, DeathsOK
  <2>5. ASSUME NEW p \in pending'
        PROVE  p \in Present' /\ \E t \in deaths' : t.who = p
    <3>1. CASE p \in pending
      BY <1>4, <2>1, <3>1 DEF LifeInv, DeathsOK, MarkedForDeathHaveDeath
    <3>2. CASE p \in dead \cap Present
      <4>1. Dying(p, "saving") \in deaths'
        BY <2>1, <3>2
      <4>2. QED
        BY <1>4, <2>2, <2>3, <3>2, <4>1
    <3>3. QED
      BY <2>1, <2>5, <3>1, <3>2
  <2>6. QED
    BY <2>4, <2>5 DEF DeathsOK, MarkedForDeathHaveDeath
<1>9. QED
  BY <1>4, <1>5, <1>6, <1>7, <1>8 DEF LifeInv

-----------------------------------------------------------------------------
(* handlePlayerDeath                                                       *)

\* A death that ends in the middle was of a player who is gone already.
LEMMA TeleportDueStep ==
    ASSUME LifeInv, NEW t \in deaths, TeleportDue(t)
    PROVE  LifeInv'
<1>1. UNCHANGED <<sessions, players, link, fighting, downingVars, pending, leaves>>
  BY DEF TeleportDue
<1>2. DeathsOK'
  <2>1. CASE t.who \in Present
    BY <1>1, <2>1, AdvanceStep DEF TeleportDue
  <2>2. CASE t.who \notin Present
    <3>1. deaths' = deaths \ {t} /\ Present' = Present
      BY <1>1, <2>2 DEF TeleportDue, Present
    <3>2. \A p \in pending : p # t.who
      BY <2>2 DEF LifeInv, DeathsOK, MarkedForDeathHaveDeath
    <3>3. QED
      BY <1>1, <3>1, <3>2 DEF LifeInv, DeathsOK, MarkedForDeathHaveDeath
  <2>3. QED
    BY <2>1, <2>2
<1>3. QED
  BY <1>1, <1>2, Untouched DEF LifeInv

LEMMA DeathStepStep ==
    ASSUME LifeInv, NEW t \in deaths, DeathStep(t)
    PROVE  LifeInv'
<1>0. t.who \in Player
  BY DEF LifeInv, DeathsOK, DeathTask
<1>1. CASE DeathRecorded(t)
  <2>1. \E stage \in {"locating", "closing"} : Advance(t, stage)
    BY <1>1 DEF DeathRecorded
  <2>2. UNCHANGED <<sessions, players, link, fighting, downingVars, pending, leaves>>
    BY <1>1 DEF DeathRecorded
  <2>3. DeathsOK'
    BY <2>1, <2>2, AdvanceStep
  <2>4. QED
    BY <2>2, <2>3, Untouched DEF LifeInv
<1>2. CASE TeleportScheduled(t)
  <2>1. /\ Advance(t, "teleport") /\ LeaveDowning(t.who) /\ LeaveCombat(t.who)
        /\ UNCHANGED <<sessions, players, link, pending, leaves>>
    BY <1>2 DEF TeleportScheduled
  <2>2. DeathsOK'
    BY <2>1, AdvanceStep
  <2>3. QED
    BY <2>1, <2>2, LeaveDowningStep, LeaveCombatStep, Untouched DEF LifeInv
<1>3. CASE TeleportDue(t)
  BY <1>3, TeleportDueStep
<1>4. CASE TeleportDone(t)
  <2>1. /\ deaths' = deaths \ {t} /\ Forget(t.who)
        /\ UNCHANGED <<sessions, link, fighting, downingVars, leaves>>
    BY <1>4 DEF TeleportDone
  <2>2. IsMap(players, Player, Room)' /\ DeathsOK'
    BY <2>1, ForgetStep
  <2>3. QED
    BY <2>1, <2>2, Untouched DEF LifeInv
<1>5. CASE DeathClosed(t)
  <2>1. /\ deaths' = deaths \ {t} /\ Forget(t.who) /\ LeaveDowning(t.who)
        /\ LeaveCombat(t.who) /\ UNCHANGED <<sessions, leaves>>
        /\ link' = [link EXCEPT ![t.who] = IF Connected(t.who) THEN "orphan" ELSE "cut"]
    BY <1>5 DEF DeathClosed
  <2>2. IsMap(players, Player, Room)' /\ DeathsOK'
    BY <2>1, ForgetStep
  <2>3. link' \in [Player -> Link]
    BY <2>1 DEF LifeInv, SessionsOK, Link
  <2>4. SessionsOK'
    BY <2>1, <2>3 DEF LifeInv, SessionsOK
  <2>5. QED
    BY <2>1, <2>2, <2>4, LeaveDowningStep, LeaveCombatStep DEF LifeInv
<1>6. QED
  BY <1>1, <1>2, <1>3, <1>4, <1>5 DEF DeathStep

-----------------------------------------------------------------------------
(* The invariant                                                           *)

LEMMA InitInv ==
    ASSUME Init
    PROVE  LifeInv
<1>1. /\ IsMap(players, Player, Room) /\ IsMap(fighting, Player, Room)
      /\ IsMap(downedPlayers, Player, DownedPlayer) /\ DOMAIN downedPlayers = {}
      /\ IsMap(stabilizeChannels, Player, StabilizeChannel)
  BY DEF Init, IsMap, EmptyMap
<1>2. SessionsOK
  <2>1. MaxSessions \in [Player -> Nat]
    BY LifeAssumptions
  <2>2. sessions \in [Player -> Nat] /\ \A p \in Player : sessions[p] <= MaxSessions[p]
    BY <2>1 DEF Init
  <2>3. QED
    BY <2>2 DEF Init, SessionsOK, Link
<1>3. DeathsOK
  BY DEF Init, DeathsOK, MarkedForDeathHaveDeath
<1>4. QED
  BY <1>1, <1>2, <1>3 DEF LifeInv, DowningOK, RecordsBleed

LEMMA NextInv ==
    ASSUME LifeInv, [Next]_vars
    PROVE  LifeInv'
<1>1. CASE UNCHANGED vars
  BY <1>1, Untouched DEF vars, LifeInv, downingVars
<1>2. CASE \E p \in Player, r \in Room : Join(p, r)
  BY <1>2, JoinStep
<1>3. CASE \E p \in Player : Refresh(p)
  BY <1>3, RefreshStep
<1>4. CASE \E p \in Player : Drop(p) \/ Reconnect(p)
  BY <1>4, DropStep
<1>5. CASE \E p \in Player : Timeout(p) \/ Leave(p)
  BY <1>5, LeaveStep
<1>6. CASE \E p \in Player : Close(p)
  BY <1>6, CloseStep
<1>7. CASE \E p \in Player, r \in Room : \E fs \in SUBSET Others(p) : Move(p, r, fs)
  BY <1>7, MoveStep
<1>8. CASE \E p \in Player : \E ts \in {{}} \cup {{q} : q \in Others(p)} : Attack(p, ts)
  BY <1>8, AttackStep
<1>9. CASE \E s \in Player, t \in Player : Stabilize(s, t)
  BY <1>9, StabilizeStep
<1>10. CASE TickAny
  BY <1>10, TickStep DEF TickAny
<1>11. CASE \E p \in Player : DeathsOf(p)
  BY <1>11, DeathStepStep DEF DeathsOf
<1>12. QED
  BY <1>1, <1>2, <1>3, <1>4, <1>5, <1>6, <1>7, <1>8, <1>9, <1>10, <1>11 DEF Next

\* What holds in every reachable state of the room.
THEOREM LifeInvariant == Spec => []LifeInv
BY InitInv, NextInv, PTL DEF Spec

\* Every map and set of the room holds well-formed entries.
THEOREM TypeCorrect == Spec => []TypeOK
<1>1. LifeInv => TypeOK
  BY InvImplies
<1>2. QED
  BY <1>1, LifeInvariant, PTL

\* The mark that hides a dying player from creatures never sticks, whatever
\* disconnections, refreshes and late timers do.
THEOREM MarksHaveDeaths == Spec => []MarkedForDeathHaveDeath
<1>1. LifeInv => MarkedForDeathHaveDeath
  BY InvImplies
<1>2. QED
  BY <1>1, LifeInvariant, PTL

\* Between ticks a downing record is a bleeding one: a rescue is completed in
\* the tick that completes its channel.
THEOREM DowningRecordsBleed == Spec => []RecordsBleed
<1>1. LifeInv => RecordsBleed
  BY InvImplies
<1>2. QED
  BY <1>1, LifeInvariant, PTL

-----------------------------------------------------------------------------
(* The refinement of LifeCycle                                             *)

\* The status of every player: what LifeCycle's variable stands for.
StatusMap == [p \in Player |-> StatusOf(p)]

\* If a mark goes only with its player and comes only to one who is here and
\* downed, the player's status goes by one of the passages.
LEMMA PassageRule ==
    ASSUME LifeInv, NEW p \in Player,
           p \in pending /\ p \in Present' => p \in pending',
           p \in pending' \ pending => p \in Present /\ IsDowned(p)
    PROVE  \/ StatusOf(p)' = StatusOf(p)
           \/ <<StatusOf(p), StatusOf(p)'>> \in Life!Passages
<1>1. p \in pending => p \in Present
  BY DEF LifeInv, DeathsOK, MarkedForDeathHaveDeath
<1>2. CASE p \notin Present
  <2>1. StatusOf(p) = "absent" /\ p \notin pending'
    BY <1>1, <1>2 DEF StatusOf
  <2>2. StatusOf(p)' \in {"absent", "up", "downed"}
    BY <2>1 DEF StatusOf
  <2>3. QED
    BY <2>1, <2>2 DEF Life!Passages
<1>3. CASE p \in Present /\ p \in pending
  <2>1. StatusOf(p) = "dying"
    BY <1>3 DEF StatusOf
  <2>2. StatusOf(p)' \in {"absent", "dying"}
    BY <1>3 DEF StatusOf
  <2>3. QED
    BY <2>1, <2>2 DEF Life!Passages
<1>4. CASE p \in Present /\ p \notin pending /\ IsDowned(p)
  <2>1. StatusOf(p) = "downed"
    BY <1>4 DEF StatusOf
  <2>2. StatusOf(p)' \in {"absent", "dying", "downed", "up"}
    BY DEF StatusOf
  <2>3. QED
    BY <2>1, <2>2 DEF Life!Passages
<1>5. CASE p \in Present /\ p \notin pending /\ ~IsDowned(p)
  <2>1. StatusOf(p) = "up" /\ p \notin pending'
    BY <1>5 DEF StatusOf
  <2>2. StatusOf(p)' \in {"absent", "downed", "up"}
    BY <2>1 DEF StatusOf
  <2>3. QED
    BY <2>1, <2>2 DEF Life!Passages
<1>6. QED
  BY <1>2, <1>3, <1>4, <1>5

\* cleanupPlayerCaches takes a mark off only with the player.
LEMMA ForgetMarks ==
    ASSUME NEW q, Forget(q), NEW p
    PROVE  /\ p \in pending /\ p \in Present' => p \in pending'
           /\ pending' \subseteq pending
<1>1. Present' = Present \ {q} /\ pending' = pending \ {q}
  BY DEF Forget, Present, Without
<1>2. QED
  BY <1>1

\* A tick marks only the present and downed.
LEMMA TickMarks ==
    ASSUME LifeInv, NEW joined, NEW fallen, NEW gone, NEW strikes, NEW rejoined,
           Tick(joined, fallen, gone, strikes, rejoined), NEW p
    PROVE  /\ p \in pending => p \in pending'
           /\ p \in pending' \ pending => p \in Present /\ IsDowned(p)
<1> DEFINE dead == TickKilled(strikes) \cup TickBledOut(fallen, strikes)
<1>1. StartDeaths(dead)
  BY TickParts
<1>2. dead \subseteq DOMAIN downedPlayers
  BY TickRecords
<1>3. pending' = pending \cup (dead \cap Present)
  BY <1>1 DEF StartDeaths
<1>4. QED
  BY <1>2, <1>3 DEF IsDowned

LEMMA StepMarks ==
    ASSUME LifeInv, Next, NEW p
    PROVE  /\ p \in pending /\ p \in Present' => p \in pending'
           /\ p \in pending' \ pending => p \in Present /\ IsDowned(p)
<1>1. ASSUME NEW q \in Player, Close(q)
      PROVE  Forget(q)
  BY <1>1 DEF Close
<1>2. CASE TickAny
  BY <1>2, TickMarks DEF TickAny
<1>3. ASSUME NEW t \in deaths, DeathStep(t)
      PROVE  UNCHANGED pending \/ Forget(t.who)
  BY <1>3 DEF DeathStep, DeathRecorded, TeleportScheduled, TeleportDue, TeleportDone, DeathClosed
<1>4. CASE \E q \in Player : \/ \E r \in Room : Join(q, r)
                             \/ Refresh(q) \/ Drop(q) \/ Reconnect(q) \/ Timeout(q) \/ Leave(q)
                             \/ \E r \in Room, fs \in SUBSET Others(q) : Move(q, r, fs)
                             \/ \E ts \in {{}} \cup {{o} : o \in Others(q)} : Attack(q, ts)
                             \/ \E t \in Player : Stabilize(q, t)
  <2>1. UNCHANGED pending
    BY <1>4 DEF Join, Refresh, Drop, Reconnect, Timeout, Leave, Move, Attack, Stabilize
  <2>2. QED
    BY <2>1
<1>5. CASE (\E q \in Player : Close(q)) \/ (\E q \in Player : DeathsOf(q))
  BY <1>1, <1>3, <1>5, ForgetMarks DEF DeathsOf
<1>6. QED
  BY <1>2, <1>4, <1>5 DEF Next

LEMMA LifeCycleInit ==
    ASSUME Init
    PROVE  Life!Init
<1>1. Present = {}
  BY DEF Init, Present, IsMap, EmptyMap
<1>2. QED
  BY <1>1 DEF Life!Init, StatusOf

LEMMA LifeCycleStep ==
    ASSUME LifeInv, [Next]_vars
    PROVE  [Life!Next]_StatusMap
<1>1. CASE UNCHANGED vars
  <2>1. \A p \in Player : StatusOf(p)' = StatusOf(p)
    BY <1>1 DEF vars, StatusOf, Present, IsDowned
  <2>2. QED
    BY <2>1 DEF StatusMap
<1>2. CASE Next
  <2>1. ASSUME NEW p \in Player
        PROVE  \/ StatusOf(p)' = StatusOf(p)
               \/ <<StatusOf(p), StatusOf(p)'>> \in Life!Passages
    BY <1>2, StepMarks, PassageRule
  <2>2. \A p \in Player : StatusOf(p)' \in Life!Status
    BY DEF StatusOf, Life!Status
  <2>3. QED
    BY <2>1, <2>2 DEF Life!Next
<1>3. QED
  BY <1>1, <1>2

\* ZoneRoom starts as LifeCycle does and every step it takes is one of
\* LifeCycle's, or none: only the downed come to die, nobody gets up from
\* dying, and one who comes back has no death left over from an earlier stay.
THEOREM FollowsLifeCycle == Spec => Life!Init /\ [][Life!Next]_StatusMap
<1>1. LifeInv /\ [Next]_vars => [Life!Next]_StatusMap
  BY LifeCycleStep
<1>2. Init => Life!Init
  BY LifeCycleInit
<1>3. QED
  BY <1>1, <1>2, LifeInvariant, PTL DEF Spec

\* What is left of the refinement is that dying ends, which the run checks
\* under the room's fairness.
THEOREM LifeCycleIfDyingEnds == Spec /\ Life!DyingEnds => ImplementsLifeCycle
BY FollowsLifeCycle, PTL DEF ImplementsLifeCycle, Life!Spec, StatusMap
=============================================================================
