------------------------ MODULE DowningSystemProofs -------------------------
(***************************************************************************)
(* For every set of players and rooms and every choice of the three tick   *)
(* constants that satisfies TickConstants: the maps stay well-typed, the   *)
(* two clocks agree, every channel has a patient, nobody dies in grace and *)
(* a completed rescue beats the bleed-out.                                 *)
(*                                                                         *)
(* IInv is inductive: ClocksAgree is about a record's two clocks and needs *)
(* their ranges, ChannelsHavePatients needs nothing else.                  *)
(***************************************************************************)
EXTENDS DowningSystem, TLAPS

IInv == TypeOK /\ ClocksAgree /\ ChannelsHavePatients

\* A record that bleeds for a tick without running out keeps its type and its
\* clocks stay in step.
LEMMA BleedStep ==
    ASSUME NEW rec \in DownedPlayer, rec.bleed > 1,
           rec.grace = IF BLEED_OUT_TICKS - rec.bleed < GRACE_TICKS
                       THEN GRACE_TICKS - (BLEED_OUT_TICKS - rec.bleed) ELSE 0
    PROVE  /\ Bleed(rec) \in DownedPlayer
           /\ Bleed(rec).grace =
                IF BLEED_OUT_TICKS - Bleed(rec).bleed < GRACE_TICKS
                THEN GRACE_TICKS - (BLEED_OUT_TICKS - Bleed(rec).bleed) ELSE 0
<1>1. /\ rec.bleed \in 1..BLEED_OUT_TICKS /\ rec.grace \in 0..GRACE_TICKS
      /\ rec.state \in {"downed", "stabilized"} /\ rec.room \in Room
  BY DEF DownedPlayer
<1>2. Bleed(rec) = [state |-> rec.state, bleed |-> rec.bleed - 1,
                    grace |-> IF rec.grace > 0 THEN rec.grace - 1 ELSE 0,
                    room |-> rec.room]
  BY DEF Bleed
<1>3. /\ rec.bleed - 1 \in 1..BLEED_OUT_TICKS
      /\ (IF rec.grace > 0 THEN rec.grace - 1 ELSE 0) \in 0..GRACE_TICKS
  BY <1>1, TickConstants
<1>4. Bleed(rec) \in DownedPlayer
  BY <1>1, <1>2, <1>3 DEF DownedPlayer
<1>5. Bleed(rec).bleed = rec.bleed - 1
      /\ Bleed(rec).grace = IF rec.grace > 0 THEN rec.grace - 1 ELSE 0
  BY <1>2
<1>6. QED
  BY <1>1, <1>4, <1>5, TickConstants

\* One tick of the map of downed players.
LEMMA TickDownedStep ==
    ASSUME IInv
    PROVE  LET d == TickDowned(downedPlayers, stabilizeChannels)
           IN  /\ IsMap(d, Player, DownedPlayer)
               /\ \A p \in DOMAIN d :
                    d[p].grace = IF BLEED_OUT_TICKS - d[p].bleed < GRACE_TICKS
                                 THEN GRACE_TICKS - (BLEED_OUT_TICKS - d[p].bleed)
                                 ELSE 0
<1> DEFINE old == downedPlayers
           out == BledOut(downedPlayers, stabilizeChannels)
           d   == TickDowned(downedPlayers, stabilizeChannels)
           InStep(rec) == rec.grace = IF BLEED_OUT_TICKS - rec.bleed < GRACE_TICKS
                                      THEN GRACE_TICKS - (BLEED_OUT_TICKS - rec.bleed)
                                      ELSE 0
<1>1. DOMAIN old \subseteq Player /\ \A p \in DOMAIN old : old[p] \in DownedPlayer
  BY DEF IInv, TypeOK, IsMap
<1>2. \A p \in DOMAIN old : InStep(old[p])
  BY DEF IInv, ClocksAgree
<1>3. DOMAIN d = DOMAIN old \ out
  BY DEF TickDowned
<1>4. ASSUME NEW p \in DOMAIN d
      PROVE  d[p] \in DownedPlayer /\ InStep(d[p])
  <2>1. p \in DOMAIN old /\ p \notin out /\ old[p] \in DownedPlayer /\ InStep(old[p])
    BY <1>1, <1>2, <1>3, <1>4
  <2>2. CASE p \in Saved(downedPlayers, stabilizeChannels)
    <3>1. d[p] = [old[p] EXCEPT !.state = "stabilized"]
      BY <1>3, <1>4, <2>2 DEF TickDowned
    <3>2. d[p] \in DownedPlayer /\ d[p].bleed = old[p].bleed /\ d[p].grace = old[p].grace
      BY <2>1, <3>1 DEF DownedPlayer
    <3>3. QED
      BY <2>1, <3>2
  <2>3. CASE /\ p \notin Saved(downedPlayers, stabilizeChannels)
             /\ p \in Bleeding(downedPlayers, stabilizeChannels)
    <3>1. d[p] = Bleed(old[p])
      BY <1>3, <1>4, <2>3 DEF TickDowned
    <3>2. old[p].bleed \in 1..BLEED_OUT_TICKS
      BY <2>1 DEF DownedPlayer
    <3>3. old[p].bleed > 1
      BY <2>1, <2>3, <3>2, TickConstants DEF BledOut
    <3>4. QED
      BY <2>1, <3>1, <3>3, BleedStep
  <2>4. CASE /\ p \notin Saved(downedPlayers, stabilizeChannels)
             /\ p \notin Bleeding(downedPlayers, stabilizeChannels)
    <3>1. d[p] = old[p]
      BY <1>3, <1>4, <2>4 DEF TickDowned
    <3>2. QED
      BY <2>1, <3>1
  <2>5. QED
    BY <2>2, <2>3, <2>4
<1>5. d = [p \in DOMAIN d |-> d[p]]
  BY DEF TickDowned
<1>6. DOMAIN d \in SUBSET Player
  BY <1>1, <1>3
<1>7. IsMap(d, Player, DownedPlayer)
  BY <1>4, <1>5, <1>6 DEF IsMap
<1>8. QED
  BY <1>4, <1>7

\* One tick of the map of channels.
LEMMA TickChannelsStep ==
    ASSUME IInv
    PROVE  LET c == TickChannels(downedPlayers, stabilizeChannels)
               d == TickDowned(downedPlayers, stabilizeChannels)
           IN  /\ IsMap(c, Player, StabilizeChannel)
               /\ \A s \in DOMAIN c : c[s].target \in DOMAIN d /\ c[s].target # s
<1> DEFINE old == stabilizeChannels
           c   == TickChannels(downedPlayers, stabilizeChannels)
           d   == TickDowned(downedPlayers, stabilizeChannels)
           out == BledOut(downedPlayers, stabilizeChannels)
<1>1. DOMAIN old \subseteq Player /\ \A s \in DOMAIN old : old[s] \in StabilizeChannel
  BY DEF IInv, TypeOK, IsMap
<1>2. DOMAIN c = DOMAIN old \ (Completing(old) \cup ChannelsOn(old, out))
  BY DEF TickChannels
<1>3. ASSUME NEW s \in DOMAIN c
      PROVE  /\ c[s] \in StabilizeChannel
             /\ c[s].target \in DOMAIN d
             /\ c[s].target # s
  <2>1. s \in DOMAIN old /\ s \notin Completing(old) /\ s \notin ChannelsOn(old, out)
    BY <1>2, <1>3
  <2>2. old[s].ticks \in 1..STABILIZE_CHANNEL_TICKS /\ old[s].target \in Player
    BY <1>1, <2>1 DEF StabilizeChannel
  <2>3. old[s].ticks > 1
    BY <2>1, <2>2, TickConstants DEF Completing
  <2>4. c[s] = [target |-> old[s].target, ticks |-> old[s].ticks - 1]
    BY <1>1, <1>2, <1>3, <2>1 DEF TickChannels, StabilizeChannel
  <2>5. old[s].ticks - 1 \in 1..STABILIZE_CHANNEL_TICKS
    BY <2>2, <2>3, TickConstants
  <2>6. c[s] \in StabilizeChannel
    BY <2>2, <2>4, <2>5 DEF StabilizeChannel
  <2>7. old[s].target \in DOMAIN downedPlayers /\ old[s].target # s
    BY <2>1 DEF IInv, ChannelsHavePatients
  <2>8. old[s].target \notin out
    BY <2>1 DEF ChannelsOn
  <2>9. DOMAIN d = DOMAIN downedPlayers \ out
    BY DEF TickDowned
  <2>10. QED
    BY <2>4, <2>6, <2>7, <2>8, <2>9
<1>4. c = [s \in DOMAIN c |-> c[s]] /\ DOMAIN c \in SUBSET Player
  BY <1>1, <1>2 DEF TickChannels
<1>5. IsMap(c, Player, StabilizeChannel)
  BY <1>3, <1>4 DEF IsMap
<1>6. QED
  BY <1>3, <1>5

-----------------------------------------------------------------------------
(* The invariant.                                                          *)

\* Every reachable state has well-typed maps, agreeing clocks and a patient
\* for every channel.
THEOREM Invariance == Spec => []IInv
<1>1. Init => IInv
  <2> SUFFICES ASSUME Init PROVE IInv
    OBVIOUS
  <2>1. TypeOK
    BY DEF Init, TypeOK, IsMap, EmptyMap
  <2>2. DOMAIN downedPlayers = {} /\ DOMAIN stabilizeChannels = {}
    BY DEF Init, IsMap, EmptyMap
  <2>3. QED
    BY <2>1, <2>2 DEF IInv, ClocksAgree, ChannelsHavePatients
<1>2. IInv /\ [Next]_vars => IInv'
  <2> SUFFICES ASSUME IInv, [Next]_vars PROVE IInv'
    OBVIOUS
  <2> USE TickConstants
  <2>0. /\ IsMap(downedPlayers, Player, DownedPlayer)
        /\ IsMap(stabilizeChannels, Player, StabilizeChannel)
        /\ DOMAIN downedPlayers \subseteq Player
        /\ DOMAIN stabilizeChannels \subseteq Player
    BY DEF IInv, TypeOK, IsMap
  <2>1. ASSUME NEW p \in Player, NEW r \in Room, DownPlayer(p, r)
        PROVE  IInv'
    <3>1. FreshlyDowned(r) \in DownedPlayer
      BY DEF FreshlyDowned, DownedPlayer
    <3>2. TypeOK'
      BY <2>0, <2>1, <3>1 DEF DownPlayer, TypeOK, IsMap, Put
    <3>3. /\ DOMAIN downedPlayers' = DOMAIN downedPlayers \cup {p}
          /\ downedPlayers'[p] = FreshlyDowned(r)
          /\ \A x \in DOMAIN downedPlayers :
                x # p => downedPlayers'[x] = downedPlayers[x]
          /\ stabilizeChannels' = stabilizeChannels
      BY <2>1 DEF DownPlayer, Put
    <3>4. ClocksAgree'
      BY <3>3 DEF ClocksAgree, FreshlyDowned, IInv
    <3>5. ChannelsHavePatients'
      BY <3>3 DEF ChannelsHavePatients, IInv
    <3>6. QED
      BY <3>2, <3>4, <3>5 DEF IInv
  <2>2. ASSUME NEW s \in Player, NEW t \in Player, BeginStabilize(s, t)
        PROVE  IInv'
    <3> DEFINE chan == [target |-> t, ticks |-> STABILIZE_CHANNEL_TICKS]
    <3>1. chan \in StabilizeChannel
      BY DEF StabilizeChannel
    <3>2. /\ stabilizeChannels' = Put(stabilizeChannels, s, chan)
          /\ downedPlayers' = downedPlayers
      BY <2>2 DEF BeginStabilize
    <3>3. TypeOK'
      BY <2>0, <3>1, <3>2 DEF TypeOK, IsMap, Put
    <3>4. /\ DOMAIN stabilizeChannels' = DOMAIN stabilizeChannels \cup {s}
          /\ stabilizeChannels'[s] = chan
          /\ \A x \in DOMAIN stabilizeChannels :
                x # s => stabilizeChannels'[x] = stabilizeChannels[x]
      BY <3>2 DEF Put
    <3>5. t \in DOMAIN downedPlayers /\ s # t
      BY <2>2 DEF BeginStabilize, MayStabilize
    <3>6. ChannelsHavePatients'
      BY <3>2, <3>4, <3>5 DEF ChannelsHavePatients, IInv
    <3>7. ClocksAgree'
      BY <3>2 DEF ClocksAgree, IInv
    <3>8. QED
      BY <3>3, <3>6, <3>7 DEF IInv
  <2>3. ASSUME NEW S, NEW T,
               downedPlayers' = Without(downedPlayers, S),
               stabilizeChannels' = Without(stabilizeChannels, T),
               ChannelsOn(stabilizeChannels, S) \subseteq T
        PROVE  IInv'
    <3>1. TypeOK'
      BY <2>0, <2>3 DEF TypeOK, IsMap, Without
    <3>2. /\ DOMAIN downedPlayers' = DOMAIN downedPlayers \ S
          /\ \A x \in DOMAIN downedPlayers \ S :
                downedPlayers'[x] = downedPlayers[x]
          /\ DOMAIN stabilizeChannels' = DOMAIN stabilizeChannels \ T
          /\ \A x \in DOMAIN stabilizeChannels \ T :
                stabilizeChannels'[x] = stabilizeChannels[x]
      BY <2>3 DEF Without
    <3>3. ClocksAgree'
      BY <3>2 DEF ClocksAgree, IInv
    <3>4. ChannelsHavePatients'
      BY <2>3, <3>2 DEF ChannelsHavePatients, ChannelsOn, IInv
    <3>5. QED
      BY <3>1, <3>3, <3>4 DEF IInv
  <2>4. ASSUME NEW s \in Player, InterruptStabilize(s)
        PROVE  IInv'
    <3>1. downedPlayers' = Without(downedPlayers, {})
      BY <2>0, <2>4 DEF InterruptStabilize, Without, IsMap
    <3>2. stabilizeChannels' = Without(stabilizeChannels, {s})
          /\ ChannelsOn(stabilizeChannels, {}) \subseteq {s}
      BY <2>4 DEF InterruptStabilize, ChannelsOn
    <3>3. QED
      BY <2>3, <3>1, <3>2
  <2>5. ASSUME NEW p \in Player, KillingBlow(p)
        PROVE  IInv'
    BY <2>3, <2>5 DEF KillingBlow
  <2>6. ASSUME NEW p \in Player, RemovePlayer(p)
        PROVE  IInv'
    <3>1. ChannelsOn(stabilizeChannels, {p})
             \subseteq {p} \cup ChannelsOn(stabilizeChannels, {p})
      OBVIOUS
    <3>2. QED
      BY <2>3, <2>6, <3>1 DEF RemovePlayer
  <2>7. CASE Tick
    <3>1. TypeOK'
      BY <2>7, TickDownedStep, TickChannelsStep DEF Tick, TypeOK
    <3>2. ClocksAgree'
      BY <2>7, TickDownedStep DEF Tick, ClocksAgree
    <3>3. ChannelsHavePatients'
      BY <2>7, TickChannelsStep DEF Tick, ChannelsHavePatients
    <3>4. QED
      BY <3>1, <3>2, <3>3 DEF IInv
  <2>8. CASE Clear
    <3>1. /\ TypeOK'
          /\ DOMAIN downedPlayers' = {} /\ DOMAIN stabilizeChannels' = {}
      BY <2>8 DEF Clear, TypeOK, IsMap, EmptyMap
    <3>2. QED
      BY <3>1 DEF IInv, ClocksAgree, ChannelsHavePatients
  <2>9. CASE UNCHANGED vars
    BY <2>9 DEF vars, IInv, TypeOK, ClocksAgree, ChannelsHavePatients
  <2>10. QED
    BY <2>1, <2>2, <2>4, <2>5, <2>6, <2>7, <2>8, <2>9 DEF Next
<1>3. QED
  BY <1>1, <1>2, PTL DEF Spec

\* The maps stay well-typed.
THEOREM TypeCorrect == Spec => []TypeOK
BY Invariance, PTL DEF IInv

\* Grace and bleed-out never drift apart.
THEOREM ClocksNeverDrift == Spec => []ClocksAgree
BY Invariance, PTL DEF IInv

\* No channel outlives its patient.
THEOREM ChannelsAlwaysHavePatients == Spec => []ChannelsHavePatients
BY Invariance, PTL DEF IInv

-----------------------------------------------------------------------------
(* The action properties.                                                  *)

\* The only steps that report a death are a killing blow and a tick.
LEMMA DeathEvents ==
    ASSUME Next, NEW p
    PROVE  /\ DowningEvent("killing_blow", p) \in events'
                => p \in Killable(downedPlayers)
           /\ DowningEvent("player_bleed_out", p) \in events'
                => p \in BledOut(downedPlayers, stabilizeChannels)
<1> USE DEF DowningEvent
<1>1. ASSUME NEW q \in Player, NEW r \in Room, DownPlayer(q, r)
      PROVE  events' = {DowningEvent("player_downed", q)}
  BY <1>1 DEF DownPlayer
<1>2. ASSUME NEW s \in Player, NEW t \in Player, BeginStabilize(s, t)
      PROVE  events' = {DowningEvent("stabilize_started", t)}
  BY <1>2 DEF BeginStabilize
<1>3. ASSUME NEW s \in Player, InterruptStabilize(s)
      PROVE  \A e \in events' : e.type = "stabilize_interrupted"
  BY <1>3 DEF InterruptStabilize
<1>4. ASSUME NEW q \in Player, KillingBlow(q)
      PROVE  q \in Killable(downedPlayers)
             /\ events' = {DowningEvent("killing_blow", q)}
  BY <1>4 DEF KillingBlow
<1>5. ASSUME NEW q \in Player, RemovePlayer(q)
      PROVE  events' = {}
  BY <1>5 DEF RemovePlayer
<1>6. CASE Tick
  BY <1>6 DEF Tick
<1>7. CASE Clear
  BY <1>7 DEF Clear
<1>8. QED
  BY <1>1, <1>2, <1>3, <1>4, <1>5, <1>6, <1>7 DEF Next

\* Nobody dies within GRACE_TICKS ticks of the latest downing.
THEOREM NobodyDiesInGrace == Spec => NoDeathInGrace
<1>1. IInv /\ [Next]_vars => [DeathsRespectGrace]_vars
  <2> SUFFICES ASSUME IInv, Next, NEW p \in DOMAIN downedPlayers,
                      \/ DowningEvent("killing_blow", p) \in events'
                      \/ DowningEvent("player_bleed_out", p) \in events'
               PROVE  BLEED_OUT_TICKS - downedPlayers[p].bleed >= GRACE_TICKS
    BY DEF DeathsRespectGrace
  <2>0. downedPlayers[p] \in DownedPlayer
    BY DEF IInv, TypeOK, IsMap
  <2>1. /\ downedPlayers[p].bleed \in 1..BLEED_OUT_TICKS
        /\ downedPlayers[p].grace =
                IF BLEED_OUT_TICKS - downedPlayers[p].bleed < GRACE_TICKS
                THEN GRACE_TICKS - (BLEED_OUT_TICKS - downedPlayers[p].bleed)
                ELSE 0
    BY <2>0 DEF IInv, ClocksAgree, DownedPlayer
  <2>2. CASE p \in Killable(downedPlayers)
    BY <2>1, <2>2, TickConstants DEF Killable
  <2>3. CASE p \in BledOut(downedPlayers, stabilizeChannels)
    BY <2>1, <2>3, TickConstants DEF BledOut
  <2>4. QED
    BY <2>2, <2>3, DeathEvents
<1>2. QED
  BY <1>1, Invariance, PTL DEF Spec, NoDeathInGrace

\* A stabilized player, and one whose rescue completes this tick, does not
\* bleed out on it.
THEOREM RescuesBeatBleedOut == Spec => RescueBeatsBleedOut
<1>1. IInv /\ [Next]_vars => [RescuedDoNotBleedOut]_vars
  <2> SUFFICES ASSUME Next, NEW p \in DOMAIN downedPlayers,
                      p \in BledOut(downedPlayers, stabilizeChannels)
               PROVE  /\ downedPlayers[p].state # "stabilized"
                      /\ \A s \in DOMAIN stabilizeChannels :
                            stabilizeChannels[s] # [target |-> p, ticks |-> 1]
    BY DeathEvents DEF RescuedDoNotBleedOut
  <2>1. downedPlayers[p].state = "downed"
        /\ p \notin Saved(downedPlayers, stabilizeChannels)
    BY DEF BledOut, Bleeding
  <2>2. \A s \in Completing(stabilizeChannels) : stabilizeChannels[s].target # p
    BY <2>1 DEF Saved
  <2>3. QED
    BY <2>1, <2>2 DEF Completing
<1>2. QED
  BY <1>1, Invariance, PTL DEF Spec, RescueBeatsBleedOut
=============================================================================
