---------------------------- MODULE DowningSystem ---------------------------
(***************************************************************************)
(* The class DowningSystem as its callers see it: every public method an   *)
(* action, in any order ZoneRoom and the stabilize command may call them.  *)
(***************************************************************************)
EXTENDS Downing

VARIABLES
    downedPlayers,      \* the map downedPlayers
    stabilizeChannels,  \* the map stabilizeChannels
    events              \* the DowningEvents the last call returned

vars == <<downedPlayers, stabilizeChannels, events>>

DowningEvent(type, p) == [type |-> type, player |-> p]

Init ==
    /\ downedPlayers = EmptyMap
    /\ stabilizeChannels = EmptyMap
    /\ events = {}

\* A player reached 0 HP in room r.
DownPlayer(p, r) ==
    /\ downedPlayers' = Put(downedPlayers, p, FreshlyDowned(r))
    /\ events' = {DowningEvent("player_downed", p)}
    /\ UNCHANGED stabilizeChannels

BeginStabilize(s, t) ==
    /\ MayStabilize(downedPlayers, stabilizeChannels, s, t)
    /\ stabilizeChannels' = Put(stabilizeChannels, s,
            [target |-> t, ticks |-> STABILIZE_CHANNEL_TICKS])
    /\ events' = {DowningEvent("stabilize_started", t)}
    /\ UNCHANGED downedPlayers

InterruptStabilize(s) ==
    /\ s \in DOMAIN stabilizeChannels
    /\ stabilizeChannels' = Without(stabilizeChannels, {s})
    /\ events' = {DowningEvent("stabilize_interrupted", t) :
                    t \in {stabilizeChannels[s].target} \cap DOMAIN downedPlayers}
    /\ UNCHANGED downedPlayers

KillingBlow(p) ==
    /\ p \in Killable(downedPlayers)
    /\ downedPlayers' = Without(downedPlayers, {p})
    /\ stabilizeChannels' =
            Without(stabilizeChannels, ChannelsOn(stabilizeChannels, {p}))
    /\ events' = {DowningEvent("killing_blow", p)}

Tick ==
    /\ downedPlayers' = TickDowned(downedPlayers, stabilizeChannels)
    /\ stabilizeChannels' = TickChannels(downedPlayers, stabilizeChannels)
    /\ events' =
         {DowningEvent("player_stabilized", p) :
             p \in Saved(downedPlayers, stabilizeChannels)}
         \cup {DowningEvent("player_bleed_out", p) :
             p \in BledOut(downedPlayers, stabilizeChannels)}

RemovePlayer(p) ==
    /\ downedPlayers' = Without(downedPlayers, {p})
    /\ stabilizeChannels' = Without(stabilizeChannels,
            {p} \cup ChannelsOn(stabilizeChannels, {p}))
    /\ events' = {}

\* clear(): the zone collapses.
Clear ==
    /\ downedPlayers' = EmptyMap
    /\ stabilizeChannels' = EmptyMap
    /\ events' = {}

Next ==
    \/ \E p \in Player, r \in Room : DownPlayer(p, r)
    \/ \E s \in Player, t \in Player : BeginStabilize(s, t)
    \/ \E s \in Player : InterruptStabilize(s)
    \/ \E p \in Player : KillingBlow(p)
    \/ \E p \in Player : RemovePlayer(p)
    \/ Tick
    \/ Clear

\* The room's simulation interval calls tick() for as long as the room lives.
Spec == Init /\ [][Next]_vars /\ WF_vars(Tick)

-----------------------------------------------------------------------------
(* Properties                                                              *)

\* The two maps hold well-formed records with clocks inside their ranges.
TypeOK ==
    /\ IsMap(downedPlayers, Player, DownedPlayer)
    /\ IsMap(stabilizeChannels, Player, StabilizeChannel)

\* The grace clock and the bleed-out clock are decremented side by side; they
\* never drift apart: grace left is GRACE_TICKS less the ticks bled so far.
ClocksAgree ==
    \A p \in DOMAIN downedPlayers :
        LET bled == BLEED_OUT_TICKS - downedPlayers[p].bleed
        IN  downedPlayers[p].grace =
                IF bled < GRACE_TICKS THEN GRACE_TICKS - bled ELSE 0

\* No channel outlives its patient: killing blow, bleed-out and removal all
\* drop the channels on the player, so a later downing of the same player
\* cannot be rescued by a channel begun for an earlier one.
ChannelsHavePatients ==
    \A s \in DOMAIN stabilizeChannels :
        /\ stabilizeChannels[s].target \in DOMAIN downedPlayers
        /\ stabilizeChannels[s].target # s

\* "Grace ticks after downing before a killing blow can land": whichever way
\* the player dies, GRACE_TICKS ticks went by since the latest downing.
DeathsRespectGrace ==
    \A p \in DOMAIN downedPlayers :
        \/ DowningEvent("killing_blow", p) \in events'
        \/ DowningEvent("player_bleed_out", p) \in events'
        => BLEED_OUT_TICKS - downedPlayers[p].bleed >= GRACE_TICKS

NoDeathInGrace == [][DeathsRespectGrace]_vars

\* A rescue that completes on the very tick the timer runs out wins: channels
\* advance before timers, and a stabilized player no longer bleeds.
RescuedDoNotBleedOut ==
    \A p \in DOMAIN downedPlayers :
        \/ downedPlayers[p].state = "stabilized"
        \/ \E s \in DOMAIN stabilizeChannels :
              stabilizeChannels[s] = [target |-> p, ticks |-> 1]
        => DowningEvent("player_bleed_out", p) \notin events'

RescueBeatsBleedOut == [][RescuedDoNotBleedOut]_vars

\* A bleeding player does not bleed for ever: the player is saved, dies or is
\* removed, unless it is knocked down again and again.
BleedingEnds ==
    \A p \in Player :
        (<>[][\A r \in Room : ~DownPlayer(p, r)]_vars)
            => []<>(p \in DOMAIN downedPlayers
                        => downedPlayers[p].state = "stabilized")
=============================================================================
