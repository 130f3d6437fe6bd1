------------------------------- MODULE Downing ------------------------------
(***************************************************************************)
(* The arithmetic of systems/DowningSystem.ts: what each method of the     *)
(* class does to its two maps, as operators on the maps' values.           *)
(*                                                                         *)
(*   d  downedPlayers      player -> [state, bleed, grace, room]           *)
(*   c  stabilizeChannels  stabilizer -> [target, ticks]                   *)
(*                                                                         *)
(* DowningSystem.tla runs the class alone, PlayerLife.tla inside ZoneRoom, *)
(* where one server tick makes several of these calls.                     *)
(***************************************************************************)
EXTENDS Integers, Maps

CONSTANTS
    Player,                   \* player ids
    Room,                     \* room ids of the zone
    BLEED_OUT_TICKS,          \* 60 in the source
    GRACE_TICKS,              \* 3 in the source
    STABILIZE_CHANNEL_TICKS   \* 2 in the source

\* What the three constants of the source satisfy and the design rests on.
ASSUME TickConstants ==
    /\ STABILIZE_CHANNEL_TICKS \in Nat \ {0}
    /\ GRACE_TICKS \in Nat
    /\ BLEED_OUT_TICKS \in Nat
    /\ STABILIZE_CHANNEL_TICKS <= GRACE_TICKS
    /\ GRACE_TICKS < BLEED_OUT_TICKS

DownedPlayer ==
    [state : {"downed", "stabilized"},
     bleed : 1..BLEED_OUT_TICKS,
     grace : 0..GRACE_TICKS,
     room  : Room]

StabilizeChannel ==
    [target : Player, ticks : 1..STABILIZE_CHANNEL_TICKS]

-----------------------------------------------------------------------------

\* The record downPlayer writes, over any record the player already has.
FreshlyDowned(r) ==
    [state |-> "downed", bleed |-> BLEED_OUT_TICKS,
     grace |-> GRACE_TICKS, room |-> r]

\* The channels whose target is in ps.
ChannelsOn(c, ps) == {s \in DOMAIN c : c[s].target \in ps}

\* Mutant: the grace period is not looked at.
KillableAtOnce(d) == DOMAIN d

\* killingBlow lands on these; a player in grace is refused.
Killable(d) == {p \in DOMAIN d : d[p].grace = 0}

\* beginStabilize accepts s for t.
MayStabilize(d, c, s, t) ==
    /\ t \in DOMAIN d
    /\ d[t].state = "downed"
    /\ s # t
    /\ s \notin DOMAIN c

-----------------------------------------------------------------------------
(* tick(): first the channels advance, then whoever still bleeds, bleeds.  *)

\* Channels that reach zero on this tick.
Completing(c) == {s \in DOMAIN c : c[s].ticks <= 1}

\* Targets a completing channel saves.
Saved(d, c) ==
    {p \in DOMAIN d : /\ d[p].state = "downed"
                      /\ \E s \in Completing(c) : c[s].target = p}

\* Mutant: the timers run before the channels have their say.
BleedingFirst(d, c) == {p \in DOMAIN d : d[p].state = "downed"}

\* Mutant: who is being attended to does not bleed.
BleedingUnattended(d, c) ==
    {p \in DOMAIN d : d[p].state = "downed" /\ ChannelsOn(c, {p}) = {}}

\* Players whose timer runs on this tick.
Bleeding(d, c) == {p \in DOMAIN d : d[p].state = "downed"} \ Saved(d, c)

\* Mutant: one tick late.
BledOutLate(d, c) == {p \in Bleeding(d, c) : d[p].bleed <= 0}

\* Players whose timer runs out on this tick.
BledOut(d, c) == {p \in Bleeding(d, c) : d[p].bleed <= 1}

\* Mutant: grace does not run.
BleedOnly(rec) == [rec EXCEPT !.bleed = @ - 1]

Bleed(rec) ==
    [state |-> rec.state, room |-> rec.room,
     bleed |-> rec.bleed - 1,
     grace |-> IF rec.grace > 0 THEN rec.grace - 1 ELSE 0]

TickDowned(d, c) ==
    [p \in DOMAIN d \ BledOut(d, c) |->
        IF p \in Saved(d, c) THEN [d[p] EXCEPT !.state = "stabilized"]
        ELSE IF p \in Bleeding(d, c) THEN Bleed(d[p])
        ELSE d[p]]

\* Mutant: the channels on those who bled out go on.
TickChannelsOnly(d, c) ==
    [s \in DOMAIN c \ Completing(c) |-> [c[s] EXCEPT !.ticks = @ - 1]]

TickChannels(d, c) ==
    [s \in DOMAIN c \ (Completing(c) \cup ChannelsOn(c, BledOut(d, c))) |->
        [c[s] EXCEPT !.ticks = @ - 1]]
=============================================================================
