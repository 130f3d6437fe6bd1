------------------------------ MODULE Handoff ------------------------------
(***************************************************************************)
(* A character between zones.  Each zone is a ZoneRoom of its own, with    *)
(* its own players map; what they share is the inventory repository, which *)
(* a zone writes when a player leaves and reads when one has joined.  No   *)
(* server process sees to it that the second comes after the first: it is  *)
(* the page that leaves one room, waits for the answer and then joins the  *)
(* next (services/connection.ts switchRoom).                               *)
(*                                                                         *)
(* The hub is the room of Belongings, the wilds another instance of it;    *)
(* the repository and the record of starter kits are those of both.        *)
(***************************************************************************)
EXTENDS Belongings

CONSTANTS
    MaxVisits,       \* bound: MaxSessions of the wilds
    MaxJoins         \* bound: how many times a player joins in all

ASSUME HandoffAssumption == MaxVisits \in [Player -> Nat] /\ MaxJoins \in Nat

VARIABLES
    wPlayers, wConnected, wSessions, wHydration, wTimers, wItems, wCorpses, wLeaves, wDeaths,
    page,        \* player -> its page
    straddling   \* the players who were still in the other zone when they
                 \* last joined one

hubVars == <<players, sessionVars, joinHydrationTasks, inventorySaveTimers, itemVars, deaths>>
wildsVars == <<wPlayers, wConnected, wSessions, wHydration, wTimers, wItems, wCorpses,
               wLeaves, wDeaths>>
sharedVars == <<repoVars, kitGranted>>
pageVars == <<page, straddling>>
vars == <<hubVars, wildsVars, sharedVars, pageVars>>

\* Nothing lies in the wilds at first.
Wilds == INSTANCE Belongings WITH
    FirstItems <- NoItems, MaxSessions <- MaxVisits,
    players <- wPlayers, connected <- wConnected, sessions <- wSessions,
    joinHydrationTasks <- wHydration, inventorySaveTimers <- wTimers,
    roomItems <- wItems, corpses <- wCorpses, leaves <- wLeaves, deaths <- wDeaths

Zone == {"hub", "wilds"}

\* in      connected to the zone          lost    its connection broke
\* moving  between leave and join         closed  no room
Page == [doing : {"in", "lost", "moving", "closed"}, zone : Zone, to : Zone]

Closed == [doing |-> "closed", zone |-> "hub", to |-> "hub"]
InZone(z) == [doing |-> "in", zone |-> z, to |-> z]
Lost(z) == [doing |-> "lost", zone |-> z, to |-> z]
Moving(z, w) == [doing |-> "moving", zone |-> z, to |-> w]

Init ==
    /\ RoomInit
    /\ Wilds!RoomInit
    /\ page = [p \in Player |-> Closed]
    /\ straddling = {}

-----------------------------------------------------------------------------
(* The two rooms, seen from the page *)

LeaveZone(p, z) ==
    \/ z = "hub" /\ Leave(p) /\ UNCHANGED wildsVars
    \/ z = "wilds" /\ Wilds!Leave(p) /\ UNCHANGED hubVars

DropFrom(p, z) ==
    \/ z = "hub" /\ Drop(p) /\ UNCHANGED wildsVars
    \/ z = "wilds" /\ Wilds!Drop(p) /\ UNCHANGED hubVars

ReconnectTo(p, z) ==
    \/ z = "hub" /\ (\E t \in leaves : t.who = p /\ Reconnect(t)) /\ UNCHANGED wildsVars
    \/ z = "wilds" /\ (\E t \in wLeaves : t.who = p /\ Wilds!Reconnect(t)) /\ UNCHANGED hubVars

\* The room has answered the page that has left it.
Answered(p, z) ==
    \/ z = "hub" /\ \A t \in leaves : t.who = p => t.session # sessions[p]
    \/ z = "wilds" /\ \A t \in wLeaves : t.who = p => t.session # wSessions[p]

PresentIn(z) == IF z = "hub" THEN Present ELSE Wilds!Present

Becomes(p, pg) == page' = [page EXCEPT ![p] = pg]

\* No zone asks whether another has the player.
JoinZone(p, z) ==
    /\ sessions[p] + wSessions[p] < MaxJoins
    /\ \/ z = "hub" /\ Join(p) /\ UNCHANGED wildsVars
       \/ z = "wilds" /\ Wilds!Join(p) /\ UNCHANGED hubVars
    /\ straddling' = IF \E w \in Zone \ {z} : p \in PresentIn(w)
                     THEN straddling \cup {p} ELSE straddling \ {p}
    /\ Becomes(p, InZone(z))

\* A page is opened, or retries after a loss: connect joins the room it was
\* opened for, wherever the player has gone since.
Open(p) ==
    /\ page[p].doing \in {"closed", "lost"}
    /\ JoinZone(p, "hub")

\* switchRoom up to the answer: a zone exit, goto, or the way back of the dead.
SwitchRoom(p, w) ==
    /\ page[p].doing = "in"
    /\ LeaveZone(p, page[p].zone)
    /\ Becomes(p, Moving(page[p].zone, w))
    /\ UNCHANGED straddling

Enter(p) ==
    /\ page[p].doing = "moving"
    /\ JoinZone(p, page[p].to)

\* Mutant: the leave is sent and not awaited.
ArriveAtOnce(p) == Enter(p)

\* The room answers when its onLeave is over; switchRoom goes on to the join.
Arrive(p) ==
    /\ Answered(p, page[p].zone)
    /\ Enter(p)

\* The join is refused, and the page has no room.
Refuse(p) ==
    /\ page[p].doing = "moving"
    /\ Answered(p, page[p].zone)
    /\ Becomes(p, Closed)
    /\ UNCHANGED <<hubVars, wildsVars, sharedVars, straddling>>

\* The rent command, or the clean-up of the page's effect: the room is left and
\* nobody waits for its answer.
LeaveAndClose(p) ==
    /\ page[p].doing = "in"
    /\ LeaveZone(p, page[p].zone)
    /\ Becomes(p, Closed)
    /\ UNCHANGED straddling

\* The connection breaks.
Lose(p) ==
    /\ page[p].doing = "in"
    /\ DropFrom(p, page[p].zone)
    /\ Becomes(p, Lost(page[p].zone))
    /\ UNCHANGED straddling

\* And is taken up again, in time.
Resume(p) ==
    /\ page[p].doing = "lost"
    /\ ReconnectTo(p, page[p].zone)
    /\ Becomes(p, InZone(page[p].zone))
    /\ UNCHANGED straddling

-----------------------------------------------------------------------------
(* What the rooms do by themselves *)

HubGoesOn ==
    /\ \/ \E p \in Player : Hydrate(p) \/ SaveDue(p)
       \/ \E t \in leaves : Timeout(t) \/ Depart(t)
       \/ Command
       \/ \E p \in Player : Die(p) \/ CorpseAppears(p) \/ RemoveOnDeath(p)
    /\ UNCHANGED <<wildsVars, pageVars>>

WildsGoOn ==
    /\ \/ \E p \in Player : Wilds!Hydrate(p) \/ Wilds!SaveDue(p)
       \/ \E t \in wLeaves : Wilds!Timeout(t) \/ Wilds!Depart(t)
       \/ Wilds!Command
       \/ \E p \in Player : Wilds!Die(p) \/ Wilds!CorpseAppears(p) \/ Wilds!RemoveOnDeath(p)
    /\ UNCHANGED <<hubVars, pageVars>>

Next ==
    \/ \E p \in Player : Open(p) \/ Arrive(p) \/ Refuse(p)
    \/ \E p \in Player, w \in Zone : SwitchRoom(p, w)
    \/ \E p \in Player : LeaveAndClose(p) \/ Lose(p) \/ Resume(p)
    \/ HubGoesOn
    \/ WildsGoOn

Spec == Init /\ [][Next]_vars

-----------------------------------------------------------------------------
(* Properties *)

\* Both rooms and the pages are well-formed.
TypeOK ==
    /\ RoomTypeOK
    /\ Wilds!RoomTypeOK
    /\ page \in [Player -> Page]
    /\ straddling \subseteq Player

\* One page is in one zone at a time, although no zone knows of the other, as
\* long as it waits when it leaves: not even a death, whose clean-up races the
\* departure of its player, leaves anyone behind.  It is only by opening a page
\* anew, after a loss or without waiting, that a player gets to be in two.
WaitingIsEnough == [][\A p \in straddling' \ straddling : Open(p)]_vars

\* What is stored for an account is to be loaded as long as neither zone has.
ItemsOfBoth ==
    Plus(Plus(roomItems, wItems),
         Plus(Total(LAMBDA p : Plus(Plus(Carried(p), Wilds!Carried(p)),
                                    Plus(Remains(p), Wilds!Remains(p))), Player),
              Total(LAMBDA a : IF InPlay(a) THEN NoItems ELSE Wilds!ToLoad(a), Account)))

\* Two characters of an account are in different zones, unknown to each other.
AccountInTwo ==
    \E p \in Present : \E q \in Siblings(p) : q \in Wilds!Present

\* The way from one zone to another makes no item and loses none, whether the
\* page waits or not, while no player and no account is in both at once; and what
\* happens in a zone, a failing load or save included, does to the items of both
\* together what Belongings says of one.
ItemsTravel ==
    [][straddling \cup straddling' = {} /\ ItemsOfBoth' # ItemsOfBoth
          => SourceOrSink \/ Wilds!SourceOrSink \/ AccountInTwo]_vars
=============================================================================
