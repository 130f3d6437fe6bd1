--------------------------- MODULE ZoneConnection ---------------------------
(***************************************************************************)
(* The browser's side of a session: hooks/useZoneConnection.ts, the        *)
(* retries of hooks/useReconnection.ts and services/connection.ts.  A page *)
(* is one mounted ZoneExploration; all pages here play the same character. *)
(* Of the server there is what ends a connection: the join that displaces  *)
(* an older session of the character (ZoneRoom.onJoin), the rent command,  *)
(* and the network.                                                        *)
(*                                                                         *)
(* A connection stands for the promise that opens it, then for the Room    *)
(* object.  The attempt number is what a retry and its timer carry.  Left  *)
(* out: messages other than those that switch rooms, the overlay of death, *)
(* the elapsed-seconds counter, and a roomName that changes under a page.  *)
(***************************************************************************)
EXTENDS Integers, FiniteSets

CONSTANTS
    Page,
    Zone,
    RoomName,     \* the zone a page was opened for
    None,
    MAX_ATTEMPTS, \* maxAttempts, 5 in the source
    MaxConns,     \* bound: connections that exist at one time
    MaxEvents     \* bound: what users and the network do to a page

ASSUME ZoneConnectionAssumptions ==
    /\ RoomName \in Zone
    /\ None \notin 1..MaxConns
    /\ MAX_ATTEMPTS \in Nat \ {0}
    /\ MaxConns \in Nat \ {0}
    /\ MaxEvents \in Nat

VARIABLES
    effect,         \* page -> runs of its effect so far; the last may be disposed
    unmounted,      \* the pages that are gone
    roomRef,        \* page -> the connection it takes for its room
    switchingRef,   \* the pages that are switching rooms
    status,         \* page -> connectionStatus of the store
    reconnection,   \* page -> state and refs of useReconnection
    conns,          \* connection -> promise or Room object
    events

vars == <<effect, unmounted, roomRef, switchingRef, status, reconnection, conns, events>>

Conn == 1..MaxConns
Attempt == 1..MAX_ATTEMPTS

\* A room that closed for one of these codes tells its page so.
LOST == 1006
CONSENTED == 4000
DISPLACED == 4001
Codes == {0, LOST, CONSENTED, DISPLACED}

\* "leaving" waits for the old room to close, "joining" for the server,
\* "admitted" for the page.
Connection == [page : Page, zone : Zone, run : Nat, why : {"mount", "switch", "retry"},
               attempt : Attempt \cup {0}, from : Conn \cup {None},
               stage : {"leaving", "joining", "admitted", "open"}, code : Codes]

Hook == [overlay : {"hidden", "reconnecting", "reconnected", "disconnected"},
         attempt : 0..(MAX_ATTEMPTS + 1), cancelled : BOOLEAN, reconnecting : BOOLEAN,
         retryTimer : Attempt \cup {0}, strays : SUBSET Attempt]

ASSUME NoneIsNoConnection == None \notin Connection

NewHook == [overlay |-> "hidden", attempt |-> 0, cancelled |-> FALSE,
            reconnecting |-> FALSE, retryTimer |-> 0, strays |-> {}]

Init ==
    /\ effect = [p \in Page |-> 0]
    /\ unmounted = {}
    /\ roomRef = [p \in Page |-> None]
    /\ switchingRef = {}
    /\ status = [p \in Page |-> "disconnected"]
    /\ reconnection = [p \in Page |-> NewHook]
    /\ conns = [c \in Conn |-> None]
    /\ events = 0

-----------------------------------------------------------------------------
Present(c) == conns[c] # None
In(c, stage) == Present(c) /\ conns[c].stage = stage
Disposed(p, run) == p \in unmounted \/ run # effect[p]

\* A page may keep, and a switch may wait for, a room that is gone.
Free(cs, c) ==
    /\ cs[c] = None
    /\ \A p \in Page : roomRef[p] # c
    /\ \A d \in Conn : cs[d] # None => cs[d].from # c

\* connection.ts connect, and the join of switchRoom: whatever is free.
NewConnection(cs, p, why, zone, attempt, from, run, new) ==
    /\ \E c \in Conn : Free(cs, c)
    /\ LET c == CHOOSE c \in Conn : Free(cs, c)
       IN new = [cs EXCEPT ![c] =
            [page |-> p, zone |-> zone, run |-> run, why |-> why, attempt |-> attempt,
             from |-> from, stage |-> IF from = None THEN "joining" ELSE "leaving", code |-> 0]]

\* room.leave(); a room that is closing already keeps its code.
Left(cs, c) ==
    IF c # None /\ cs[c] # None /\ cs[c].stage = "open" /\ cs[c].code = 0
    THEN [cs EXCEPT ![c].code = CONSENTED]
    ELSE cs

Happens == events < MaxEvents /\ events' = events + 1

-----------------------------------------------------------------------------
\* useReconnection.ts

\* Only the timer the ref holds is cleared.
WithoutTimers(h) == [h EXCEPT !.retryTimer = 0]

\* A failed attempt overwrites the ref; the timer it held still runs.
WithTimer(h, n) ==
    [h EXCEPT !.retryTimer = n,
              !.strays = IF h.retryTimer = 0 THEN @ ELSE @ \cup {h.retryTimer}]

Barred(h) == h.cancelled \/ h.reconnecting

GivenUp(n) == n > MAX_ATTEMPTS

\* Mutant: a retry forgets to count.
SameAttempt(n) == n

NextAttempt(n) == n + 1

Attempted(h, n) ==
    CASE Barred(h) -> h
      [] ~Barred(h) /\ GivenUp(n) ->
           [WithoutTimers(h) EXCEPT !.overlay = "disconnected", !.attempt = MAX_ATTEMPTS]
      [] OTHER -> [h EXCEPT !.overlay = "reconnecting", !.attempt = n, !.reconnecting = TRUE]

\* attemptReconnect(n), up to its await: onReconnect joins roomName, with the
\* handlers of the effect's last run.
AttemptReconnect(p, h, n, cs, idle) ==
    /\ reconnection' = [reconnection EXCEPT ![p] = Attempted(h, n)]
    /\ IF Barred(h) \/ GivenUp(n)
       THEN conns' = cs /\ status' = [status EXCEPT ![p] = idle]
       ELSE /\ NewConnection(cs, p, "retry", RoomName, n, None, effect[p], conns')
            /\ status' = [status EXCEPT ![p] = "connecting"]

Reset(h) == [h EXCEPT !.cancelled = FALSE, !.reconnecting = FALSE]

Disconnected(h) == [Reset(h) EXCEPT !.attempt = 1, !.overlay = "reconnecting"]

Reconnected(h) ==
    [WithoutTimers(Reset(h)) EXCEPT !.overlay = IF @ = "hidden" THEN @ ELSE "reconnected"]

\* attemptReconnect after its await.
Succeeded(h) ==
    [WithoutTimers(h) EXCEPT !.reconnecting = FALSE, !.overlay = "reconnected"]

\* Mutant: the spinner stays on until the next attempt.
FailedQuietly(h, n) ==
    LET over == [h EXCEPT !.reconnecting = FALSE]
    IN IF h.cancelled THEN over ELSE WithTimer(over, n)

\* Mutant: the catch forgets that the attempt is over.
FailedStuck(h, n) ==
    IF h.cancelled THEN h ELSE [WithTimer(h, n) EXCEPT !.overlay = "disconnected"]

Failed(h, n) ==
    LET over == [h EXCEPT !.reconnecting = FALSE]
    IN IF h.cancelled THEN over ELSE [WithTimer(over, n) EXCEPT !.overlay = "disconnected"]

\* The overlay offers what its state allows: cancel while an attempt runs,
\* the other two when it says the connection is lost.
Cancel(p) ==
    /\ Happens
    /\ p \notin unmounted
    /\ reconnection[p].overlay = "reconnecting"
    /\ reconnection' = [reconnection EXCEPT ![p] =
         [WithoutTimers(@) EXCEPT !.cancelled = TRUE, !.reconnecting = FALSE,
                                  !.overlay = "disconnected"]]
    /\ UNCHANGED <<effect, unmounted, roomRef, switchingRef, status, conns>>

ReconnectNow(p) ==
    LET h == reconnection[p]
        n == NextAttempt(h.attempt)
    IN
    /\ Happens
    /\ p \notin unmounted
    /\ h.overlay = "disconnected"
    /\ AttemptReconnect(p, [WithoutTimers(Reset(h)) EXCEPT !.attempt = n], n, conns, status[p])
    /\ UNCHANGED <<effect, unmounted, roomRef, switchingRef>>

\* returnToHub and useZoneConnection's onReturnToHub.
ReturnToHub(p) ==
    /\ Happens
    /\ p \notin unmounted
    /\ reconnection[p].overlay = "disconnected"
    /\ reconnection' = [reconnection EXCEPT ![p] =
         [WithoutTimers(@) EXCEPT !.cancelled = TRUE, !.reconnecting = FALSE,
                                  !.overlay = "hidden"]]
    /\ conns' = Left(conns, roomRef[p])
    /\ roomRef' = [roomRef EXCEPT ![p] = None]
    /\ UNCHANGED <<effect, unmounted, switchingRef, status>>

\* The timer after attempt n; strays of equal number are one.
RetryTimer(p, n) ==
    LET h == reconnection[p]
        spent == IF n \in h.strays THEN [h EXCEPT !.strays = @ \ {n}]
                                   ELSE [h EXCEPT !.retryTimer = 0]
    IN
    /\ n = h.retryTimer \/ n \in h.strays
    /\ AttemptReconnect(p, spent, NextAttempt(n), conns, status[p])
    /\ UNCHANGED <<effect, unmounted, roomRef, switchingRef, events>>

-----------------------------------------------------------------------------
\* useZoneConnection.ts

\* The effect's clean-up and its next run: the first, or one after a change
\* of token or of the active character.  (The clean-up has cleared roomRef, so
\* the test for a page that is connected already never holds.)
RunEffect(p) ==
    /\ p \notin unmounted
    /\ IF effect[p] = 0 THEN UNCHANGED events ELSE Happens
    /\ effect' = [effect EXCEPT ![p] = @ + 1]
    /\ NewConnection(Left(conns, roomRef[p]), p, "mount", RoomName, 0, None, effect[p] + 1, conns')
    /\ roomRef' = [roomRef EXCEPT ![p] = None]
    /\ status' = [status EXCEPT ![p] = "connecting"]
    /\ UNCHANGED <<unmounted, switchingRef, reconnection>>

Unmount(p) ==
    /\ Happens
    /\ p \notin unmounted /\ effect[p] > 0
    /\ unmounted' = unmounted \cup {p}
    /\ conns' = Left(conns, roomRef[p])
    /\ roomRef' = [roomRef EXCEPT ![p] = None]
    /\ reconnection' = [reconnection EXCEPT ![p] = WithoutTimers(@)]
    /\ UNCHANGED <<effect, switchingRef, status>>

\* onRoomSwitch and onZoneTransfer: a message on connection c.
SwitchRoom(c, zone) ==
    LET p == conns[c].page IN
    /\ Happens
    /\ In(c, "open") /\ conns[c].code = 0 /\ ~Disposed(p, conns[c].run)
    /\ p \notin switchingRef
    /\ roomRef[p] # None
    /\ switchingRef' = switchingRef \cup {p}
    /\ status' = [status EXCEPT ![p] = "connecting"]
    /\ NewConnection(Left(conns, roomRef[p]), p, "switch", zone, 0, roomRef[p], conns[c].run, conns')
    /\ UNCHANGED <<effect, unmounted, roomRef, reconnection>>

\* Mutant: switchingRef is reset in then, not in finally.
SettledThen(c) ==
    IF conns[c].why = "switch" /\ conns[c].stage = "admitted"
    THEN switchingRef \ {conns[c].page} ELSE switchingRef

\* The finally of a switch.
Settled(c) == IF conns[c].why = "switch" THEN switchingRef \ {conns[c].page} ELSE switchingRef

\* The page goes on from connect or switchRoom with a room.  A retry keeps its
\* room whatever has become of the page.
Resolve(c) ==
    LET p == conns[c].page
        why == conns[c].why
        kept == why = "retry" \/ ~Disposed(p, conns[c].run)
        opened == [conns EXCEPT ![c].stage = "open"]
    IN
    /\ In(c, "admitted")
    /\ conns' = IF kept THEN opened ELSE Left(opened, c)
    /\ roomRef' = IF kept THEN [roomRef EXCEPT ![p] = c] ELSE roomRef
    /\ status' = IF kept THEN [status EXCEPT ![p] = "connected"] ELSE status
    /\ switchingRef' = Settled(c)
    /\ reconnection' = [reconnection EXCEPT ![p] =
         CASE why = "retry" -> Succeeded(@)
           [] why = "mount" /\ kept -> Reconnected(@)
           [] OTHER -> @]
    /\ UNCHANGED <<effect, unmounted, events>>

\* The join is refused or never answered.
Reject(c) ==
    LET p == conns[c].page
        why == conns[c].why
    IN
    /\ In(c, "joining")
    /\ conns' = [conns EXCEPT ![c] = None]
    /\ status' = IF why # "retry" /\ ~Disposed(p, conns[c].run)
                 THEN [status EXCEPT ![p] = "error"] ELSE status
    /\ switchingRef' = Settled(c)
    /\ reconnection' = IF why = "retry"
                       THEN [reconnection EXCEPT ![p] = Failed(@, conns[c].attempt)]
                       ELSE reconnection
    /\ UNCHANGED <<effect, unmounted, roomRef, events>>

\* onLeave, and the end of the leave() that a switch waits for.
OnLeave(c) ==
    LET p == conns[c].page
        ended == [d \in Conn |->
            IF d = c THEN None
            ELSE IF In(d, "leaving") /\ conns[d].from = c
                 THEN [conns[d] EXCEPT !.stage = "joining", !.from = None]
                 ELSE conns[d]]
    IN
    /\ In(c, "open") /\ conns[c].code # 0
    /\ IF Disposed(p, conns[c].run) \/ p \in switchingRef
       THEN conns' = ended /\ UNCHANGED <<roomRef, status, reconnection>>
       ELSE /\ roomRef' = [roomRef EXCEPT ![p] = None]
            /\ IF conns[c].code = CONSENTED
               THEN /\ conns' = ended
                    /\ status' = [status EXCEPT ![p] = "disconnected"]
                    /\ UNCHANGED reconnection
               ELSE AttemptReconnect(p, Disconnected(reconnection[p]), 1, ended, "disconnected")
    /\ UNCHANGED <<effect, unmounted, switchingRef, events>>

-----------------------------------------------------------------------------
\* The server.

\* ZoneRoom.onJoin: an older session of the character is told to leave.
Admit(c) ==
    /\ In(c, "joining")
    /\ conns' = [d \in Conn |->
         CASE d = c -> [conns[c] EXCEPT !.stage = "admitted"]
           [] d # c /\ (In(d, "admitted") \/ In(d, "open"))
                    /\ conns[d].zone = conns[c].zone /\ conns[d].code = 0 ->
                [conns[d] EXCEPT !.code = DISPLACED]
           [] OTHER -> conns[d]]
    /\ UNCHANGED <<effect, unmounted, roomRef, switchingRef, status, reconnection, events>>

\* The network drops a connection, or the rent command ends it.
Close(c, code) ==
    /\ Happens
    /\ In(c, "open") /\ conns[c].code = 0
    /\ conns' = [conns EXCEPT ![c].code = code]
    /\ UNCHANGED <<effect, unmounted, roomRef, switchingRef, status, reconnection>>

-----------------------------------------------------------------------------
Answer(c) == Admit(c) \/ Reject(c)

Outside ==
    \/ \E p \in Page : \/ effect[p] > 0 /\ RunEffect(p)
                       \/ Unmount(p) \/ Cancel(p) \/ ReconnectNow(p) \/ ReturnToHub(p)
    \/ \E c \in Conn : \/ \E z \in Zone : SwitchRoom(c, z)
                       \/ \E code \in {LOST, CONSENTED} : Close(c, code)

Next ==
    \/ Outside
    \/ \E p \in Page : \/ effect[p] = 0 /\ RunEffect(p)
                       \/ \E n \in Attempt : RetryTimer(p, n)
    \/ \E c \in Conn : Answer(c) \/ Resolve(c) \/ OnLeave(c)

\* The browser runs what is due and the network answers, or reports a failure;
\* users and losses owe nothing.
Fairness ==
    /\ \A p \in Page, n \in Attempt : WF_vars(RetryTimer(p, n))
    /\ \A c \in Conn : WF_vars(Answer(c)) /\ WF_vars(Resolve(c)) /\ WF_vars(OnLeave(c))

Spec == Init /\ [][Next]_vars
FairSpec == Spec /\ Fairness

-----------------------------------------------------------------------------
Trying(p) == {c \in Conn : /\ In(c, "joining") \/ In(c, "admitted")
                           /\ conns[c].page = p /\ conns[c].why = "retry"}

Armed(p) == reconnection[p].retryTimer # 0 \/ reconnection[p].strays # {}

\* What the refs of a page and the connections may be; no attempt has a number
\* past the last (useReconnection.ts attemptReconnect).
TypeOK ==
    /\ effect \in [Page -> Nat]
    /\ unmounted \subseteq Page
    /\ roomRef \in [Page -> Conn \cup {None}]
    /\ switchingRef \subseteq Page
    /\ status \in [Page -> {"disconnected", "connecting", "connected", "error"}]
    /\ reconnection \in [Page -> Hook]
    /\ conns \in [Conn -> Connection \cup {None}]
    /\ events \in 0..MaxEvents

\* While the overlay says "Reconnecting" an attempt is under way, whatever
\* chains of attempts cancelling and reconnecting by hand have left behind.
SpinnersWork ==
    \A p \in Page \ unmounted : reconnection[p].overlay = "reconnecting" => Trying(p) # {}

\* An overlay that says "Connection Lost, attempt n of N" is waiting for the
\* next attempt, was cancelled, or has made the last one: one chain of attempts
\* does not end another before its time.
NoSilentEnd ==
    \A p \in Page \ unmounted :
        LET h == reconnection[p] IN
        h.overlay = "disconnected" =>
            \/ h.cancelled
            \/ Armed(p)
            \/ Trying(p) # {}
            \/ h.attempt >= MAX_ATTEMPTS

Displacing == \E c \in Conn : Present(c) /\ conns[c].code = DISPLACED

\* The page stops trying by itself, connected or not, unless sessions of the
\* character displace one another for ever.
RetryingEnds == <>[](\A p \in Page : ~Armed(p) /\ Trying(p) = {}) \/ []<>Displacing

\* A switch of rooms ends, and with it the deafness of onLeave, on a page whose
\* effect ran once.  (After a second run roomRef may hold a room that is gone,
\* and leaving it is never answered.)
SwitchesEnd == \A p \in Page : p \in switchingRef ~> p \notin switchingRef \/ effect[p] > 1
=============================================================================
