------------------------- MODULE ZoneConnectionProofs -------------------------
(***************************************************************************)
(* For any pages and zones, any number of attempts, of connections and of  *)
(* events: what the overlay tells the user is true.                        *)
(*                                                                         *)
(* The two invariants of ZoneConnection hold of a page's refs and of the   *)
(* attempts it has under way.  Steps that replace the one and steps that   *)
(* end the other interleave freely, so HookOK adds what the code that      *)
(* reads the refs relies on: an attempt that bars another is under way     *)
(* (else nobody would ever try again), and a cancelled page never says     *)
(* that it is reconnecting (else a failure, which changes nothing of a     *)
(* cancelled page, would leave it spinning).                               *)
(***************************************************************************)
EXTENDS ZoneConnection, TLAPS

\* The connection r is an attempt of page p that is under way.
Retries(r, p) ==
    /\ r # None
    /\ r.stage \in {"joining", "admitted"}
    /\ r.page = p
    /\ r.why = "retry"

Tried(cs, p) == \E c \in Conn : Retries(cs[c], p)

\* Attempts have numbers: a failure waits for the next under that number.
ConnsOK(cs) ==
    /\ cs \in [Conn -> Connection \cup {None}]
    /\ \A c \in Conn : cs[c] # None /\ cs[c].why = "retry" => cs[c].attempt # 0

\* h may be the refs of a page that is trying, or not, and mounted, or not.
HookOK(h, trying, mounted) ==
    /\ h.attempt <= MAX_ATTEMPTS
    /\ h.overlay = "reconnecting" => trying
    /\ h.reconnecting => trying
    /\ h.cancelled => h.overlay # "reconnecting"
    /\ mounted /\ h.overlay = "disconnected" =>
          \/ h.cancelled
          \/ h.retryTimer # 0
          \/ h.strays # {}
          \/ trying
          \/ h.attempt >= MAX_ATTEMPTS

RefsOK ==
    /\ effect \in [Page -> Nat]
    /\ unmounted \subseteq Page
    /\ roomRef \in [Page -> Conn \cup {None}]
    /\ switchingRef \subseteq Page
    /\ status \in [Page -> {"disconnected", "connecting", "connected", "error"}]
    /\ events \in 0..MaxEvents

HooksOK ==
    /\ reconnection \in [Page -> Hook]
    /\ \A p \in Page : HookOK(reconnection[p], Tried(conns, p), p \notin unmounted)

ZInv == RefsOK /\ ConnsOK(conns) /\ HooksOK

LEMMA TryingIsTried ==
    ASSUME NEW p
    PROVE  Trying(p) # {} <=> Tried(conns, p)
BY DEF Trying, Tried, Retries, In, Present

\* The properties follow.
LEMMA InvImplies ==
    ASSUME ZInv
    PROVE  TypeOK /\ SpinnersWork /\ NoSilentEnd
<1>1. TypeOK
  BY DEF ZInv, RefsOK, ConnsOK, HooksOK, TypeOK
<1>2. SpinnersWork
  BY TryingIsTried DEF ZInv, HooksOK, HookOK, SpinnersWork
<1>3. NoSilentEnd
  BY TryingIsTried DEF ZInv, HooksOK, HookOK, NoSilentEnd, Armed
<1>4. QED
  BY <1>1, <1>2, <1>3

-----------------------------------------------------------------------------
(* Connections *)

LEMMA ConnectionFields ==
    ASSUME NEW r \in Connection
    PROVE  /\ r # None /\ r.page \in Page /\ r.zone \in Zone /\ r.run \in Nat
           /\ r.why \in {"mount", "switch", "retry"} /\ r.attempt \in Attempt \cup {0}
           /\ r.from \in Conn \cup {None}
           /\ r.stage \in {"leaving", "joining", "admitted", "open"} /\ r.code \in Codes
<1>1. r # None
  BY NoneIsNoConnection
<1>2. QED
  BY <1>1 DEF Connection

LEMMA NewConnectionOK ==
    ASSUME NEW cs, ConnsOK(cs), NEW p \in Page, NEW why \in {"mount", "switch", "retry"},
           NEW zone \in Zone, NEW attempt \in Attempt \cup {0}, NEW from \in Conn \cup {None},
           NEW run \in Nat, why = "retry" => attempt # 0 /\ from = None,
           NEW new, NewConnection(cs, p, why, zone, attempt, from, run, new)
    PROVE  /\ ConnsOK(new)
           /\ \A q : Tried(cs, q) => Tried(new, q)
           /\ why = "retry" => Tried(new, p)
<1> DEFINE c == CHOOSE c \in Conn : Free(cs, c)
           r == [page |-> p, zone |-> zone, run |-> run, why |-> why, attempt |-> attempt,
                 from |-> from, stage |-> IF from = None THEN "joining" ELSE "leaving", code |-> 0]
<1>1. c \in Conn /\ Free(cs, c)
  BY DEF NewConnection
<1>2. new = [cs EXCEPT ![c] = r]
  BY DEF NewConnection
<1>3. cs[c] = None
  BY <1>1 DEF Free
<1>4. r \in Connection /\ r.why = why /\ r.attempt = attempt /\ r.page = p
      /\ (from = None => r.stage = "joining")
  BY DEF Connection, Codes
<1> HIDE DEF c, r
<1>5. new \in [Conn -> Connection \cup {None}] /\ new[c] = r /\ \A d \in Conn \ {c} : new[d] = cs[d]
  BY <1>1, <1>2, <1>4 DEF ConnsOK
<1>6. r # None
  BY <1>4, NoneIsNoConnection
<1>7. ConnsOK(new)
  BY <1>4, <1>5 DEF ConnsOK
<1>8. \A q : Tried(cs, q) => Tried(new, q)
  BY <1>3, <1>5 DEF Tried, Retries
<1>9. why = "retry" => Tried(new, p)
  BY <1>1, <1>4, <1>5, <1>6 DEF Tried, Retries
<1>10. QED
  BY <1>7, <1>8, <1>9

\* Leaving a room changes nothing of an attempt.
LEMMA LeftOK ==
    ASSUME NEW cs, ConnsOK(cs), NEW c \in Conn \cup {None}
    PROVE  ConnsOK(Left(cs, c)) /\ \A q : Tried(cs, q) => Tried(Left(cs, c), q)
<1>1. CASE c # None /\ cs[c] # None /\ cs[c].stage = "open" /\ cs[c].code = 0
  <2>1. c \in Conn /\ cs[c] \in Connection
    BY <1>1 DEF ConnsOK
  <2> DEFINE r == [cs[c] EXCEPT !.code = CONSENTED]
  <2>2. r \in Connection /\ r.why = cs[c].why /\ r.attempt = cs[c].attempt
    BY <2>1 DEF Connection, Codes
  <2>3. Left(cs, c) = [cs EXCEPT ![c] = r]
    BY <1>1 DEF Left
  <2> HIDE DEF r
  <2>4. /\ Left(cs, c) \in [Conn -> Connection \cup {None}] /\ Left(cs, c)[c] = r
        /\ \A d \in Conn \ {c} : Left(cs, c)[d] = cs[d]
    BY <2>1, <2>2, <2>3 DEF ConnsOK
  <2>5. ConnsOK(Left(cs, c))
    BY <1>1, <2>2, <2>4 DEF ConnsOK
  <2>6. \A q : Tried(cs, q) => Tried(Left(cs, c), q)
    BY <1>1, <2>4 DEF Tried, Retries
  <2>7. QED
    BY <2>5, <2>6
<1>2. CASE ~(c # None /\ cs[c] # None /\ cs[c].stage = "open" /\ cs[c].code = 0)
  BY <1>2 DEF Left
<1>3. QED
  BY <1>1, <1>2

-----------------------------------------------------------------------------
(* The refs of useReconnection *)

LEMMA HookFields ==
    ASSUME NEW h \in Hook
    PROVE  /\ h.overlay \in {"hidden", "reconnecting", "reconnected", "disconnected"}
           /\ h.attempt \in Nat /\ h.cancelled \in BOOLEAN /\ h.reconnecting \in BOOLEAN
           /\ h.retryTimer \in Attempt \cup {0} /\ h.strays \subseteq Attempt
<1>1. h.attempt \in 0..(MAX_ATTEMPTS + 1)
  BY DEF Hook
<1>2. QED
  BY <1>1, ZoneConnectionAssumptions DEF Hook

\* What holds of a page that tries holds of one that still tries.
LEMMA HookKept ==
    ASSUME NEW h, NEW t, NEW m, NEW t2, NEW m2, HookOK(h, t, m), t => t2, m2 => m
    PROVE  HookOK(h, t2, m2)
BY DEF HookOK

LEMMA ResetOK ==
    ASSUME NEW h \in Hook
    PROVE  /\ Reset(h) \in Hook /\ ~Reset(h).cancelled /\ ~Reset(h).reconnecting
           /\ Reset(h).overlay = h.overlay /\ Reset(h).attempt = h.attempt
BY DEF Reset, Hook

LEMMA WithoutTimersOK ==
    ASSUME NEW h \in Hook
    PROVE  /\ WithoutTimers(h) \in Hook /\ WithoutTimers(h).cancelled = h.cancelled
           /\ WithoutTimers(h).reconnecting = h.reconnecting
           /\ WithoutTimers(h).overlay = h.overlay /\ WithoutTimers(h).attempt = h.attempt
BY DEF WithoutTimers, Hook

\* What attemptReconnect makes of refs that bar it only if they may.
LEMMA AttemptedOK ==
    ASSUME NEW h \in Hook, NEW n \in Nat \ {0}, NEW p, NEW cs, NEW new,
           Barred(h) => HookOK(h, Tried(cs, p), FALSE),
           Tried(cs, p) => Tried(new, p),
           Barred(h) \/ GivenUp(n) \/ Tried(new, p)
    PROVE  Attempted(h, n) \in Hook /\ HookOK(Attempted(h, n), Tried(new, p), TRUE)
<1>1. CASE Barred(h)
  BY <1>1 DEF Attempted, HookOK, Barred
<1>2. CASE ~Barred(h) /\ GivenUp(n)
  <2> DEFINE g == [WithoutTimers(h) EXCEPT !.overlay = "disconnected", !.attempt = MAX_ATTEMPTS]
  <2>1. Attempted(h, n) = g
    BY <1>2 DEF Attempted
  <2>2. MAX_ATTEMPTS \in 0..(MAX_ATTEMPTS + 1) /\ MAX_ATTEMPTS >= MAX_ATTEMPTS
    BY ZoneConnectionAssumptions
  <2>3. /\ g \in Hook /\ g.overlay = "disconnected" /\ g.attempt = MAX_ATTEMPTS
        /\ g.cancelled = h.cancelled /\ g.reconnecting = h.reconnecting
    BY <2>2, WithoutTimersOK DEF Hook
  <2> HIDE DEF g
  <2>4. QED
    BY <1>2, <2>1, <2>2, <2>3 DEF HookOK, Barred
<1>3. CASE ~Barred(h) /\ ~GivenUp(n)
  <2> DEFINE g == [h EXCEPT !.overlay = "reconnecting", !.attempt = n, !.reconnecting = TRUE]
  <2>1. Attempted(h, n) = g
    BY <1>3 DEF Attempted
  <2>2. n \in 0..(MAX_ATTEMPTS + 1)
    BY <1>3, ZoneConnectionAssumptions DEF GivenUp
  <2>3. g \in Hook /\ g.overlay = "reconnecting" /\ g.cancelled = h.cancelled /\ g.attempt = n
    BY <2>2 DEF Hook
  <2> HIDE DEF g
  <2>4. n <= MAX_ATTEMPTS
    BY <1>3, ZoneConnectionAssumptions DEF GivenUp
  <2>5. QED
    BY <1>3, <2>1, <2>3, <2>4 DEF HookOK, Barred
<1>4. QED
  BY <1>1, <1>2, <1>3

\* A failed attempt is over; the page waits for the next, unless cancelled.
LEMMA FailedOK ==
    ASSUME NEW h \in Hook, NEW n \in Attempt, NEW t, NEW m, HookOK(h, TRUE, m)
    PROVE  Failed(h, n) \in Hook /\ HookOK(Failed(h, n), t, m)
<1> DEFINE over == [h EXCEPT !.reconnecting = FALSE]
<1>1. /\ over \in Hook /\ ~over.reconnecting /\ over.overlay = h.overlay
      /\ over.cancelled = h.cancelled /\ over.attempt = h.attempt
  BY DEF Hook
<1>2. CASE h.cancelled
  <2>1. Failed(h, n) = over
    BY <1>2 DEF Failed
  <2>2. QED
    BY <1>1, <1>2, <2>1 DEF HookOK
<1>3. CASE ~h.cancelled
  <2> DEFINE g == [WithTimer(over, n) EXCEPT !.overlay = "disconnected"]
  <2>1. Failed(h, n) = g
    BY <1>3 DEF Failed
  <2> HIDE DEF over
  <2>2. WithTimer(over, n) \in Hook /\ WithTimer(over, n).retryTimer = n
        /\ WithTimer(over, n).reconnecting = over.reconnecting
        /\ WithTimer(over, n).attempt = over.attempt
    BY <1>1 DEF WithTimer, Hook
  <2>3. g \in Hook /\ g.overlay = "disconnected" /\ g.retryTimer = n /\ ~g.reconnecting
        /\ g.attempt = h.attempt
    BY <1>1, <2>2 DEF Hook
  <2>4. n # 0
    BY DEF Attempt
  <2> HIDE DEF g
  <2>5. QED
    BY <2>1, <2>3, <2>4 DEF HookOK
<1>4. QED
  BY <1>2, <1>3

\* A page that has its room again, by an attempt or by itself.
LEMMA SucceededOK ==
    ASSUME NEW h \in Hook, NEW t, NEW m, h.attempt <= MAX_ATTEMPTS
    PROVE  Succeeded(h) \in Hook /\ HookOK(Succeeded(h), t, m)
<1> DEFINE g == WithoutTimers(h)
<1>1. g \in Hook /\ g.attempt = h.attempt
  BY WithoutTimersOK
<1> HIDE DEF g
<1>2. Succeeded(h) = [g EXCEPT !.reconnecting = FALSE, !.overlay = "reconnected"]
  BY DEF Succeeded, g
<1>3. /\ Succeeded(h) \in Hook /\ Succeeded(h).overlay = "reconnected"
      /\ ~Succeeded(h).reconnecting /\ Succeeded(h).attempt = h.attempt
  BY <1>1, <1>2 DEF Hook
<1>4. QED
  BY <1>3 DEF HookOK

LEMMA ReconnectedOK ==
    ASSUME NEW h \in Hook, NEW t, NEW m, h.attempt <= MAX_ATTEMPTS
    PROVE  Reconnected(h) \in Hook /\ HookOK(Reconnected(h), t, m)
<1> DEFINE g == WithoutTimers(Reset(h))
<1>1. g \in Hook /\ ~g.reconnecting /\ g.attempt = h.attempt
  BY ResetOK, WithoutTimersOK
<1> HIDE DEF g
<1>2. Reconnected(h) = [g EXCEPT !.overlay = IF @ = "hidden" THEN @ ELSE "reconnected"]
  BY DEF Reconnected, g
<1>3. /\ Reconnected(h) \in Hook /\ Reconnected(h).overlay \in {"hidden", "reconnected"}
      /\ ~Reconnected(h).reconnecting /\ Reconnected(h).attempt = h.attempt
  BY <1>1, <1>2 DEF Hook
<1>4. QED
  BY <1>3 DEF HookOK

-----------------------------------------------------------------------------
(* The steps *)

Status == {"disconnected", "connecting", "connected", "error"}

\* attemptReconnect of page p: nothing happens to the others.
LEMMA AttemptReconnectOK ==
    ASSUME ZInv, NEW p \in Page, NEW h \in Hook, NEW n \in Nat \ {0}, NEW cs, ConnsOK(cs),
           NEW idle \in Status,
           \A q \in Page : Tried(conns, q) => Tried(cs, q),
           Barred(h) => HookOK(h, Tried(cs, p), FALSE),
           AttemptReconnect(p, h, n, cs, idle), unmounted' = unmounted
    PROVE  HooksOK' /\ ConnsOK(conns)' /\ status' \in [Page -> Status]
<1>1. reconnection' = [reconnection EXCEPT ![p] = Attempted(h, n)]
  BY DEF AttemptReconnect
<1>2. /\ ConnsOK(conns') /\ status' \in [Page -> Status]
      /\ \A q : Tried(cs, q) => Tried(conns', q)
      /\ Barred(h) \/ GivenUp(n) \/ Tried(conns', p)
  <2>1. CASE Barred(h) \/ GivenUp(n)
    <3>1. conns' = cs /\ status' = [status EXCEPT ![p] = idle]
      BY <2>1 DEF AttemptReconnect
    <3>2. QED
      BY <2>1, <3>1 DEF ZInv, RefsOK, Status
  <2>2. CASE ~(Barred(h) \/ GivenUp(n))
    <3>1. /\ NewConnection(cs, p, "retry", RoomName, n, None, effect[p], conns')
          /\ status' = [status EXCEPT ![p] = "connecting"]
      BY <2>2 DEF AttemptReconnect
    <3>2. n \in Attempt \cup {0} /\ n # 0 /\ RoomName \in Zone /\ effect[p] \in Nat
      BY <2>2, ZoneConnectionAssumptions DEF GivenUp, Attempt, ZInv, RefsOK
    <3>3. ConnsOK(conns') /\ (\A q : Tried(cs, q) => Tried(conns', q)) /\ Tried(conns', p)
      BY <3>1, <3>2, NewConnectionOK
    <3>4. QED
      BY <3>1, <3>3 DEF ZInv, RefsOK, Status
  <2>3. QED
    BY <2>1, <2>2
<1>3. Attempted(h, n) \in Hook /\ HookOK(Attempted(h, n), Tried(conns', p), TRUE)
  BY <1>2, AttemptedOK
<1>4. reconnection' \in [Page -> Hook]
  BY <1>1, <1>3 DEF ZInv, HooksOK
<1>5. ASSUME NEW q \in Page
      PROVE  HookOK(reconnection'[q], Tried(conns', q), q \notin unmounted')
  <2>1. CASE q = p
    <3>1. reconnection'[q] = Attempted(h, n)
      BY <1>1, <2>1 DEF ZInv, HooksOK
    <3>2. QED
      BY <1>3, <2>1, <3>1 DEF HookOK
  <2>2. CASE q # p
    <3>1. reconnection'[q] = reconnection[q]
      BY <1>1, <2>2 DEF ZInv, HooksOK
    <3>2. HookOK(reconnection[q], Tried(conns, q), q \notin unmounted)
      BY DEF ZInv, HooksOK
    <3>3. Tried(conns, q) => Tried(conns', q)
      BY <1>2
    <3>4. QED
      BY <3>1, <3>2, <3>3 DEF HookOK
  <2>3. QED
    BY <2>1, <2>2
<1>6. QED
  BY <1>2, <1>4, <1>5 DEF HooksOK

\* Steps that end no attempt and leave the refs of all but p alone.
LEMMA HooksKept ==
    ASSUME ZInv, NEW p \in Page, NEW h \in Hook,
           reconnection' = [reconnection EXCEPT ![p] = h],
           unmounted \subseteq unmounted',
           \A q \in Page \ {p} : Tried(conns, q) => Tried(conns', q),
           HookOK(h, Tried(conns', p), p \notin unmounted')
    PROVE  HooksOK'
<1>1. reconnection' \in [Page -> Hook]
  BY DEF ZInv, HooksOK
<1>2. ASSUME NEW q \in Page
      PROVE  HookOK(reconnection'[q], Tried(conns', q), q \notin unmounted')
  <2>1. CASE q = p
    BY <2>1 DEF ZInv, HooksOK
  <2>2. CASE q # p
    <3>1. reconnection'[q] = reconnection[q]
      BY <2>2 DEF ZInv, HooksOK
    <3>2. HookOK(reconnection[q], Tried(conns, q), q \notin unmounted)
      BY DEF ZInv, HooksOK
    <3>3. Tried(conns, q) => Tried(conns', q)
      BY <2>2
    <3>4. q \notin unmounted' => q \notin unmounted
      OBVIOUS
    <3>5. QED
      BY <3>1, <3>2, <3>3, <3>4 DEF HookOK
  <2>3. QED
    BY <2>1, <2>2
<1>3. QED
  BY <1>1, <1>2 DEF HooksOK

LEMMA HooksUnchanged ==
    ASSUME ZInv, reconnection' = reconnection, unmounted \subseteq unmounted',
           \A q \in Page : Tried(conns, q) => Tried(conns', q)
    PROVE  HooksOK'
<1>1. ASSUME NEW q \in Page
      PROVE  HookOK(reconnection'[q], Tried(conns', q), q \notin unmounted')
  <2>1. HookOK(reconnection[q], Tried(conns, q), q \notin unmounted)
    BY DEF ZInv, HooksOK
  <2>2. QED
    BY <2>1 DEF HookOK
<1>2. QED
  BY <1>1 DEF ZInv, HooksOK

LEMMA HappensOK ==
    ASSUME ZInv, Happens
    PROVE  events' \in 0..MaxEvents
BY ZoneConnectionAssumptions DEF Happens, ZInv, RefsOK

LEMMA CancelStep ==
    ASSUME ZInv, NEW p \in Page, Cancel(p)
    PROVE  ZInv'
<1> DEFINE g == WithoutTimers(reconnection[p])
           h == [g EXCEPT !.cancelled = TRUE, !.reconnecting = FALSE, !.overlay = "disconnected"]
<1>1. /\ reconnection' = [reconnection EXCEPT ![p] = h]
      /\ UNCHANGED <<effect, unmounted, roomRef, switchingRef, status, conns>>
  BY DEF Cancel, ZInv, HooksOK
<1>2. g \in Hook /\ g.attempt <= MAX_ATTEMPTS
  BY WithoutTimersOK DEF ZInv, HooksOK, HookOK
<1> HIDE DEF g
<1>3. h \in Hook /\ h.cancelled /\ h.overlay = "disconnected" /\ ~h.reconnecting
      /\ h.attempt <= MAX_ATTEMPTS
  BY <1>2 DEF Hook
<1> HIDE DEF h
<1>4. HooksOK'
  <2>1. HookOK(h, Tried(conns', p), p \notin unmounted')
    BY <1>3 DEF HookOK
  <2>2. QED
    BY <1>1, <1>3, <2>1, HooksKept
<1>5. events' \in 0..MaxEvents
  BY HappensOK DEF Cancel
<1>6. QED
  BY <1>1, <1>4, <1>5 DEF ZInv, RefsOK

LEMMA ReturnToHubStep ==
    ASSUME ZInv, NEW p \in Page, ReturnToHub(p)
    PROVE  ZInv'
<1> DEFINE g == WithoutTimers(reconnection[p])
           h == [g EXCEPT !.cancelled = TRUE, !.reconnecting = FALSE, !.overlay = "hidden"]
<1>1. /\ reconnection' = [reconnection EXCEPT ![p] = h]
      /\ conns' = Left(conns, roomRef[p])
      /\ roomRef' = [roomRef EXCEPT ![p] = None]
      /\ UNCHANGED <<effect, unmounted, switchingRef, status>>
  BY DEF ReturnToHub, ZInv, HooksOK
<1>2. g \in Hook /\ g.attempt <= MAX_ATTEMPTS
  BY WithoutTimersOK DEF ZInv, HooksOK, HookOK
<1> HIDE DEF g
<1>3. h \in Hook /\ h.overlay = "hidden" /\ ~h.reconnecting
      /\ h.attempt <= MAX_ATTEMPTS
  BY <1>2 DEF Hook
<1> HIDE DEF h
<1>4. ConnsOK(conns') /\ \A q : Tried(conns, q) => Tried(conns', q)
  <2>1. roomRef[p] \in Conn \cup {None}
    BY DEF ZInv, RefsOK
  <2>2. QED
    BY <1>1, <2>1, LeftOK DEF ZInv
<1>5. HooksOK'
  <2>1. HookOK(h, Tried(conns', p), p \notin unmounted')
    BY <1>3 DEF HookOK
  <2>2. QED
    BY <1>1, <1>3, <1>4, <2>1, HooksKept
<1>6. events' \in 0..MaxEvents
  BY HappensOK DEF ReturnToHub
<1>7. QED
  BY <1>1, <1>4, <1>5, <1>6 DEF ZInv, RefsOK

LEMMA UnmountStep ==
    ASSUME ZInv, NEW p \in Page, Unmount(p)
    PROVE  ZInv'
<1> DEFINE h == WithoutTimers(reconnection[p])
<1>1. /\ reconnection' = [reconnection EXCEPT ![p] = h]
      /\ conns' = Left(conns, roomRef[p])
      /\ roomRef' = [roomRef EXCEPT ![p] = None]
      /\ unmounted' = unmounted \cup {p}
      /\ UNCHANGED <<effect, switchingRef, status>>
  BY DEF Unmount, ZInv, HooksOK
<1>2. /\ reconnection[p] \in Hook
      /\ HookOK(reconnection[p], Tried(conns, p), p \notin unmounted)
  BY DEF ZInv, HooksOK
<1>3. /\ h \in Hook /\ h.cancelled = reconnection[p].cancelled
      /\ h.overlay = reconnection[p].overlay /\ h.reconnecting = reconnection[p].reconnecting
      /\ h.attempt = reconnection[p].attempt
  BY <1>2, WithoutTimersOK
<1> HIDE DEF h
<1>4. ConnsOK(conns') /\ \A q : Tried(conns, q) => Tried(conns', q)
  <2>1. roomRef[p] \in Conn \cup {None}
    BY DEF ZInv, RefsOK
  <2>2. QED
    BY <1>1, <2>1, LeftOK DEF ZInv
<1>5. HooksOK'
  <2>1. HookOK(h, Tried(conns', p), p \notin unmounted')
    BY <1>1, <1>2, <1>3, <1>4 DEF HookOK
  <2>2. QED
    BY <1>1, <1>3, <1>4, <2>1, HooksKept
<1>6. events' \in 0..MaxEvents
  BY HappensOK DEF Unmount
<1>7. QED
  BY <1>1, <1>4, <1>5, <1>6 DEF ZInv, RefsOK

LEMMA RunEffectStep ==
    ASSUME ZInv, NEW p \in Page, RunEffect(p)
    PROVE  ZInv'
<1>1. /\ effect' = [effect EXCEPT ![p] = @ + 1]
      /\ NewConnection(Left(conns, roomRef[p]), p, "mount", RoomName, 0, None, effect[p] + 1, conns')
      /\ roomRef' = [roomRef EXCEPT ![p] = None]
      /\ status' = [status EXCEPT ![p] = "connecting"]
      /\ UNCHANGED <<unmounted, switchingRef, reconnection>>
  BY DEF RunEffect
<1>2. roomRef[p] \in Conn \cup {None} /\ effect[p] \in Nat /\ effect[p] + 1 \in Nat
  BY DEF ZInv, RefsOK
<1> DEFINE cs == Left(conns, roomRef[p])
<1>3. ConnsOK(cs) /\ \A q : Tried(conns, q) => Tried(cs, q)
  BY <1>2, LeftOK DEF ZInv
<1> HIDE DEF cs
<1>4. NewConnection(cs, p, "mount", RoomName, 0, None, effect[p] + 1, conns')
  BY <1>1 DEF cs
<1>5. ConnsOK(conns') /\ \A q : Tried(cs, q) => Tried(conns', q)
  BY <1>2, <1>3, <1>4, NewConnectionOK, ZoneConnectionAssumptions
<1>6. HooksOK'
  BY <1>1, <1>3, <1>5, HooksUnchanged
<1>7. events' \in 0..MaxEvents
  BY HappensOK DEF RunEffect, ZInv, RefsOK
<1>8. QED
  BY <1>1, <1>2, <1>5, <1>6, <1>7 DEF ZInv, RefsOK

LEMMA ReconnectNowStep ==
    ASSUME ZInv, NEW p \in Page, ReconnectNow(p)
    PROVE  ZInv'
<1> DEFINE n == reconnection[p].attempt + 1
           g == WithoutTimers(Reset(reconnection[p]))
           h == [g EXCEPT !.attempt = n]
<1>1. /\ AttemptReconnect(p, h, n, conns, status[p])
      /\ UNCHANGED <<effect, unmounted, roomRef, switchingRef>>
  BY DEF ReconnectNow, NextAttempt
<1>2. /\ reconnection[p] \in Hook /\ reconnection[p].attempt <= MAX_ATTEMPTS
      /\ status[p] \in Status /\ ConnsOK(conns)
  BY DEF ZInv, HooksOK, HookOK, RefsOK, Status
<1>3. n \in Nat \ {0} /\ n \in 0..(MAX_ATTEMPTS + 1)
  BY <1>2, HookFields, ZoneConnectionAssumptions
<1>4. g \in Hook /\ ~g.cancelled /\ ~g.reconnecting
  BY <1>2, ResetOK, WithoutTimersOK
<1> HIDE DEF g, n
<1>5. h \in Hook /\ ~Barred(h)
  BY <1>3, <1>4 DEF Hook, Barred
<1> HIDE DEF h
<1>6. HooksOK' /\ ConnsOK(conns)' /\ status' \in [Page -> Status]
  BY <1>1, <1>2, <1>3, <1>5, AttemptReconnectOK
<1>7. events' \in 0..MaxEvents
  BY HappensOK DEF ReconnectNow
<1>8. QED
  BY <1>1, <1>6, <1>7 DEF ZInv, RefsOK, Status

LEMMA RetryTimerStep ==
    ASSUME ZInv, NEW p \in Page, NEW n \in Attempt, RetryTimer(p, n)
    PROVE  ZInv'
<1> DEFINE k     == reconnection[p]
           spent == IF n \in k.strays THEN [k EXCEPT !.strays = @ \ {n}]
                    ELSE [k EXCEPT !.retryTimer = 0]
<1>1. /\ AttemptReconnect(p, spent, n + 1, conns, status[p])
      /\ UNCHANGED <<effect, unmounted, roomRef, switchingRef, events>>
  BY DEF RetryTimer, NextAttempt
<1>2. /\ k \in Hook /\ HookOK(k, Tried(conns, p), p \notin unmounted)
      /\ status[p] \in Status /\ ConnsOK(conns)
  BY DEF ZInv, HooksOK, RefsOK, Status
<1>3. n + 1 \in Nat \ {0}
  BY ZoneConnectionAssumptions DEF Attempt
<1> HIDE DEF k
<1>4. /\ spent \in Hook /\ spent.cancelled = k.cancelled /\ spent.overlay = k.overlay
      /\ spent.reconnecting = k.reconnecting /\ spent.attempt = k.attempt
  <2>1. CASE n \in k.strays
    <3>1. spent = [k EXCEPT !.strays = @ \ {n}]
      BY <2>1
    <3> HIDE DEF spent
    <3>2. QED
      BY <1>2, <3>1 DEF Hook
  <2>2. CASE n \notin k.strays
    <3>1. spent = [k EXCEPT !.retryTimer = 0]
      BY <2>2
    <3> HIDE DEF spent
    <3>2. QED
      BY <1>2, <3>1 DEF Hook
  <2>3. QED
    BY <2>1, <2>2
<1> HIDE DEF spent
<1>5. HookOK(spent, Tried(conns, p), FALSE)
  BY <1>2, <1>4 DEF HookOK
<1>6. HooksOK' /\ ConnsOK(conns)' /\ status' \in [Page -> Status]
  BY <1>1, <1>2, <1>3, <1>4, <1>5, AttemptReconnectOK
<1>7. QED
  BY <1>1, <1>6 DEF ZInv, RefsOK, Status

LEMMA SwitchRoomStep ==
    ASSUME ZInv, NEW c \in Conn, NEW zone \in Zone, SwitchRoom(c, zone)
    PROVE  ZInv'
<1> DEFINE p  == conns[c].page
           cs == Left(conns, roomRef[p])
<1>1. /\ In(c, "open")
      /\ switchingRef' = switchingRef \cup {p}
      /\ status' = [status EXCEPT ![p] = "connecting"]
      /\ NewConnection(cs, p, "switch", zone, 0, roomRef[p], conns[c].run, conns')
      /\ UNCHANGED <<effect, unmounted, roomRef, reconnection>>
  BY DEF SwitchRoom
<1>2. p \in Page /\ conns[c].run \in Nat
  BY <1>1, ConnectionFields DEF ZInv, ConnsOK, In, Present
<1> HIDE DEF p
<1>3. roomRef[p] \in Conn \cup {None}
  BY <1>2 DEF ZInv, RefsOK
<1>4. ConnsOK(cs) /\ \A q : Tried(conns, q) => Tried(cs, q)
  BY <1>3, LeftOK DEF ZInv
<1> HIDE DEF cs
<1>5. ConnsOK(conns') /\ \A q : Tried(cs, q) => Tried(conns', q)
  BY <1>1, <1>2, <1>3, <1>4, NewConnectionOK
<1>6. HooksOK'
  BY <1>1, <1>4, <1>5, HooksUnchanged
<1>7. events' \in 0..MaxEvents
  BY HappensOK DEF SwitchRoom
<1>8. QED
  BY <1>1, <1>2, <1>5, <1>6, <1>7 DEF ZInv, RefsOK

\* One connection is replaced or gone: the attempts of other pages stay.
LEMMA OneChanged ==
    ASSUME ConnsOK(conns), NEW c \in Conn, NEW r \in Connection \cup {None},
           r # None /\ r.why = "retry" => r.attempt # 0,
           NEW p, \A q : q # p => ~Retries(conns[c], q)
    PROVE  /\ ConnsOK([conns EXCEPT ![c] = r])
           /\ \A q : q # p /\ Tried(conns, q) => Tried([conns EXCEPT ![c] = r], q)
<1> DEFINE new == [conns EXCEPT ![c] = r]
<1>1. new \in [Conn -> Connection \cup {None}] /\ new[c] = r /\ \A d \in Conn \ {c} : new[d] = conns[d]
  BY DEF ConnsOK
<1> HIDE DEF new
<1>2. ConnsOK(new)
  BY <1>1 DEF ConnsOK
<1>3. \A q : q # p /\ Tried(conns, q) => Tried(new, q)
  BY <1>1 DEF Tried
<1>4. QED
  BY <1>2, <1>3 DEF new

LEMMA CloseStep ==
    ASSUME ZInv, NEW c \in Conn, NEW code \in {LOST, CONSENTED}, Close(c, code)
    PROVE  ZInv'
<1> DEFINE r == [conns[c] EXCEPT !.code = code]
<1>1. /\ conns[c] # None /\ conns[c].stage = "open"
      /\ conns' = [conns EXCEPT ![c] = r]
      /\ UNCHANGED <<effect, unmounted, roomRef, switchingRef, status, reconnection>>
  BY DEF Close, In, Present, ZInv, ConnsOK
<1>2. conns[c] \in Connection /\ ConnsOK(conns)
  BY <1>1 DEF ZInv, ConnsOK
<1>3. r \in Connection /\ r.why = conns[c].why /\ r.attempt = conns[c].attempt
  BY <1>2 DEF Connection, Codes
<1> HIDE DEF r
<1>4. \A q : ~Retries(conns[c], q)
  BY <1>1 DEF Retries
<1>5. r # None /\ r.why = "retry" => r.attempt # 0
  BY <1>1, <1>2, <1>3 DEF ConnsOK
<1>6. ConnsOK(conns')
  BY <1>1, <1>2, <1>3, <1>4, <1>5, OneChanged
<1>7. \A q : Tried(conns, q) => Tried(conns', q)
  BY <1>1, <1>2, <1>4 DEF Tried, ConnsOK
<1>8. HooksOK'
  BY <1>1, <1>7, HooksUnchanged
<1>9. events' \in 0..MaxEvents
  BY HappensOK DEF Close
<1>10. QED
  BY <1>1, <1>6, <1>8, <1>9 DEF ZInv, RefsOK

LEMMA ResolveStep ==
    ASSUME ZInv, NEW c \in Conn, Resolve(c)
    PROVE  ZInv'
<1> DEFINE p == conns[c].page
           r == [conns[c] EXCEPT !.stage = "open"]
           kept == conns[c].why = "retry" \/ ~Disposed(p, conns[c].run)
           opened == [conns EXCEPT ![c] = r]
           h == CASE conns[c].why = "retry" -> Succeeded(reconnection[p])
                  [] conns[c].why = "mount" /\ kept -> Reconnected(reconnection[p])
                  [] OTHER -> reconnection[p]
<1>1. conns[c] # None /\ conns[c] \in Connection /\ ConnsOK(conns)
  BY DEF Resolve, In, Present, ZInv, ConnsOK
<1>2. p \in Page
  BY <1>1, ConnectionFields
<1>3. conns' = opened \/ conns' = Left(opened, c)
  BY DEF Resolve, ConnsOK
<1>4. /\ roomRef' = [roomRef EXCEPT ![p] = c] \/ roomRef' = roomRef
      /\ status' = [status EXCEPT ![p] = "connected"] \/ status' = status
      /\ switchingRef' \subseteq switchingRef
      /\ UNCHANGED <<effect, unmounted, events>>
  BY DEF Resolve, Settled
<1>5. reconnection' = [reconnection EXCEPT ![p] = h]
  BY <1>2 DEF Resolve, ZInv, HooksOK
<1>6. r \in Connection /\ r.why = conns[c].why /\ r.attempt = conns[c].attempt
  BY <1>1 DEF Connection
<1> HIDE DEF r, kept
<1>7. /\ ConnsOK(opened)
      /\ \A q : q # p /\ Tried(conns, q) => Tried(opened, q)
      /\ conns[c].why # "retry" => \A q : Tried(conns, q) => Tried(opened, q)
  <2>1. r # None /\ r.why = "retry" => r.attempt # 0
    BY <1>1, <1>6 DEF ConnsOK
  <2>2. \A q : q # p => ~Retries(conns[c], q)
    BY DEF Retries
  <2>3. conns[c].why # "retry" => \A q : ~Retries(conns[c], q)
    BY DEF Retries
  <2>4. conns[c].why # "retry" => \A q : Tried(conns, q) => Tried(opened, q)
    BY <1>1, <2>3 DEF Tried, ConnsOK
  <2> HIDE DEF p
  <2>5. QED
    BY <1>1, <1>6, <2>1, <2>2, <2>4, OneChanged
<1> HIDE DEF opened
<1>8. /\ ConnsOK(conns')
      /\ \A q : Tried(opened, q) => Tried(conns', q)
  BY <1>3, <1>7, LeftOK
<1>9. /\ reconnection[p] \in Hook /\ reconnection[p].attempt <= MAX_ATTEMPTS
      /\ HookOK(reconnection[p], Tried(conns, p), p \notin unmounted)
  BY <1>2 DEF ZInv, HooksOK, HookOK
<1>10. h \in Hook /\ HookOK(h, Tried(conns', p), p \notin unmounted')
  <2> HIDE DEF p
  <2>1. CASE conns[c].why = "retry"
    <3>1. h = Succeeded(reconnection[p])
      BY <2>1
    <3> HIDE DEF h
    <3>2. QED
      BY <1>9, <3>1, SucceededOK
  <2>2. CASE conns[c].why = "mount" /\ kept
    <3>1. h = Reconnected(reconnection[p])
      BY <2>2
    <3> HIDE DEF h
    <3>2. QED
      BY <1>9, <3>1, ReconnectedOK
  <2>3. CASE conns[c].why # "retry" /\ ~(conns[c].why = "mount" /\ kept)
    <3>1. h = reconnection[p]
      BY <2>3
    <3>2. Tried(conns, p) => Tried(conns', p)
      BY <1>7, <1>8, <2>3
    <3> HIDE DEF h
    <3>3. QED
      BY <1>4, <1>9, <3>1, <3>2 DEF HookOK
  <2>4. QED
    BY <2>1, <2>2, <2>3
<1> HIDE DEF h
<1>11. HooksOK'
  BY <1>2, <1>4, <1>5, <1>7, <1>8, <1>10, HooksKept
<1>12. RefsOK'
  BY <1>2, <1>4 DEF ZInv, RefsOK
<1>13. QED
  BY <1>8, <1>11, <1>12 DEF ZInv

LEMMA RejectStep ==
    ASSUME ZInv, NEW c \in Conn, Reject(c)
    PROVE  ZInv'
<1> DEFINE p == conns[c].page
<1>1. conns[c] # None /\ conns[c].stage = "joining" /\ conns[c] \in Connection /\ ConnsOK(conns)
  BY DEF Reject, In, Present, ZInv, ConnsOK
<1>2. p \in Page /\ conns[c].attempt \in Attempt \cup {0}
  BY <1>1, ConnectionFields
<1>3. /\ conns' = [conns EXCEPT ![c] = None]
      /\ status' = [status EXCEPT ![p] = "error"] \/ status' = status
      /\ switchingRef' \subseteq switchingRef
      /\ UNCHANGED <<effect, unmounted, roomRef, events>>
  BY DEF Reject, Settled
<1>4. /\ ConnsOK(conns')
      /\ \A q : q # p /\ Tried(conns, q) => Tried(conns', q)
      /\ conns[c].why # "retry" => \A q : Tried(conns, q) => Tried(conns', q)
  <2>1. \A q : q # p => ~Retries(conns[c], q)
    BY DEF Retries
  <2>2. conns[c].why # "retry" => \A q : ~Retries(conns[c], q)
    BY DEF Retries
  <2>3. conns[c].why # "retry" => \A q : Tried(conns, q) => Tried(conns', q)
    BY <1>1, <1>3, <2>2 DEF Tried, ConnsOK
  <2> HIDE DEF p
  <2>4. QED
    BY <1>1, <1>3, <2>1, <2>3, OneChanged
<1>5. HooksOK'
  <2>1. CASE conns[c].why = "retry"
    <3> DEFINE n == conns[c].attempt
               h == Failed(reconnection[p], n)
    <3>1. reconnection' = [reconnection EXCEPT ![p] = h]
      BY <1>2, <2>1 DEF Reject, ZInv, HooksOK
    <3>2. n \in Attempt
      BY <1>1, <1>2, <2>1 DEF ConnsOK
    <3>3. /\ reconnection[p] \in Hook
          /\ HookOK(reconnection[p], Tried(conns, p), p \notin unmounted)
      BY <1>2 DEF ZInv, HooksOK
    <3>4. HookOK(reconnection[p], TRUE, p \notin unmounted)
      BY <3>3 DEF HookOK
    <3> HIDE DEF p, n
    <3>5. h \in Hook /\ HookOK(h, Tried(conns', p), p \notin unmounted)
      BY <3>2, <3>3, <3>4, FailedOK
    <3> HIDE DEF h
    <3>6. QED
      BY <1>2, <1>3, <1>4, <3>1, <3>5, HooksKept
  <2>2. CASE conns[c].why # "retry"
    BY <1>3, <1>4, <2>2, HooksUnchanged DEF Reject
  <2>3. QED
    BY <2>1, <2>2
<1>6. RefsOK'
  BY <1>2, <1>3 DEF ZInv, RefsOK
<1>7. QED
  BY <1>4, <1>5, <1>6 DEF ZInv

LEMMA OnLeaveStep ==
    ASSUME ZInv, NEW c \in Conn, OnLeave(c)
    PROVE  ZInv'
<1> DEFINE p == conns[c].page
           ended == [d \in Conn |->
               IF d = c THEN None
               ELSE IF In(d, "leaving") /\ conns[d].from = c
                    THEN [conns[d] EXCEPT !.stage = "joining", !.from = None]
                    ELSE conns[d]]
           g == Reset(reconnection[p])
           h == [g EXCEPT !.attempt = 1, !.overlay = "reconnecting"]
<1>1. conns[c] # None /\ conns[c].stage = "open" /\ conns[c] \in Connection /\ ConnsOK(conns)
  BY DEF OnLeave, In, Present, ZInv, ConnsOK
<1>2. p \in Page
  BY <1>1, ConnectionFields
<1>3. /\ UNCHANGED <<effect, unmounted, switchingRef, events>>
      /\ \/ conns' = ended /\ UNCHANGED <<roomRef, status, reconnection>>
         \/ /\ roomRef' = [roomRef EXCEPT ![p] = None] /\ conns' = ended
            /\ status' = [status EXCEPT ![p] = "disconnected"]
            /\ UNCHANGED reconnection
         \/ /\ roomRef' = [roomRef EXCEPT ![p] = None]
            /\ AttemptReconnect(p, h, 1, ended, "disconnected")
  BY DEF OnLeave, Disconnected
<1>4. ASSUME NEW d \in Conn
      PROVE  /\ ended[d] \in Connection \cup {None}
             /\ ended[d] # None /\ ended[d].why = "retry" => ended[d].attempt # 0
             /\ \A q : Retries(conns[d], q) => Retries(ended[d], q)
  <2>1. CASE d = c
    BY <1>1, <2>1 DEF Retries
  <2>2. CASE d # c /\ In(d, "leaving") /\ conns[d].from = c
    <3> DEFINE r == [conns[d] EXCEPT !.stage = "joining", !.from = None]
    <3>1. ended[d] = r
      BY <2>2
    <3>2. conns[d] \in Connection /\ conns[d] # None /\ conns[d].stage = "leaving"
      BY <1>1, <2>2 DEF ConnsOK, In, Present
    <3>3. r \in Connection /\ r.why = conns[d].why /\ r.attempt = conns[d].attempt
      BY <3>2 DEF Connection
    <3> HIDE DEF r, ended
    <3>4. \A q : ~Retries(conns[d], q)
      BY <3>2 DEF Retries
    <3>5. QED
      BY <1>1, <3>1, <3>2, <3>3, <3>4 DEF ConnsOK
  <2>3. CASE d # c /\ ~(In(d, "leaving") /\ conns[d].from = c)
    <3>1. ended[d] = conns[d]
      BY <2>3
    <3> HIDE DEF ended
    <3>2. QED
      BY <1>1, <3>1 DEF ConnsOK
  <2>4. QED
    BY <2>1, <2>2, <2>3
<1>5. ended = [d \in Conn |-> ended[d]]
  OBVIOUS
<1> HIDE DEF ended
<1>6. ConnsOK(ended) /\ \A q : Tried(conns, q) => Tried(ended, q)
  BY <1>4, <1>5 DEF ConnsOK, Tried
<1>7. g \in Hook /\ ~g.cancelled /\ ~g.reconnecting
  BY <1>2, ResetOK DEF ZInv, HooksOK
<1> HIDE DEF g, p
<1>8. h \in Hook /\ ~Barred(h)
  <2>1. 1 \in 0..(MAX_ATTEMPTS + 1)
    BY ZoneConnectionAssumptions
  <2>2. h \in Hook /\ h.cancelled = g.cancelled /\ h.reconnecting = g.reconnecting
    BY <1>7, <2>1 DEF Hook
  <2> HIDE DEF h
  <2>3. QED
    BY <1>7, <2>2 DEF Barred
<1> HIDE DEF h
<1>9. HooksOK' /\ ConnsOK(conns)' /\ status' \in [Page -> Status]
  <2>1. CASE ~AttemptReconnect(p, h, 1, ended, "disconnected")
    <3>1. /\ conns' = ended /\ reconnection' = reconnection
          /\ status' = status \/ status' = [status EXCEPT ![p] = "disconnected"]
      BY <1>3, <2>1
    <3>2. HooksOK'
      BY <1>3, <1>6, <3>1, HooksUnchanged
    <3>3. QED
      BY <1>2, <1>6, <3>1, <3>2 DEF ZInv, RefsOK, Status
  <2>2. CASE AttemptReconnect(p, h, 1, ended, "disconnected")
    <3>1. "disconnected" \in Status /\ 1 \in Nat \ {0}
      BY DEF Status
    <3>2. unmounted' = unmounted /\ \A q \in Page : Tried(conns, q) => Tried(ended, q)
      BY <1>3, <1>6
    <3>3. QED
      BY <1>2, <1>6, <1>8, <2>2, <3>1, <3>2, AttemptReconnectOK
  <2>3. QED
    BY <2>1, <2>2
<1>10. RefsOK'
  BY <1>2, <1>3, <1>9 DEF ZInv, RefsOK, Status
<1>11. QED
  BY <1>9, <1>10 DEF ZInv

LEMMA AdmitStep ==
    ASSUME ZInv, NEW c \in Conn, Admit(c)
    PROVE  ZInv'
<1>1. conns[c] # None /\ conns[c].stage = "joining" /\ conns[c] \in Connection /\ ConnsOK(conns)
  BY DEF Admit, In, Present, ZInv, ConnsOK
<1>2. UNCHANGED <<effect, unmounted, roomRef, switchingRef, status, reconnection, events>>
  BY DEF Admit
<1>3. conns' = [d \in Conn |-> conns'[d]]
  BY DEF Admit
<1>4. ASSUME NEW d \in Conn
      PROVE  /\ conns'[d] \in Connection \cup {None}
             /\ conns'[d] # None /\ conns'[d].why = "retry" => conns'[d].attempt # 0
             /\ \A q : Retries(conns[d], q) => Retries(conns'[d], q)
  <2>1. \/ conns'[d] = conns[d]
        \/ d = c /\ conns'[d] = [conns[d] EXCEPT !.stage = "admitted"]
        \/ conns[d] # None /\ conns'[d] = [conns[d] EXCEPT !.code = DISPLACED]
    BY DEF Admit, In, Present
  <2>2. CASE conns'[d] = conns[d]
    BY <1>1, <2>2 DEF ConnsOK
  <2>3. CASE conns[d] # None /\ conns'[d] = [conns[d] EXCEPT !.code = DISPLACED]
    <3>1. conns[d] \in Connection
      BY <1>1, <2>3 DEF ConnsOK
    <3>2. /\ conns'[d] \in Connection /\ conns'[d].why = conns[d].why
          /\ conns'[d].attempt = conns[d].attempt /\ conns'[d].stage = conns[d].stage
          /\ conns'[d].page = conns[d].page
      BY <2>3, <3>1 DEF Connection, Codes
    <3>3. conns'[d] # None
      BY <3>2, NoneIsNoConnection
    <3>4. QED
      BY <1>1, <2>3, <3>2, <3>3 DEF ConnsOK, Retries
  <2>4. CASE d = c /\ conns'[d] = [conns[d] EXCEPT !.stage = "admitted"]
    <3>1. /\ conns'[d] \in Connection /\ conns'[d].why = conns[d].why
          /\ conns'[d].attempt = conns[d].attempt /\ conns'[d].stage = "admitted"
          /\ conns'[d].page = conns[d].page
      BY <1>1, <2>4 DEF Connection
    <3>2. conns'[d] # None
      BY <3>1, NoneIsNoConnection
    <3>3. QED
      BY <1>1, <2>4, <3>1, <3>2 DEF ConnsOK, Retries
  <2>5. QED
    BY <2>1, <2>2, <2>3, <2>4
<1>5. ConnsOK(conns') /\ \A q : Tried(conns, q) => Tried(conns', q)
  BY <1>3, <1>4 DEF ConnsOK, Tried
<1>6. HooksOK'
  BY <1>2, <1>5, HooksUnchanged
<1>7. QED
  BY <1>2, <1>5, <1>6 DEF ZInv, RefsOK

-----------------------------------------------------------------------------
(* The specification *)

LEMMA InitInv ==
    ASSUME Init
    PROVE  ZInv
<1>1. RefsOK
  BY ZoneConnectionAssumptions DEF Init, RefsOK
<1>2. ConnsOK(conns)
  BY DEF Init, ConnsOK
<1>3. /\ NewHook \in Hook /\ NewHook.attempt = 0 /\ NewHook.overlay = "hidden"
      /\ ~NewHook.reconnecting /\ ~NewHook.cancelled
  BY ZoneConnectionAssumptions DEF NewHook, Hook
<1>4. reconnection = [p \in Page |-> NewHook] /\ 0 <= MAX_ATTEMPTS
  BY ZoneConnectionAssumptions DEF Init
<1> HIDE DEF NewHook
<1>5. HooksOK
  BY <1>3, <1>4 DEF HooksOK, HookOK
<1>6. QED
  BY <1>1, <1>2, <1>5 DEF ZInv

LEMMA NextInv == ZInv /\ [Next]_vars => ZInv'
<1> SUFFICES ASSUME ZInv, [Next]_vars
             PROVE  ZInv'
  OBVIOUS
<1>1. CASE UNCHANGED vars
  <2>1. UNCHANGED <<effect, unmounted, roomRef, switchingRef, status, reconnection, conns, events>>
    BY <1>1 DEF vars
  <2>2. QED
    BY <2>1 DEF ZInv, RefsOK, ConnsOK, HooksOK, HookOK, Tried
<1>2. ASSUME NEW p \in Page,
             RunEffect(p) \/ Unmount(p) \/ Cancel(p) \/ ReconnectNow(p) \/ ReturnToHub(p)
      PROVE  ZInv'
  BY <1>2, RunEffectStep, UnmountStep, CancelStep, ReconnectNowStep, ReturnToHubStep
<1>3. ASSUME NEW p \in Page, NEW n \in Attempt, RetryTimer(p, n)
      PROVE  ZInv'
  BY <1>3, RetryTimerStep
<1>4. ASSUME NEW c \in Conn, NEW z \in Zone, SwitchRoom(c, z)
      PROVE  ZInv'
  BY <1>4, SwitchRoomStep
<1>5. ASSUME NEW c \in Conn, NEW code \in {LOST, CONSENTED}, Close(c, code)
      PROVE  ZInv'
  BY <1>5, CloseStep
<1>6. ASSUME NEW c \in Conn, Answer(c) \/ Resolve(c) \/ OnLeave(c)
      PROVE  ZInv'
  BY <1>6, AdmitStep, RejectStep, ResolveStep, OnLeaveStep DEF Answer
<1>7. QED
  BY <1>1, <1>2, <1>3, <1>4, <1>5, <1>6 DEF Next, Outside

\* The invariant holds in every state of every behaviour.
THEOREM ConnectionInvariant == Spec => []ZInv
BY InitInv, NextInv, PTL DEF Spec

\* What the refs of a page and the connections may be; no attempt of
\* useReconnection.ts has a number past the last.
THEOREM RefsTyped == Spec => []TypeOK
<1>1. ZInv => TypeOK
  BY InvImplies
<1>2. QED
  BY <1>1, ConnectionInvariant, PTL

\* Whenever a mounted page says that it is reconnecting, an attempt of it is
\* under way.
THEOREM SpinnersAlwaysWork == Spec => []SpinnersWork
<1>1. ZInv => SpinnersWork
  BY InvImplies
<1>2. QED
  BY <1>1, ConnectionInvariant, PTL

\* A mounted page that says the connection is lost will try again by itself,
\* was told not to, or has made its last attempt.
THEOREM NoEndIsSilent == Spec => []NoSilentEnd
<1>1. ZInv => NoSilentEnd
  BY InvImplies
<1>2. QED
  BY <1>1, ConnectionInvariant, PTL
=============================================================================
