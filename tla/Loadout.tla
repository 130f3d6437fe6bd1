------------------------------- MODULE Loadout ------------------------------
(***************************************************************************)
(* LoadoutService for one player: equip, unequip and equip-from-pack calls *)
(* over a stash repository and a loadout repository, serialised by the     *)
(* player's OperationLock.                                                 *)
(*                                                                         *)
(* Every awaited repository call is one step.  Any of them may reject, and *)
(* a death clears the loadout without taking the lock.  An item is one     *)
(* piece, a stack several; both repositories keep nothing of it that       *)
(* matters here but where it is.                                           *)
(*                                                                         *)
(* A player is here what the rows are keyed by, an account.  The lock is a *)
(* field of the service, and every ZoneRoom makes a service of its own: it *)
(* excludes calls of one zone, and the module is about one zone.  Calls    *)
(* for one account in two zones, which nothing excludes, are left out.     *)
(***************************************************************************)
CONSTANTS
    Item,       \* item instances
    Slot,       \* equipment slots
    Call,       \* bound: calls that may be going on at a time
    None,       \* null
    Fits,       \* SLOT_ACCEPTS: slot -> the items it takes
    Light       \* the sets of items within the stash's weight capacity

ASSUME LoadoutAssumptions ==
    /\ None \notin Item
    /\ None \notin Call
    /\ Fits \in [Slot -> SUBSET Item]
    /\ Light \subseteq SUBSET Item

VARIABLES
    stash,      \* the player's entries in the stash repository
    loadout,    \* slot -> the item in it, or None
    lock,       \* the call that locks.get(playerId) belongs to, or None
    calls,      \* the calls and how far they are
    mishaps     \* what has interrupted an operation so far

vars == <<stash, loadout, lock, calls, mishaps>>

Op == {"equip", "wear", "unequip"}

\* waiting: in acquire.  The others name the next thing the call does.
Stage == {"waiting", "find", "read", "take", "return", "place",
          "weigh", "empty", "store", "end"}

NoCall == [pc |-> "none"]

CallState ==
    {NoCall} \cup
    [op : Op, item : Item \cup {None}, slot : Slot, seen : Item \cup {None}, pc : Stage]

Running(c) == calls[c].pc \notin {"none", "waiting"}

Goto(c, stage) == calls' = [calls EXCEPT ![c].pc = stage]

Worn == {loadout[s] : s \in Slot} \ {None}

\* Items a call has on its hands: asked to be worn, taken from the stash, or
\* read from a slot.
InHand(c) ==
    IF calls[c].pc = "none" THEN {}
    ELSE {calls[c].seen} \cup
         IF calls[c].op = "wear" \/ calls[c].pc \in {"return", "place"}
         THEN {calls[c].item} ELSE {}

Init ==
    /\ stash \in SUBSET Item
    /\ loadout = [s \in Slot |-> None]
    /\ lock = None
    /\ calls = [c \in Call |-> NoCall]
    /\ mishaps = {}

-----------------------------------------------------------------------------
(* Calls and the lock                                                      *)

Begin(c, op, item, slot) ==
    /\ calls[c] = NoCall
    /\ calls' = [calls EXCEPT ![c] =
            [op |-> op, item |-> item, slot |-> slot, seen |-> None, pc |-> "waiting"]]
    /\ UNCHANGED <<stash, loadout, lock, mishaps>>

\* equipItem and swapItem: the item is whatever the client names.
Equip(c, i, s) == Begin(c, "equip", i, s)

\* equipFromInventory.  The caller makes a new instance of what it hands over
\* (toStashItemInstance); that the pack loses it is the caller's business.
Wear(c, i, s) ==
    /\ i \notin stash \cup Worn
    /\ \A d \in Call : i \notin InHand(d)
    /\ Begin(c, "wear", i, s)

Unequip(c, s) == Begin(c, "unequip", None, s)

\* An item from the pack is held against the slot before anything is read.
FirstStage(call) ==
    IF call.op = "equip" THEN "find"
    ELSE IF call.op = "wear" /\ call.item \notin Fits[call.slot] THEN "end"
    ELSE "read"

\* Mutant: a waiter that is woken does not look again.
AcquireUnchecked(c) ==
    /\ calls[c].pc = "waiting"
    /\ lock' = c
    /\ Goto(c, FirstStage(calls[c]))
    /\ UNCHANGED <<stash, loadout, mishaps>>

\* acquire: the loop ends when the map has no entry, which is then set.
Acquire(c) ==
    /\ calls[c].pc = "waiting"
    /\ lock = None
    /\ lock' = c
    /\ Goto(c, FirstStage(calls[c]))
    /\ UNCHANGED <<stash, loadout, mishaps>>

\* The finally block.
Release(c) ==
    /\ lock' = None
    /\ calls' = [calls EXCEPT ![c] = NoCall]

Finish(c) ==
    /\ calls[c].pc = "end"
    /\ Release(c)
    /\ UNCHANGED <<stash, loadout, mishaps>>

\* The call has begun to write and has more to write.
MidWrite(c) ==
    \/ calls[c].pc \in {"return", "store"}
    \/ calls[c].pc = "place" /\ calls[c].op = "equip"

\* Mutant: released on success only.
FailLocked(c) ==
    /\ Running(c)
    /\ calls' = [calls EXCEPT ![c] = NoCall]
    /\ mishaps' = mishaps \cup (IF MidWrite(c) THEN {"failure"} ELSE {})
    /\ UNCHANGED <<stash, loadout, lock>>

\* The awaited repository call rejects.  Nothing is undone.
Fail(c) ==
    /\ Running(c)
    /\ Release(c)
    /\ mishaps' = mishaps \cup (IF MidWrite(c) THEN {"failure"} ELSE {})
    /\ UNCHANGED <<stash, loadout>>

-----------------------------------------------------------------------------
(* The steps of an operation                                               *)

\* loadStash: the item must be there and suit the slot.
Find(c) ==
    /\ calls[c].pc = "find"
    /\ Goto(c, IF calls[c].item \in stash \cap Fits[calls[c].slot] THEN "read" ELSE "end")
    /\ UNCHANGED <<stash, loadout, lock, mishaps>>

\* load: what is in the slot is remembered.
Read(c) ==
    LET seen == loadout[calls[c].slot]
        next == IF calls[c].op = "equip" THEN "take"
                ELSE IF calls[c].op = "wear" THEN "place"
                ELSE IF seen = None THEN "end" ELSE "weigh"
    IN  /\ calls[c].pc = "read"
        /\ calls' = [calls EXCEPT ![c].seen = seen, ![c].pc = next]
        /\ UNCHANGED <<stash, loadout, lock, mishaps>>

\* removeItem, which finds nothing if the item has gone meanwhile.
Take(c) ==
    /\ calls[c].pc = "take"
    /\ stash' = stash \ {calls[c].item}
    /\ Goto(c, IF calls[c].item \notin stash THEN "end"
               ELSE IF calls[c].seen = None THEN "place" ELSE "return")
    /\ UNCHANGED <<loadout, lock, mishaps>>

\* Mutant: the displaced item is not put back.
ReturnNothing(c) ==
    /\ calls[c].pc = "return"
    /\ Goto(c, "place")
    /\ UNCHANGED <<stash, loadout, lock, mishaps>>

\* addItem of the displaced item.
Return(c) ==
    /\ calls[c].pc = "return"
    /\ stash' = stash \cup {calls[c].seen}
    /\ Goto(c, "place")
    /\ UNCHANGED <<loadout, lock, mishaps>>

\* setSlot.
Place(c) ==
    /\ calls[c].pc = "place"
    /\ loadout' = [loadout EXCEPT ![calls[c].slot] = calls[c].item]
    /\ Goto(c, "end")
    /\ UNCHANGED <<stash, lock, mishaps>>

\* The stash must bear the item's weight: two reads, of what only the lock's
\* holder changes.
Weigh(c) ==
    /\ calls[c].pc = "weigh"
    /\ Goto(c, IF stash \cup {calls[c].seen} \in Light THEN "empty" ELSE "end")
    /\ UNCHANGED <<stash, loadout, lock, mishaps>>

\* Mutant: the slot keeps its item.
EmptyNothing(c) ==
    /\ calls[c].pc = "empty"
    /\ Goto(c, "store")
    /\ UNCHANGED <<stash, loadout, lock, mishaps>>

\* setSlot(null).
Empty(c) ==
    /\ calls[c].pc = "empty"
    /\ loadout' = [loadout EXCEPT ![calls[c].slot] = None]
    /\ Goto(c, "store")
    /\ UNCHANGED <<stash, lock, mishaps>>

\* addItem of the unequipped item.
Store(c) ==
    /\ calls[c].pc = "store"
    /\ stash' = stash \cup {calls[c].seen}
    /\ Goto(c, "end")
    /\ UNCHANGED <<loadout, lock, mishaps>>

Step(c) ==
    \/ Find(c)
    \/ Read(c)
    \/ Take(c)
    \/ Return(c)
    \/ Place(c)
    \/ Weigh(c)
    \/ Empty(c)
    \/ Store(c)
    \/ Finish(c)

\* clearLoadout, on death: it does not take the lock, and may come after an
\* operation has read the slot.
Wipe ==
    /\ loadout' = [s \in Slot |-> None]
    /\ mishaps' = mishaps \cup
            IF \E c \in Call : Running(c) /\ calls[c].pc \notin {"find", "read", "end"}
            THEN {"death"} ELSE {}
    /\ UNCHANGED <<stash, lock, calls>>

Next ==
    \/ \E c \in Call, i \in Item, s \in Slot : Equip(c, i, s)
    \/ \E c \in Call, i \in Item, s \in Slot : Wear(c, i, s)
    \/ \E c \in Call, s \in Slot : Unequip(c, s)
    \/ \E c \in Call : Acquire(c)
    \/ \E c \in Call : Step(c)
    \/ \E c \in Call : Fail(c)
    \/ Wipe

\* Repositories answer, one way or the other.  Those who wait for the lock are
\* woken in the order they came, so that each has its turn.
Fairness ==
    \A c \in Call : WF_vars(Step(c) \/ Fail(c)) /\ SF_vars(Acquire(c))

Spec == Init /\ [][Next]_vars /\ Fairness

-----------------------------------------------------------------------------
(* Properties that hold                                                    *)

\* Every map and record is well-formed.
TypeOK ==
    /\ stash \subseteq Item
    /\ loadout \in [Slot -> Item \cup {None}]
    /\ lock \in Call \cup {None}
    /\ calls \in [Call -> CallState]
    /\ mishaps \subseteq {"failure", "death"}

\* Between acquire and release there is one call at most, the one the map's
\* entry belongs to.
LockExcludes == \A c \in Call : Running(c) <=> lock = c

OnePlace ==
    /\ stash \cap Worn = {}
    /\ \A s, t \in Slot : loadout[s] = loadout[t] => s = t \/ loadout[s] = None

\* No call going on, no item is in two places: a displaced item leaves the slot
\* it was in, an unequipped one too, also when a death comes in between.
NothingDoubled == lock = None /\ "failure" \notin mishaps => OnePlace

\* Whoever asks gets an answer: the lock is always let go of.
CallsEnd == \A c \in Call : calls[c] # NoCall ~> calls[c] = NoCall

\* The stash and the loadout as they were before the call that is writing.
KeptBefore ==
    IF lock = None \/ calls[lock].op # "equip" THEN stash
    ELSE IF calls[lock].pc = "return" THEN stash \cup {calls[lock].item}
    ELSE IF calls[lock].pc = "place"
         THEN (stash \cup {calls[lock].item}) \ {calls[lock].seen}
    ELSE stash

WornBefore ==
    IF lock # None /\ calls[lock].pc = "store"
    THEN [loadout EXCEPT ![calls[lock].slot] = calls[lock].seen]
    ELSE loadout

Promise == INSTANCE Vault WITH
    kept <- KeptBefore, worn <- WornBefore, intact <- mishaps = {}

\* "All equip/unequip/swap operations are atomic", as long as no repository
\* fails and no death strikes in the middle of one.
ImplementsVault == Promise!Spec

-----------------------------------------------------------------------------
(* What a comment says, and the code does not do                           *)

\* "Rollback on any failure (no item duplication, no item loss)".  The displaced
\* item is added to the stash before the slot lets go of it, and stays in both
\* if setSlot fails.
FailuresDoubleNothing == lock = None => OnePlace
=============================================================================
