---------------------------- MODULE LoadoutProofs ---------------------------
(***************************************************************************)
(* What LoadoutService keeps to for any number of items, slots and calls.  *)
(*                                                                         *)
(* That no item is in two places between calls is not inductive: it needs  *)
(* to be known of every item a call has on its hands, and at which stage,  *)
(* that it is nowhere else.                                                *)
(***************************************************************************)
EXTENDS Loadout, TLAPS

\* The call holds an item that is neither in the stash nor in a slot.
Loose(c) ==
    \/ calls[c].pc = "return"
    \/ calls[c].pc = "place"
    \/ calls[c].pc \in {"waiting", "read"} /\ calls[c].op = "wear"

\* The call remembers what it read from its slot and has yet to store it.
Remembers(c) == calls[c].pc \in {"take", "return", "weigh", "empty", "store"}

\* Put aside the slot that an equip call is about to fill.
Filling(c, s) ==
    calls[c].pc = "place" /\ calls[c].op = "equip" /\ s = calls[c].slot

Distinct == \A s, t \in Slot : loadout[s] = loadout[t] => s = t \/ loadout[s] = None

Apart == \A s \in Slot : loadout[s] \in stash => \E c \in Call : Filling(c, s)

LooseOut ==
    \A c \in Call : Loose(c) =>
        /\ calls[c].item \in Item \ stash
        /\ \A s \in Slot : loadout[s] # calls[c].item

LooseApart ==
    \A c, d \in Call : Loose(c) =>
        /\ Loose(d) /\ c # d => calls[c].item # calls[d].item
        /\ Remembers(d) => calls[c].item # calls[d].seen

SeenOut ==
    \A c \in Call : Remembers(c) =>
        /\ calls[c].seen \notin stash
        /\ \A s \in Slot : loadout[s] = calls[c].seen =>
                calls[c].seen = None \/ (s = calls[c].slot /\ calls[c].pc # "store")

Stages ==
    \A c \in Call :
        /\ calls[c].pc \in {"find", "take", "return"} => calls[c].op = "equip"
        /\ calls[c].pc = "place" => calls[c].op \in {"equip", "wear"}
        /\ calls[c].pc \in {"return", "weigh", "empty", "store"} => calls[c].seen # None

Placed == Distinct /\ Apart /\ LooseOut /\ LooseApart /\ SeenOut

IInv ==
    /\ TypeOK
    /\ LockExcludes
    /\ Stages
    /\ "failure" \notin mishaps => Placed

-----------------------------------------------------------------------------
(* Records of calls                                                        *)

\* A call is absent or a full record.
LEMMA CallFields ==
    ASSUME TypeOK, NEW c \in Call
    PROVE  \/ calls[c] = NoCall
           \/ /\ calls[c] \in [op : Op, item : Item \cup {None}, slot : Slot,
                               seen : Item \cup {None}, pc : Stage]
              /\ calls[c].pc \in Stage
              /\ calls[c].slot \in Slot
BY DEF TypeOK, CallState

\* A call that is somewhere has all its fields.
LEMMA Present ==
    ASSUME TypeOK, NEW c \in Call, calls[c].pc # "none"
    PROVE  /\ calls[c].op \in Op
           /\ calls[c].item \in Item \cup {None}
           /\ calls[c].slot \in Slot
           /\ calls[c].seen \in Item \cup {None}
           /\ calls[c].pc \in Stage
BY CallFields DEF NoCall

\* Going on to another stage changes nothing else.
LEMMA GotoStep ==
    ASSUME TypeOK, NEW c \in Call, calls[c].pc # "none", NEW x \in Stage, Goto(c, x)
    PROVE  /\ calls' \in [Call -> CallState]
           /\ calls'[c].pc = x
           /\ calls'[c].op = calls[c].op
           /\ calls'[c].item = calls[c].item
           /\ calls'[c].slot = calls[c].slot
           /\ calls'[c].seen = calls[c].seen
           /\ \A d \in Call : d # c => calls'[d] = calls[d]
<1>1. calls[c] \in [op : Op, item : Item \cup {None}, slot : Slot,
                    seen : Item \cup {None}, pc : Stage]
  BY CallFields DEF NoCall
<1>2. calls' = [calls EXCEPT ![c] = [calls[c] EXCEPT !.pc = x]]
  BY DEF Goto
<1>3. [calls[c] EXCEPT !.pc = x] \in CallState
  BY <1>1 DEF CallState
<1>4. QED
  BY <1>1, <1>2, <1>3 DEF TypeOK

\* Letting go of the lock ends the call and no other.
LEMMA ReleaseStep ==
    ASSUME TypeOK, NEW c \in Call, Release(c)
    PROVE  /\ calls' \in [Call -> CallState]
           /\ calls'[c] = NoCall
           /\ calls'[c].pc = "none"
           /\ lock' = None
           /\ \A d \in Call : d # c => calls'[d] = calls[d]
BY DEF TypeOK, CallState, Release, NoCall

\* A new call waits for the lock.
LEMMA BeginStep ==
    ASSUME TypeOK, NEW c \in Call, NEW op \in Op, NEW i \in Item \cup {None},
           NEW s \in Slot, Begin(c, op, i, s)
    PROVE  /\ calls' \in [Call -> CallState]
           /\ calls'[c].pc = "waiting"
           /\ calls'[c].op = op
           /\ calls'[c].item = i
           /\ calls[c].pc = "none"
           /\ \A d \in Call : d # c => calls'[d] = calls[d]
           /\ UNCHANGED <<stash, loadout, lock, mishaps>>
<1> DEFINE new == [op |-> op, item |-> i, slot |-> s, seen |-> None, pc |-> "waiting"]
<1>1. new \in CallState
  BY DEF CallState, Stage
<1>2. calls' = [calls EXCEPT ![c] = new]
  BY DEF Begin
<1>3. calls[c].pc = "none"
  BY DEF Begin, NoCall
<1>4. calls'[c] = new
  BY <1>2 DEF TypeOK
<1>5. QED
  BY <1>1, <1>2, <1>3, <1>4 DEF TypeOK, Begin

\* Reading the slot remembers what is in it.
LEMMA ReadStep ==
    ASSUME TypeOK, NEW c \in Call, Read(c)
    PROVE  /\ calls' \in [Call -> CallState]
           /\ calls[c].pc = "read"
           /\ UNCHANGED <<stash, loadout, lock, mishaps>>
           /\ calls'[c].seen = loadout[calls[c].slot]
           /\ calls'[c].op = calls[c].op
           /\ calls'[c].item = calls[c].item
           /\ calls'[c].slot = calls[c].slot
           /\ calls'[c].pc = IF calls[c].op = "equip" THEN "take"
                             ELSE IF calls[c].op = "wear" THEN "place"
                             ELSE IF loadout[calls[c].slot] = None THEN "end"
                             ELSE "weigh"
           /\ \A d \in Call : d # c => calls'[d] = calls[d]
<1> DEFINE seen == loadout[calls[c].slot]
           next == IF calls[c].op = "equip" THEN "take"
                   ELSE IF calls[c].op = "wear" THEN "place"
                   ELSE IF seen = None THEN "end" ELSE "weigh"
<1>1. /\ calls[c] \in [op : Op, item : Item \cup {None}, slot : Slot,
                       seen : Item \cup {None}, pc : Stage]
      /\ calls[c].slot \in Slot
  BY CallFields DEF NoCall, Read
<1>2. seen \in Item \cup {None}
  BY <1>1 DEF TypeOK
<1>3. next \in Stage
  BY DEF Stage
<1> HIDE DEF seen, next
<1>4. calls' = [calls EXCEPT ![c] = [calls[c] EXCEPT !.seen = seen, !.pc = next]]
  BY DEF Read, seen, next
<1>5. [calls[c] EXCEPT !.seen = seen, !.pc = next] \in CallState
  BY <1>1, <1>2, <1>3 DEF CallState
<1>6. calls' \in [Call -> CallState] /\ \A d \in Call : d # c => calls'[d] = calls[d]
  BY <1>4, <1>5 DEF TypeOK
<1>7. calls'[c] = [calls[c] EXCEPT !.seen = seen, !.pc = next]
  BY <1>4 DEF TypeOK
<1>8. /\ calls'[c].seen = seen
      /\ calls'[c].op = calls[c].op
      /\ calls'[c].item = calls[c].item
      /\ calls'[c].slot = calls[c].slot
      /\ calls'[c].pc = next
  BY <1>1, <1>7
<1>9. QED
  BY <1>6, <1>8 DEF seen, next, Read

-----------------------------------------------------------------------------
(* Types, the lock and the stages of a call                                *)

\* Where a stage may lead.
Onward(c, x) ==
    /\ x \in {"read", "return", "place", "empty", "store", "end"}
    /\ x = "read" => calls[c].pc = "find"
    /\ x = "return" => calls[c].pc = "take" /\ calls[c].seen # None
    /\ x = "place" => calls[c].pc \in {"take", "return"}
    /\ x = "empty" => calls[c].pc = "weigh"
    /\ x = "store" => calls[c].pc = "empty"

\* A step within an operation goes on to one other stage.
LEMMA Advance ==
    ASSUME TypeOK, NEW c \in Call,
           \/ Find(c) \/ Take(c) \/ Return(c) \/ Place(c)
           \/ Weigh(c) \/ Empty(c) \/ Store(c)
    PROVE  /\ Running(c)
           /\ calls[c].pc # "none"
           /\ \E x \in Stage : Goto(c, x) /\ Onward(c, x)
<1> USE DEF Stage, Onward
<1>1. CASE Find(c)
  BY <1>1 DEF Find, Running
<1>2. CASE Take(c)
  BY <1>2 DEF Take, Running
<1>3. CASE Return(c) \/ Place(c)
  BY <1>3 DEF Return, Place, Running
<1>4. CASE Weigh(c)
  BY <1>4 DEF Weigh, Running
<1>5. CASE Empty(c) \/ Store(c)
  BY <1>5 DEF Empty, Store, Running
<1>6. QED
  BY <1>1, <1>2, <1>3, <1>4, <1>5

\* Every step keeps the types.
LEMMA TypeStep ==
    ASSUME TypeOK, Stages, [Next]_vars
    PROVE  TypeOK'
<1> USE LoadoutAssumptions
<1>1. ASSUME NEW c \in Call, NEW op \in Op, NEW i \in Item \cup {None}, NEW s \in Slot,
             Begin(c, op, i, s)
      PROVE  TypeOK'
  BY <1>1, BeginStep DEF TypeOK
<1>2. ASSUME NEW c \in Call, NEW i \in Item, NEW s \in Slot, Equip(c, i, s) \/ Wear(c, i, s)
      PROVE  TypeOK'
  BY <1>1, <1>2 DEF Equip, Wear, Op
<1>3. ASSUME NEW c \in Call, NEW s \in Slot, Unequip(c, s)
      PROVE  TypeOK'
  BY <1>1, <1>3 DEF Unequip, Op
<1>4. ASSUME NEW c \in Call, Acquire(c)
      PROVE  TypeOK'
  <2>1. FirstStage(calls[c]) \in Stage /\ calls[c].pc # "none"
    BY <1>4 DEF Acquire, FirstStage, Stage
  <2>2. QED
    BY <1>4, <2>1, GotoStep DEF Acquire, TypeOK
<1>5. ASSUME NEW c \in Call, Finish(c) \/ Fail(c)
      PROVE  TypeOK'
  BY <1>5, ReleaseStep DEF Finish, Fail, TypeOK
<1>6. ASSUME NEW c \in Call, Read(c)
      PROVE  TypeOK'
  BY <1>6, ReadStep DEF TypeOK
<1>7. ASSUME NEW c \in Call,
             \/ Find(c) \/ Take(c) \/ Return(c) \/ Place(c)
             \/ Weigh(c) \/ Empty(c) \/ Store(c)
      PROVE  TypeOK'
  <2>1. calls' \in [Call -> CallState]
    BY <1>7, Advance, GotoStep
  <2>2. /\ calls[c].item \in Item \cup {None} /\ calls[c].seen \in Item \cup {None}
        /\ calls[c].slot \in Slot
    BY <1>7, Advance, Present
  <2>3. loadout' \in [Slot -> Item \cup {None}]
    BY <1>7, <2>2 DEF TypeOK, Find, Take, Return, Place, Weigh, Empty, Store
  <2>4. stash' \subseteq Item
    BY <1>7, <2>2 DEF TypeOK, Stages, Find, Take, Return, Place, Weigh, Empty, Store
  <2>5. UNCHANGED <<lock, mishaps>>
    BY <1>7 DEF Find, Take, Return, Place, Weigh, Empty, Store
  <2>6. QED
    BY <2>1, <2>3, <2>4, <2>5 DEF TypeOK
<1>8. CASE Wipe
  BY <1>8 DEF Wipe, TypeOK
<1>9. CASE UNCHANGED vars
  BY <1>9 DEF vars, TypeOK
<1>10. QED
  BY <1>2, <1>3, <1>4, <1>5, <1>6, <1>7, <1>8, <1>9 DEF Next, Step

\* The call that runs is the lock's, before and after every step.
LEMMA LockStep ==
    ASSUME TypeOK, LockExcludes, [Next]_vars
    PROVE  LockExcludes'
<1> USE LoadoutAssumptions
<1>1. ASSUME NEW c \in Call, NEW op \in Op, NEW i \in Item \cup {None}, NEW s \in Slot,
             Begin(c, op, i, s)
      PROVE  LockExcludes'
  BY <1>1, BeginStep DEF LockExcludes, Running
<1>2. ASSUME NEW c \in Call, NEW i \in Item, NEW s \in Slot, Equip(c, i, s) \/ Wear(c, i, s)
      PROVE  LockExcludes'
  BY <1>1, <1>2 DEF Equip, Wear, Op
<1>3. ASSUME NEW c \in Call, NEW s \in Slot, Unequip(c, s)
      PROVE  LockExcludes'
  BY <1>1, <1>3 DEF Unequip, Op
<1>4. ASSUME NEW c \in Call, Acquire(c)
      PROVE  LockExcludes'
  <2>1. /\ FirstStage(calls[c]) \in Stage
        /\ FirstStage(calls[c]) \notin {"none", "waiting"}
        /\ calls[c].pc # "none"
    BY <1>4 DEF Acquire, FirstStage, Stage
  <2>2. QED
    BY <1>4, <2>1, GotoStep DEF Acquire, LockExcludes, Running
<1>5. ASSUME NEW c \in Call, Finish(c) \/ Fail(c)
      PROVE  LockExcludes'
  <2>1. Running(c)
    BY <1>5 DEF Finish, Fail, Running
  <2>2. QED
    BY <1>5, <2>1, ReleaseStep DEF Finish, Fail, LockExcludes, Running
<1>6. ASSUME NEW c \in Call, Read(c)
      PROVE  LockExcludes'
  BY <1>6, ReadStep DEF LockExcludes, Running
<1>7. ASSUME NEW c \in Call,
             \/ Find(c) \/ Take(c) \/ Return(c) \/ Place(c)
             \/ Weigh(c) \/ Empty(c) \/ Store(c)
      PROVE  LockExcludes'
  <2>1. PICK x \in Stage : Goto(c, x) /\ Onward(c, x)
    BY <1>7, Advance
  <2>2. x \notin {"none", "waiting"}
    BY <2>1 DEF Onward
  <2>3. lock' = lock
    BY <1>7 DEF Find, Take, Return, Place, Weigh, Empty, Store
  <2>4. Running(c) /\ calls[c].pc # "none"
    BY <1>7, Advance
  <2>5. QED
    BY <2>1, <2>2, <2>3, <2>4, GotoStep DEF LockExcludes, Running
<1>8. CASE Wipe \/ UNCHANGED vars
  BY <1>8 DEF Wipe, vars, LockExcludes, Running
<1>9. QED
  BY <1>2, <1>3, <1>4, <1>5, <1>6, <1>7, <1>8 DEF Next, Step

\* A call is only ever at a stage of its own operation.
LEMMA StagesStep ==
    ASSUME TypeOK, Stages, [Next]_vars
    PROVE  Stages'
<1> USE LoadoutAssumptions
<1>1. ASSUME NEW c \in Call, NEW op \in Op, NEW i \in Item \cup {None}, NEW s \in Slot,
             Begin(c, op, i, s)
      PROVE  Stages'
  BY <1>1, BeginStep DEF Stages
<1>2. ASSUME NEW c \in Call, NEW i \in Item, NEW s \in Slot, Equip(c, i, s) \/ Wear(c, i, s)
      PROVE  Stages'
  BY <1>1, <1>2 DEF Equip, Wear, Op
<1>3. ASSUME NEW c \in Call, NEW s \in Slot, Unequip(c, s)
      PROVE  Stages'
  BY <1>1, <1>3 DEF Unequip, Op
<1>4. ASSUME NEW c \in Call, Acquire(c)
      PROVE  Stages'
  <2>1. /\ FirstStage(calls[c]) \in Stage
        /\ FirstStage(calls[c]) = "find" => calls[c].op = "equip"
        /\ FirstStage(calls[c]) \in {"find", "read", "end"}
        /\ calls[c].pc # "none"
    BY <1>4 DEF Acquire, FirstStage, Stage
  <2>2. QED
    BY <1>4, <2>1, GotoStep DEF Acquire, Stages
<1>5. ASSUME NEW c \in Call, Finish(c) \/ Fail(c)
      PROVE  Stages'
  BY <1>5, ReleaseStep DEF Finish, Fail, Stages
<1>6. ASSUME NEW c \in Call, Read(c)
      PROVE  Stages'
  BY <1>6, ReadStep DEF Stages
<1>7. ASSUME NEW c \in Call,
             \/ Find(c) \/ Take(c) \/ Return(c) \/ Place(c)
             \/ Weigh(c) \/ Empty(c) \/ Store(c)
      PROVE  Stages'
  <2>1. PICK x \in Stage : Goto(c, x) /\ Onward(c, x)
    BY <1>7, Advance
  <2>2. calls[c].pc # "none"
    BY <1>7, Advance
  <2>3. QED
    BY <2>1, <2>2, GotoStep DEF Stages, Onward
<1>8. CASE Wipe \/ UNCHANGED vars
  BY <1>8 DEF Wipe, vars, Stages
<1>9. QED
  BY <1>2, <1>3, <1>4, <1>5, <1>6, <1>7, <1>8 DEF Next, Step

-----------------------------------------------------------------------------
(* Where items are                                                         *)

\* What is known of a call that holds the lock: no other is under way.
LEMMA Alone ==
    ASSUME LockExcludes, NEW c \in Call, Running(c)
    PROVE  \A d \in Call : d # c =>
               ~Remembers(d) /\ (\A s \in Slot : ~Filling(d, s))
BY DEF LockExcludes, Running, Remembers, Filling

\* A call that asks for nothing to be worn holds nothing.
LEMMA BeginPlaced ==
    ASSUME TypeOK, Placed, NEW c \in Call, NEW op \in Op, NEW i \in Item \cup {None},
           NEW s \in Slot, Begin(c, op, i, s),
           op = "wear" => /\ i \in Item
                          /\ i \notin stash \cup Worn
                          /\ \A d \in Call : i \notin InHand(d)
    PROVE  Placed'
<1> USE LoadoutAssumptions
<1>1. /\ calls'[c].pc = "waiting" /\ calls'[c].op = op /\ calls'[c].item = i
      /\ calls[c].pc = "none"
      /\ \A d \in Call : d # c => calls'[d] = calls[d]
      /\ UNCHANGED <<stash, loadout, lock, mishaps>>
  BY BeginStep
<1>2. /\ \A d \in Call : Loose(d)' => Loose(d) \/ (d = c /\ op = "wear")
      /\ \A d \in Call : Remembers(d)' => Remembers(d) /\ d # c
      /\ \A d \in Call, t \in Slot : Filling(d, t) => Filling(d, t)'
  BY <1>1 DEF Loose, Remembers, Filling
<1>3. ASSUME op = "wear"
      PROVE  /\ i \in Item \ stash
             /\ \A t \in Slot : loadout[t] # i
             /\ \A d \in Call : Loose(d) => calls[d].item # i
             /\ \A d \in Call : Remembers(d) => calls[d].seen # i
  BY <1>3 DEF Worn, InHand, Loose, Remembers
<1>4. Distinct' /\ Apart'
  BY <1>1, <1>2 DEF Placed, Distinct, Apart
<1>5. LooseOut'
  BY <1>1, <1>2, <1>3 DEF Placed, LooseOut, Loose
<1>6. LooseApart'
  BY <1>1, <1>2, <1>3 DEF Placed, LooseApart, Loose
<1>7. SeenOut'
  BY <1>1, <1>2 DEF Placed, SeenOut
<1>8. QED
  BY <1>4, <1>5, <1>6, <1>7 DEF Placed

\* A step of one call that moves nothing and takes nothing on.
LEMMA QuietPlaced ==
    ASSUME Placed, NEW c \in Call,
           UNCHANGED <<stash, loadout>>,
           \A d \in Call : d # c => calls'[d] = calls[d],
           Loose(c)' => Loose(c) /\ calls'[c].item = calls[c].item,
           Remembers(c)' => /\ Remembers(c)
                            /\ calls'[c].seen = calls[c].seen
                            /\ calls'[c].slot = calls[c].slot
                            /\ calls'[c].pc # "store",
           \A s \in Slot : ~Filling(c, s)
    PROVE  Placed'
<1>1. /\ \A d \in Call : Loose(d)' => Loose(d) /\ calls'[d].item = calls[d].item
      /\ \A d \in Call : Remembers(d)' => /\ Remembers(d)
                                          /\ calls'[d].seen = calls[d].seen
                                          /\ calls'[d].slot = calls[d].slot
                                          /\ calls'[d].pc = "store" => calls[d].pc = "store"
      /\ \A d \in Call, s \in Slot : Filling(d, s) => Filling(d, s)'
  BY DEF Loose, Remembers, Filling
<1>2. Distinct' /\ Apart'
  BY <1>1 DEF Placed, Distinct, Apart
<1>3. LooseOut'
  BY <1>1 DEF Placed, LooseOut
<1>4. LooseApart'
  BY <1>1 DEF Placed, LooseApart
<1>5. SeenOut'
  BY <1>1 DEF Placed, SeenOut
<1>6. QED
  BY <1>2, <1>3, <1>4, <1>5 DEF Placed

\* Reading a slot: nothing but that slot has what was read.
LEMMA ReadPlaced ==
    ASSUME TypeOK, LockExcludes, Placed, NEW c \in Call, Read(c)
    PROVE  Placed'
<1> USE LoadoutAssumptions
<1>1. /\ calls[c].pc = "read" /\ calls[c].slot \in Slot /\ calls[c].op \in Op
      /\ UNCHANGED <<stash, loadout>>
      /\ calls'[c].seen = loadout[calls[c].slot]
      /\ calls'[c].op = calls[c].op
      /\ calls'[c].item = calls[c].item
      /\ calls'[c].slot = calls[c].slot
      /\ calls'[c].pc \in {"take", "place", "end", "weigh"}
      /\ calls'[c].pc = "place" => calls[c].op = "wear"
      /\ \A d \in Call : d # c => calls'[d] = calls[d]
  BY ReadStep, CallFields, Present DEF NoCall
<1>2. \A d \in Call : ~Remembers(d) /\ \A s \in Slot : ~Filling(d, s)
  BY <1>1, Alone DEF Running, Remembers, Filling
<1>3. /\ \A d \in Call : Loose(d)' => Loose(d) /\ calls'[d].item = calls[d].item
      /\ \A d \in Call : Remembers(d)' => d = c
      /\ calls'[c].pc # "store"
  BY <1>1, <1>2 DEF Loose, Remembers
<1>4. Distinct' /\ Apart'
  BY <1>1, <1>2 DEF Placed, Distinct, Apart
<1>5. LooseOut'
  BY <1>1, <1>3 DEF Placed, LooseOut
<1>6. LooseApart'
  BY <1>1, <1>3 DEF Placed, LooseApart, LooseOut
<1>7. loadout[calls[c].slot] \notin stash
  BY <1>1, <1>2 DEF Placed, Apart
<1>8. SeenOut'
  BY <1>1, <1>3, <1>7 DEF Placed, SeenOut, Distinct
<1>9. QED
  BY <1>4, <1>5, <1>6, <1>8 DEF Placed

\* Taking from the stash: the item is in the call's hands only.
LEMMA TakePlaced ==
    ASSUME TypeOK, LockExcludes, Stages, Placed, NEW c \in Call, Take(c)
    PROVE  Placed'
<1> USE LoadoutAssumptions
<1>1. PICK x \in Stage : Goto(c, x) /\ Onward(c, x)
  BY Advance
<1>2. /\ calls[c].pc = "take" /\ loadout' = loadout
      /\ stash' = stash \ {calls[c].item}
      /\ Running(c) /\ Remembers(c) /\ calls[c].op = "equip"
  BY DEF Take, Running, Remembers, Stages
<1>3. /\ calls'[c].pc = x
      /\ calls'[c].op = calls[c].op
      /\ calls'[c].item = calls[c].item
      /\ calls'[c].slot = calls[c].slot
      /\ calls'[c].seen = calls[c].seen
      /\ \A d \in Call : d # c => calls'[d] = calls[d]
  BY <1>1, <1>2, GotoStep
<1>4. \A d \in Call : (d # c => ~Remembers(d)) /\ \A s \in Slot : ~Filling(d, s)
  BY <1>2, Alone DEF Filling
<1>5. x \in {"return", "place", "end"}
      /\ (x # "end" => calls[c].item \in stash)
  BY <1>2, <1>3 DEF Take, Goto, TypeOK
<1>6. /\ \A d \in Call : d # c => (Loose(d)' <=> Loose(d))
      /\ Loose(c)' => calls[c].item \in stash
      /\ \A d \in Call : Remembers(d)' => d = c /\ x = "return"
  BY <1>3, <1>4, <1>5 DEF Loose, Remembers
<1>7. /\ \A s \in Slot : loadout[s] \notin stash
      /\ calls[c].seen \notin stash
  BY <1>2, <1>4 DEF Placed, Apart, SeenOut
<1>8. Distinct' /\ Apart'
  BY <1>2, <1>7 DEF Placed, Distinct, Apart
<1>9. LooseOut'
  BY <1>2, <1>3, <1>6, <1>7 DEF Placed, LooseOut, TypeOK
<1>10. LooseApart'
  BY <1>2, <1>3, <1>6, <1>7 DEF Placed, LooseApart, LooseOut
<1>11. SeenOut'
  BY <1>2, <1>3, <1>6 DEF Placed, SeenOut
<1>12. QED
  BY <1>8, <1>9, <1>10, <1>11 DEF Placed

\* Putting the displaced item into the stash: the slot is about to be filled.
LEMMA ReturnPlaced ==
    ASSUME TypeOK, LockExcludes, Stages, Placed, NEW c \in Call, Return(c)
    PROVE  Placed'
<1> USE LoadoutAssumptions
<1>1. /\ calls[c].pc = "return" /\ loadout' = loadout
      /\ stash' = stash \cup {calls[c].seen}
      /\ Running(c) /\ Remembers(c) /\ Loose(c)
      /\ calls[c].op = "equip" /\ calls[c].seen # None
      /\ Goto(c, "place") /\ "place" \in Stage
  BY DEF Return, Running, Remembers, Loose, Stages, Stage
<1>2. /\ calls'[c].pc = "place"
      /\ calls'[c].op = "equip"
      /\ calls'[c].item = calls[c].item
      /\ calls'[c].slot = calls[c].slot
      /\ \A d \in Call : d # c => calls'[d] = calls[d]
  BY <1>1, GotoStep
<1>3. \A d \in Call : (d # c => ~Remembers(d)) /\ \A s \in Slot : ~Filling(d, s)
  BY <1>1, Alone DEF Filling
<1>4. /\ \A d \in Call : Loose(d)' => Loose(d)
      /\ \A d \in Call : calls'[d].item = calls[d].item
      /\ \A d \in Call : ~Remembers(d)'
      /\ \A s \in Slot : s = calls[c].slot => Filling(c, s)'
  BY <1>1, <1>2, <1>3 DEF Loose, Remembers, Filling
<1>5. Distinct'
  BY <1>1 DEF Placed, Distinct
<1>6. Apart'
  <2>1. \A s \in Slot : loadout[s] \notin stash
    BY <1>3 DEF Placed, Apart
  <2>2. \A s \in Slot : loadout[s] = calls[c].seen => s = calls[c].slot
    BY <1>1 DEF Placed, SeenOut
  <2>3. SUFFICES ASSUME NEW s \in Slot, loadout[s] = calls[c].seen
                 PROVE  Filling(c, s)'
    BY <1>1, <2>1 DEF Apart
  <2>4. QED
    BY <1>4, <2>2, <2>3
<1>7. LooseOut'
  BY <1>1, <1>4 DEF Placed, LooseOut, LooseApart
<1>8. LooseApart' /\ SeenOut'
  BY <1>4 DEF Placed, LooseApart, SeenOut
<1>9. QED
  BY <1>5, <1>6, <1>7, <1>8 DEF Placed

\* Filling the slot with the item in hand.
LEMMA PlacePlaced ==
    ASSUME TypeOK, LockExcludes, Placed, NEW c \in Call, Place(c)
    PROVE  Placed'
<1> USE LoadoutAssumptions
<1>1. /\ calls[c].pc = "place" /\ stash' = stash
      /\ loadout' = [loadout EXCEPT ![calls[c].slot] = calls[c].item]
      /\ Running(c) /\ Loose(c) /\ ~Remembers(c)
      /\ Goto(c, "end") /\ "end" \in Stage
  BY DEF Place, Running, Loose, Remembers, Stage
<1>2. /\ calls'[c].pc = "end"
      /\ \A d \in Call : d # c => calls'[d] = calls[d]
      /\ calls[c].slot \in Slot
  BY <1>1, GotoStep, Present
<1>3. \A d \in Call : ~Remembers(d) /\ \A s \in Slot : Filling(d, s) => s = calls[c].slot
  BY <1>1, Alone DEF Filling
<1>4. /\ \A d \in Call : Loose(d)' => Loose(d) /\ d # c /\ calls'[d].item = calls[d].item
      /\ \A d \in Call : ~Remembers(d)'
  BY <1>1, <1>2, <1>3 DEF Loose, Remembers
<1>5. /\ calls[c].item \in Item \ stash
      /\ \A s \in Slot : loadout[s] # calls[c].item
      /\ \A d \in Call : Loose(d) /\ d # c => calls[d].item # calls[c].item
  BY <1>1 DEF Placed, LooseOut, LooseApart
<1>6. \A s \in Slot : loadout'[s] = IF s = calls[c].slot THEN calls[c].item ELSE loadout[s]
  BY <1>1 DEF TypeOK
<1>7. Distinct'
  BY <1>5, <1>6 DEF Placed, Distinct
<1>8. Apart'
  BY <1>1, <1>3, <1>5, <1>6 DEF Placed, Apart
<1>9. LooseOut'
  BY <1>1, <1>4, <1>5, <1>6 DEF Placed, LooseOut
<1>10. LooseApart' /\ SeenOut'
  BY <1>4 DEF Placed, LooseApart, SeenOut
<1>11. QED
  BY <1>7, <1>8, <1>9, <1>10 DEF Placed

\* Emptying the slot: its item is in the call's hands only.
LEMMA EmptyPlaced ==
    ASSUME TypeOK, LockExcludes, Stages, Placed, NEW c \in Call, Empty(c)
    PROVE  Placed'
<1> USE LoadoutAssumptions
<1>1. /\ calls[c].pc = "empty" /\ stash' = stash
      /\ loadout' = [loadout EXCEPT ![calls[c].slot] = None]
      /\ Running(c) /\ Remembers(c) /\ calls[c].seen # None
      /\ Goto(c, "store") /\ "store" \in Stage
  BY DEF Empty, Running, Remembers, Stages, Stage
<1>2. /\ calls'[c].pc = "store"
      /\ calls'[c].seen = calls[c].seen
      /\ \A d \in Call : d # c => calls'[d] = calls[d]
      /\ calls[c].slot \in Slot
  BY <1>1, GotoStep, Present
<1>3. \A d \in Call : (d # c => ~Remembers(d)) /\ \A s \in Slot : ~Filling(d, s)
  BY <1>1, Alone DEF Filling
<1>4. /\ \A d \in Call : Loose(d)' => Loose(d) /\ calls'[d].item = calls[d].item
      /\ \A d \in Call : Remembers(d)' => d = c
  BY <1>1, <1>2, <1>3 DEF Loose, Remembers
<1>5. \A s \in Slot : loadout'[s] = IF s = calls[c].slot THEN None ELSE loadout[s]
  BY <1>1 DEF TypeOK
<1>6. Distinct'
  BY <1>5 DEF Placed, Distinct
<1>7. Apart'
  BY <1>1, <1>3, <1>5 DEF Placed, Apart, TypeOK
<1>8. LooseOut'
  BY <1>1, <1>4, <1>5 DEF Placed, LooseOut
<1>9. LooseApart'
  BY <1>1, <1>2, <1>4 DEF Placed, LooseApart
<1>10. SeenOut'
  BY <1>1, <1>2, <1>4, <1>5 DEF Placed, SeenOut
<1>11. QED
  BY <1>6, <1>7, <1>8, <1>9, <1>10 DEF Placed

\* Putting the unequipped item into the stash.
LEMMA StorePlaced ==
    ASSUME TypeOK, LockExcludes, Stages, Placed, NEW c \in Call, Store(c)
    PROVE  Placed'
<1> USE LoadoutAssumptions
<1>1. /\ calls[c].pc = "store" /\ loadout' = loadout
      /\ stash' = stash \cup {calls[c].seen}
      /\ Running(c) /\ Remembers(c) /\ calls[c].seen # None
      /\ Goto(c, "end") /\ "end" \in Stage
  BY DEF Store, Running, Remembers, Stages, Stage
<1>2. /\ calls'[c].pc = "end"
      /\ \A d \in Call : d # c => calls'[d] = calls[d]
  BY <1>1, GotoStep
<1>3. \A d \in Call : (d # c => ~Remembers(d)) /\ \A s \in Slot : ~Filling(d, s)
  BY <1>1, Alone DEF Filling
<1>4. /\ \A d \in Call : Loose(d)' => Loose(d) /\ calls'[d].item = calls[d].item
      /\ \A d \in Call : ~Remembers(d)'
  BY <1>1, <1>2, <1>3 DEF Loose, Remembers
<1>5. Distinct'
  BY <1>1 DEF Placed, Distinct
<1>6. Apart'
  BY <1>1, <1>3 DEF Placed, Apart, SeenOut
<1>7. LooseOut'
  BY <1>1, <1>4 DEF Placed, LooseOut, LooseApart
<1>8. LooseApart' /\ SeenOut'
  BY <1>4 DEF Placed, LooseApart, SeenOut
<1>9. QED
  BY <1>5, <1>6, <1>7, <1>8 DEF Placed

\* Every step keeps items in their places, as long as no write has failed.
LEMMA PlacedStep ==
    ASSUME TypeOK, LockExcludes, Stages, Placed, [Next]_vars, "failure" \notin mishaps'
    PROVE  Placed'
<1> USE LoadoutAssumptions
<1>1. ASSUME NEW c \in Call, NEW i \in Item, NEW s \in Slot, Equip(c, i, s) \/ Wear(c, i, s)
      PROVE  Placed'
  BY <1>1, BeginPlaced DEF Equip, Wear, Op
<1>2. ASSUME NEW c \in Call, NEW s \in Slot, Unequip(c, s)
      PROVE  Placed'
  BY <1>2, BeginPlaced DEF Unequip, Op
<1>3. ASSUME NEW c \in Call, Acquire(c)
      PROVE  Placed'
  <2>1. /\ FirstStage(calls[c]) \in Stage \cap {"find", "read", "end"}
        /\ FirstStage(calls[c]) = "find" => calls[c].op = "equip"
        /\ calls[c].pc = "waiting"
        /\ Goto(c, FirstStage(calls[c]))
        /\ UNCHANGED <<stash, loadout>>
    BY <1>3 DEF Acquire, FirstStage, Stage
  <2>2. /\ calls'[c].pc \in {"find", "read", "end"}
        /\ calls'[c].op = calls[c].op
        /\ calls'[c].item = calls[c].item
        /\ \A d \in Call : d # c => calls'[d] = calls[d]
    BY <2>1, GotoStep
  <2>3. /\ Loose(c)' => Loose(c) /\ calls'[c].item = calls[c].item
        /\ ~Remembers(c)'
        /\ \A s \in Slot : ~Filling(c, s)
    BY <2>1, <2>2 DEF Loose, Remembers, Filling
  <2>4. QED
    BY <2>1, <2>2, <2>3, QuietPlaced
<1>4. ASSUME NEW c \in Call, Finish(c) \/ Fail(c)
      PROVE  Placed'
  <2>1. /\ Release(c) /\ UNCHANGED <<stash, loadout>>
        /\ \A s \in Slot : ~Filling(c, s)
    BY <1>4 DEF Finish, Fail, MidWrite, Filling
  <2>2. /\ ~Loose(c)' /\ ~Remembers(c)'
        /\ \A d \in Call : d # c => calls'[d] = calls[d]
    BY <2>1, ReleaseStep DEF Loose, Remembers
  <2>3. QED
    BY <2>1, <2>2, QuietPlaced
<1>5. ASSUME NEW c \in Call, Find(c) \/ Weigh(c)
      PROVE  Placed'
  <2>1. PICK x \in Stage : Goto(c, x) /\ Onward(c, x)
    BY <1>5, Advance
  <2>2. /\ x \in {"read", "end", "empty"}
        /\ x = "read" => calls[c].op = "equip"
        /\ x = "empty" => Remembers(c)
        /\ calls[c].pc \in {"find", "weigh"}
        /\ UNCHANGED <<stash, loadout>>
    BY <1>5, <2>1 DEF Find, Weigh, Onward, Stages, Remembers
  <2>3. /\ calls'[c].pc = x
        /\ calls'[c].op = calls[c].op
        /\ calls'[c].slot = calls[c].slot
        /\ calls'[c].seen = calls[c].seen
        /\ \A d \in Call : d # c => calls'[d] = calls[d]
    BY <2>1, <2>2, GotoStep
  <2>4. /\ ~Loose(c)'
        /\ Remembers(c)' => Remembers(c) /\ calls'[c].pc # "store"
        /\ \A s \in Slot : ~Filling(c, s)
    BY <2>2, <2>3 DEF Loose, Remembers, Filling
  <2>5. QED
    BY <2>2, <2>3, <2>4, QuietPlaced
<1>6. ASSUME NEW c \in Call, Read(c) \/ Take(c) \/ Return(c) \/ Place(c)
      PROVE  Placed'
  BY <1>6, ReadPlaced, TakePlaced, ReturnPlaced, PlacePlaced
<1>7. ASSUME NEW c \in Call, Empty(c) \/ Store(c)
      PROVE  Placed'
  BY <1>7, EmptyPlaced, StorePlaced
<1>8. CASE Wipe
  <2>1. /\ UNCHANGED <<stash, calls>>
        /\ \A s \in Slot : loadout'[s] = None
    BY <1>8 DEF Wipe
  <2>2. Distinct' /\ Apart'
    BY <2>1 DEF TypeOK, Distinct, Apart
  <2>3. LooseOut' /\ LooseApart' /\ SeenOut'
    BY <2>1 DEF Placed, LooseOut, LooseApart, SeenOut, Loose, Remembers
  <2>4. QED
    BY <2>2, <2>3 DEF Placed
<1>9. CASE UNCHANGED vars
  BY <1>9 DEF vars, Placed, Distinct, Apart, LooseOut, LooseApart, SeenOut,
              Loose, Remembers, Filling
<1>10. QED
  BY <1>1, <1>2, <1>3, <1>4, <1>5, <1>6, <1>7, <1>8, <1>9 DEF Next, Step

\* A write that has failed is never forgotten.
LEMMA MishapsGrow ==
    ASSUME [Next]_vars
    PROVE  mishaps \subseteq mishaps'
BY DEF Next, vars, Equip, Wear, Unequip, Begin, Acquire, Step, Find, Read, Take, Return,
       Place, Weigh, Empty, Store, Finish, Fail, Wipe

-----------------------------------------------------------------------------
(* The promise of Vault                                                    *)

\* What a call remembers of its slot is still so, and the displaced item is in
\* the stash when the slot is about to be filled.  It takes the lock, and that
\* no death has come in between.
AsRead ==
    \A c \in Call :
        /\ calls[c].pc \in {"take", "return", "place", "weigh", "empty"} =>
               loadout[calls[c].slot] = calls[c].seen
        /\ calls[c].pc = "place" /\ calls[c].op = "equip" =>
               calls[c].seen \in stash \cup {None}
        /\ calls[c].pc = "store" => loadout[calls[c].slot] = None

VaultInv == IInv /\ (mishaps = {} => AsRead)

\* While a call runs every other is absent or waits.
LEMMA OthersWait ==
    ASSUME LockExcludes, NEW c \in Call, Running(c)
    PROVE  /\ lock = c
           /\ \A d \in Call : d # c => calls[d].pc \in {"none", "waiting"}
BY DEF LockExcludes, Running

\* A step of one call, the others waiting, is all that needs to be looked at.
LEMMA AsReadOfOne ==
    ASSUME NEW c \in Call,
           \A d \in Call : d # c => calls'[d].pc \in {"none", "waiting"},
           calls'[c].pc \in {"take", "return", "place", "weigh", "empty"} =>
               loadout'[calls'[c].slot] = calls'[c].seen,
           calls'[c].pc = "place" /\ calls'[c].op = "equip" =>
               calls'[c].seen \in stash' \cup {None},
           calls'[c].pc = "store" => loadout'[calls'[c].slot] = None
    PROVE  AsRead'
BY DEF AsRead

\* Every step without a mishap keeps what was read true.
LEMMA AsReadStep ==
    ASSUME TypeOK, LockExcludes, Stages, AsRead, [Next]_vars, mishaps' = {}
    PROVE  AsRead'
<1> USE LoadoutAssumptions
<1>1. ASSUME NEW c \in Call, NEW op \in Op, NEW i \in Item \cup {None}, NEW s \in Slot,
             Begin(c, op, i, s)
      PROVE  AsRead'
  BY <1>1, BeginStep DEF AsRead
<1>2. ASSUME NEW c \in Call, NEW i \in Item, NEW s \in Slot, Equip(c, i, s) \/ Wear(c, i, s)
      PROVE  AsRead'
  BY <1>1, <1>2 DEF Equip, Wear, Op
<1>3. ASSUME NEW c \in Call, NEW s \in Slot, Unequip(c, s)
      PROVE  AsRead'
  BY <1>1, <1>3 DEF Unequip, Op
<1>4. ASSUME NEW c \in Call, Acquire(c)
      PROVE  AsRead'
  <2>1. /\ FirstStage(calls[c]) \in Stage \cap {"find", "read", "end"}
        /\ calls[c].pc # "none"
        /\ Goto(c, FirstStage(calls[c]))
        /\ UNCHANGED <<stash, loadout>>
    BY <1>4 DEF Acquire, FirstStage, Stage
  <2>2. QED
    BY <2>1, GotoStep DEF AsRead
<1>5. ASSUME NEW c \in Call, Finish(c) \/ Fail(c)
      PROVE  AsRead'
  BY <1>5, ReleaseStep DEF Finish, Fail, AsRead
<1>6. ASSUME NEW c \in Call, Read(c)
      PROVE  AsRead'
  <2>1. Running(c)
    BY <1>6 DEF Read, Running
  <2>2. calls[c].op \in Op
    BY <1>6, Present DEF Read
  <2>3. QED
    BY <1>6, <2>1, <2>2, ReadStep, OthersWait, AsReadOfOne
<1>7. ASSUME NEW c \in Call,
             \/ Find(c) \/ Take(c) \/ Return(c) \/ Place(c)
             \/ Weigh(c) \/ Empty(c) \/ Store(c)
      PROVE  AsRead'
  <2>1. PICK x \in Stage : Goto(c, x) /\ Onward(c, x)
    BY <1>7, Advance
  <2>2. Running(c) /\ calls[c].pc # "none"
    BY <1>7, Advance
  <2>3. /\ calls'[c].pc = x
        /\ calls'[c].op = calls[c].op
        /\ calls'[c].slot = calls[c].slot
        /\ calls'[c].seen = calls[c].seen
        /\ \A d \in Call : d # c => calls'[d] = calls[d]
    BY <2>1, <2>2, GotoStep
  <2>4. \A d \in Call : d # c => calls'[d].pc \in {"none", "waiting"}
    BY <2>2, <2>3, OthersWait
  <2>5. calls[c].slot \in Slot
    BY <2>2, Present
  <2>6. x \in {"return", "place", "empty"} => loadout' = loadout
    BY <1>7, <2>1, <2>3 DEF Onward, Find, Take, Return, Place, Weigh, Empty, Store
  <2>7. x \in {"return", "place", "empty"} => loadout'[calls'[c].slot] = calls'[c].seen
    BY <2>1, <2>3, <2>6 DEF Onward, AsRead
  <2>8. x = "place" => calls'[c].seen \in stash' \cup {None}
    <3>1. CASE Take(c)
      <4> DEFINE next == IF calls[c].item \notin stash THEN "end"
                         ELSE IF calls[c].seen = None THEN "place" ELSE "return"
      <4>1. next \in Stage /\ Goto(c, next)
        BY <3>1 DEF Take, Stage
      <4>2. next = "place" => calls[c].seen = None
        OBVIOUS
      <4> HIDE DEF next
      <4>3. calls'[c].pc = next
        BY <2>2, <4>1, GotoStep
      <4>4. QED
        BY <2>3, <4>2, <4>3
    <3>2. CASE Return(c)
      BY <2>3, <3>2 DEF Return
    <3>3. CASE ~Take(c) /\ ~Return(c)
      BY <1>7, <2>1, <3>3 DEF Onward, Find, Place, Weigh, Empty, Store
    <3>4. QED
      BY <3>1, <3>2, <3>3
  <2>9. x = "store" => loadout'[calls'[c].slot] = None
    BY <1>7, <2>1, <2>3, <2>5
    DEF Onward, Find, Take, Return, Place, Weigh, Empty, Store, TypeOK
  <2>10. x \notin {"take", "weigh"}
    BY <2>1 DEF Onward
  <2>11. QED
    BY <2>3, <2>4, <2>7, <2>8, <2>9, <2>10, AsReadOfOne
<1>8. CASE Wipe
  <2>1. \A c \in Call : calls'[c].pc \in {"none", "waiting", "find", "read", "end"}
    BY <1>8 DEF Wipe, Running
  <2>2. QED
    BY <2>1 DEF AsRead
<1>9. CASE UNCHANGED vars
  BY <1>9 DEF vars, AsRead
<1>10. QED
  BY <1>2, <1>3, <1>4, <1>5, <1>6, <1>7, <1>8, <1>9 DEF Next, Step

\* Where nobody is about to write, the stash and the loadout are the vault's.
LEMMA BeforeIsNow ==
    ASSUME TypeOK,
           \A c \in Call : lock = c =>
               /\ calls[c].pc \notin {"return", "store"}
               /\ ~(calls[c].pc = "place" /\ calls[c].op = "equip")
    PROVE  KeptBefore = stash /\ WornBefore = loadout
BY LoadoutAssumptions DEF TypeOK, KeptBefore, WornBefore

\* The same after a step.
LEMMA BeforeIsNowNext ==
    ASSUME TypeOK',
           \A c \in Call : lock' = c =>
               /\ calls'[c].pc \notin {"return", "store"}
               /\ ~(calls'[c].pc = "place" /\ calls'[c].op = "equip")
    PROVE  KeptBefore' = stash' /\ WornBefore' = loadout'
BY LoadoutAssumptions DEF TypeOK, KeptBefore, WornBefore

\* The steps of a call between its writes are no steps of the vault.
LEMMA QuietSteps ==
    ASSUME TypeOK, TypeOK', LockExcludes, Stages, mishaps' = mishaps,
           NEW c \in Call,
           Acquire(c) \/ Finish(c) \/ Find(c) \/ Read(c) \/ Weigh(c)
    PROVE  UNCHANGED <<KeptBefore, WornBefore>>
<1> USE LoadoutAssumptions
<1>1. UNCHANGED <<stash, loadout>>
  BY DEF Acquire, Finish, Find, Read, Weigh
<1>2. lock = None \/ lock = c
  <2>1. CASE Acquire(c)
    BY <2>1 DEF Acquire
  <2>2. CASE ~Acquire(c)
    BY <2>2 DEF Finish, Find, Read, Weigh, LockExcludes, Running
  <2>3. QED
    BY <2>1, <2>2
<1>3. lock' = None \/ lock' = c
  BY <1>2 DEF Acquire, Finish, Release, Find, Read, Weigh
<1>4. lock = c => calls[c].pc \in {"waiting", "end", "find", "read", "weigh"}
  BY DEF Acquire, Finish, Find, Read, Weigh
<1>5. lock' = c => /\ calls'[c].pc \notin {"return", "store"}
                   /\ ~(calls'[c].pc = "place" /\ calls'[c].op = "equip")
  <2>1. CASE Acquire(c)
    <3>1. /\ FirstStage(calls[c]) \in Stage \cap {"find", "read", "end"}
          /\ calls[c].pc # "none"
          /\ Goto(c, FirstStage(calls[c]))
      BY <2>1 DEF Acquire, FirstStage, Stage
    <3>2. QED
      BY <3>1, GotoStep
  <2>2. CASE Finish(c)
    BY <2>2, ReleaseStep DEF Finish
  <2>3. CASE Find(c) \/ Weigh(c)
    <3>1. PICK x \in Stage : Goto(c, x) /\ Onward(c, x)
      BY <2>3, Advance
    <3>2. calls[c].pc \in {"find", "weigh"}
      BY <2>3 DEF Find, Weigh
    <3>3. calls'[c].pc = x
      BY <3>1, <3>2, GotoStep
    <3>4. QED
      BY <3>1, <3>2, <3>3 DEF Onward
  <2>4. CASE Read(c)
    BY <2>4, ReadStep
  <2>5. QED
    BY <2>1, <2>2, <2>3, <2>4
<1>6. KeptBefore = stash /\ WornBefore = loadout
  BY <1>2, <1>4, BeforeIsNow
<1>7. KeptBefore' = stash' /\ WornBefore' = loadout'
  BY <1>3, <1>5, BeforeIsNowNext
<1>8. QED
  BY <1>1, <1>6, <1>7

\* Taking an item and putting the displaced one back are not steps of the vault:
\* the item counts as kept until the slot is filled, the displaced one until then
\* as worn.
LEMMA TakeAndReturnAreQuiet ==
    ASSUME TypeOK, TypeOK', LockExcludes, Stages, Placed, NEW c \in Call,
           Take(c) \/ Return(c)
    PROVE  UNCHANGED <<KeptBefore, WornBefore>>
<1> USE LoadoutAssumptions
<1>1. /\ lock = c /\ lock' = c /\ c # None
      /\ loadout' = loadout
      /\ calls[c].pc \in {"take", "return"} /\ calls[c].op = "equip"
      /\ calls[c].pc # "none"
  BY DEF Take, Return, LockExcludes, Running, Stages
<1>2. CASE Take(c)
  <2> DEFINE next == IF calls[c].item \notin stash THEN "end"
                     ELSE IF calls[c].seen = None THEN "place" ELSE "return"
  <2>1. next \in Stage /\ Goto(c, next)
    BY <1>2 DEF Take, Stage
  <2>2. /\ next = "end" => calls[c].item \notin stash
        /\ next = "place" => calls[c].item \in stash /\ calls[c].seen = None
        /\ next = "return" => calls[c].item \in stash
        /\ next \in {"end", "place", "return"}
    OBVIOUS
  <2> HIDE DEF next
  <2>3. /\ calls'[c].pc = next /\ calls'[c].op = "equip"
        /\ calls'[c].item = calls[c].item /\ calls'[c].seen = calls[c].seen
    BY <1>1, <2>1, GotoStep
  <2>4. stash' = stash \ {calls[c].item} /\ None \notin stash
    BY <1>2 DEF Take, TypeOK
  <2>5. calls[c].pc = "take"
    BY <1>2 DEF Take
  <2>6. KeptBefore = stash /\ WornBefore = loadout
    BY <1>1, <2>5 DEF KeptBefore, WornBefore
  <2>7. KeptBefore' = IF next = "return" THEN stash' \cup {calls[c].item}
                      ELSE IF next = "place"
                           THEN (stash' \cup {calls[c].item}) \ {calls[c].seen}
                      ELSE stash'
    BY <1>1, <2>3 DEF KeptBefore
  <2>8. KeptBefore' = stash
    <3>1. CASE next = "end"
      BY <2>2, <2>4, <2>7, <3>1
    <3>2. CASE next = "place"
      BY <2>2, <2>4, <2>7, <3>2
    <3>3. CASE next = "return"
      BY <2>2, <2>4, <2>7, <3>3
    <3>4. QED
      BY <2>2, <3>1, <3>2, <3>3
  <2>9. WornBefore' = loadout
    BY <1>1, <2>2, <2>3 DEF WornBefore
  <2>10. QED
    BY <2>6, <2>8, <2>9
<1>3. CASE Return(c)
  <2>1. /\ calls[c].pc = "return" /\ stash' = stash \cup {calls[c].seen}
        /\ Goto(c, "place") /\ "place" \in Stage
    BY <1>3 DEF Return, Stage
  <2>2. /\ calls'[c].pc = "place" /\ calls'[c].op = "equip"
        /\ calls'[c].item = calls[c].item /\ calls'[c].seen = calls[c].seen
    BY <1>1, <2>1, GotoStep
  <2>3. calls[c].seen \notin stash /\ calls[c].seen # calls[c].item
    BY <2>1 DEF Placed, SeenOut, LooseApart, Loose, Remembers
  <2>4. KeptBefore = stash \cup {calls[c].item} /\ WornBefore = loadout
    BY <1>1, <2>1 DEF KeptBefore, WornBefore
  <2>5. KeptBefore' = (stash' \cup {calls[c].item}) \ {calls[c].seen}
    BY <1>1, <2>2 DEF KeptBefore
  <2>6. WornBefore' = loadout
    BY <1>1, <2>2 DEF WornBefore
  <2>7. QED
    BY <2>1, <2>3, <2>4, <2>5, <2>6
<1>4. QED
  BY <1>2, <1>3

\* Filling the slot is the vault's operation: an equip exchanges what the slot
\* held with the stash, an item from the pack comes from nowhere else.
LEMMA PlaceIsAtomic ==
    ASSUME TypeOK, TypeOK', LockExcludes, Stages, Placed, AsRead, mishaps' = mishaps,
           NEW c \in Call, Place(c)
    PROVE  Promise!Next
<1> USE LoadoutAssumptions
<1>1. /\ calls[c].pc = "place" /\ stash' = stash
      /\ loadout' = [loadout EXCEPT ![calls[c].slot] = calls[c].item]
      /\ lock = c /\ lock' = c /\ c # None
      /\ Goto(c, "end") /\ "end" \in Stage
      /\ calls[c].op \in {"equip", "wear"}
  BY DEF Place, LockExcludes, Running, Stages, Stage
<1>2. /\ calls[c].slot \in Slot
      /\ calls[c].item \in Item \ stash
      /\ \A s \in Slot : loadout[s] # calls[c].item
      /\ loadout[calls[c].slot] = calls[c].seen
  BY <1>1, Present DEF Placed, LooseOut, Loose, AsRead
<1>3. calls'[c].pc = "end"
  BY <1>1, GotoStep
<1>4. /\ WornBefore = loadout /\ WornBefore' = loadout'
      /\ KeptBefore' = stash
  BY <1>1, <1>3 DEF KeptBefore, WornBefore
<1>5. (mishaps = {})' = (mishaps = {})
  OBVIOUS
<1>6. CASE calls[c].op = "equip"
  <2>1. KeptBefore = (stash \cup {calls[c].item}) \ {calls[c].seen}
    BY <1>1, <1>6 DEF KeptBefore
  <2>2. calls[c].seen \in stash \cup {None} /\ None \notin stash
    BY <1>1, <1>6 DEF AsRead, TypeOK
  <2>3. calls[c].item \in KeptBefore
    BY <1>2, <2>1
  <2>4. stash = (KeptBefore \ {calls[c].item}) \cup ({calls[c].seen} \ {None})
    BY <1>2, <2>1, <2>2
  <2>5. Promise!Equip(calls[c].item, calls[c].slot)
    BY <1>1, <1>2, <1>4, <1>5, <2>3, <2>4 DEF Promise!Equip
  <2>6. QED
    BY <1>2, <2>5 DEF Promise!Next
<1>7. CASE calls[c].op = "wear"
  <2>1. KeptBefore = stash
    BY <1>1, <1>7 DEF KeptBefore
  <2>2. ~Promise!Somewhere(calls[c].item)
    BY <1>2, <1>4, <2>1 DEF Promise!Somewhere
  <2>3. Promise!Wear(calls[c].item, calls[c].slot)
    BY <1>1, <1>4, <1>5, <2>1, <2>2 DEF Promise!Wear
  <2>4. QED
    BY <1>2, <2>3 DEF Promise!Next
<1>8. QED
  BY <1>1, <1>6, <1>7

\* Emptying a slot is not yet a step: its item counts as worn until it is stored.
LEMMA EmptyIsQuiet ==
    ASSUME TypeOK, TypeOK', LockExcludes, AsRead, NEW c \in Call, Empty(c)
    PROVE  UNCHANGED <<KeptBefore, WornBefore>>
<1> USE LoadoutAssumptions
<1>1. /\ calls[c].pc = "empty" /\ stash' = stash
      /\ loadout' = [loadout EXCEPT ![calls[c].slot] = None]
      /\ lock = c /\ lock' = c /\ c # None
      /\ Goto(c, "store") /\ "store" \in Stage
  BY DEF Empty, LockExcludes, Running, Stage
<1>2. /\ calls'[c].pc = "store" /\ calls'[c].slot = calls[c].slot
      /\ calls'[c].seen = calls[c].seen
  BY <1>1, GotoStep
<1>3. loadout[calls[c].slot] = calls[c].seen /\ calls[c].slot \in Slot
  BY <1>1, Present DEF AsRead
<1>4. KeptBefore = stash /\ WornBefore = loadout
  BY <1>1 DEF KeptBefore, WornBefore
<1>5. KeptBefore' = stash'
  BY <1>1, <1>2 DEF KeptBefore
<1>6. WornBefore' = [loadout' EXCEPT ![calls[c].slot] = calls[c].seen]
  BY <1>1, <1>2 DEF WornBefore
<1>7. WornBefore' = loadout
  BY <1>1, <1>3, <1>6 DEF TypeOK
<1>8. QED
  BY <1>1, <1>4, <1>5, <1>7

\* Storing what was in the slot is the vault's unequip.
LEMMA StoreIsAtomic ==
    ASSUME TypeOK, TypeOK', LockExcludes, Stages, AsRead, mishaps' = mishaps,
           NEW c \in Call, Store(c)
    PROVE  Promise!Next
<1> USE LoadoutAssumptions
<1>1. /\ calls[c].pc = "store" /\ loadout' = loadout
      /\ stash' = stash \cup {calls[c].seen} /\ calls[c].seen # None
      /\ lock = c /\ lock' = c /\ c # None
      /\ Goto(c, "end") /\ "end" \in Stage
  BY DEF Store, LockExcludes, Running, Stages, Stage
<1>2. calls'[c].pc = "end"
  BY <1>1, GotoStep
<1>3. loadout[calls[c].slot] = None /\ calls[c].slot \in Slot
  BY <1>1, Present DEF AsRead
<1>4. /\ KeptBefore = stash
      /\ WornBefore = [loadout EXCEPT ![calls[c].slot] = calls[c].seen]
  BY <1>1 DEF KeptBefore, WornBefore
<1>5. KeptBefore' = stash' /\ WornBefore' = loadout
  BY <1>1, <1>2 DEF KeptBefore, WornBefore
<1>6. WornBefore[calls[c].slot] = calls[c].seen
  BY <1>3, <1>4 DEF TypeOK
<1>7. loadout = [WornBefore EXCEPT ![calls[c].slot] = None]
  BY <1>3, <1>4 DEF TypeOK
<1>8. (mishaps = {})' = (mishaps = {})
  OBVIOUS
<1>9. Promise!Unequip(calls[c].slot)
  BY <1>1, <1>4, <1>5, <1>6, <1>7, <1>8 DEF Promise!Unequip
<1>10. QED
  BY <1>3, <1>9 DEF Promise!Next

\* Every step is a step of the vault, or none.
LEMMA VaultStep ==
    ASSUME VaultInv, VaultInv', [Next]_vars
    PROVE  [Promise!Next]_(Promise!vars)
<1> USE LoadoutAssumptions
<1>1. /\ TypeOK /\ TypeOK' /\ LockExcludes /\ Stages
      /\ "failure" \notin mishaps => Placed
      /\ mishaps = {} => AsRead
  BY DEF VaultInv, IInv
<1>2. CASE mishaps' # {}
  <2>1. (mishaps = {})' = FALSE
    BY <1>2
  <2>2. QED
    BY <2>1 DEF Promise!Next, Promise!Interrupt
<1>3. CASE mishaps' = {}
  <2>1. mishaps = {} /\ mishaps' = mishaps
    BY <1>3, MishapsGrow
  <2>2. Placed /\ AsRead
    BY <1>1, <2>1
  <2>3. (mishaps = {})' = (mishaps = {})
    BY <2>1
  <2>4. SUFFICES Promise!Next \/ UNCHANGED <<KeptBefore, WornBefore>>
    BY <2>3 DEF Promise!vars
  <2>5. ASSUME NEW c \in Call, NEW op \in Op, NEW i \in Item \cup {None}, NEW s \in Slot,
               Begin(c, op, i, s)
        PROVE  UNCHANGED <<KeptBefore, WornBefore>>
    <3>1. /\ UNCHANGED <<stash, loadout, lock>>
          /\ calls[c].pc = "none"
          /\ \A d \in Call : d # c => calls'[d] = calls[d]
      BY <1>1, <2>5, BeginStep
    <3>2. lock # c
      BY <1>1, <3>1 DEF LockExcludes, Running
    <3>3. lock = None \/ calls'[lock] = calls[lock]
      BY <1>1, <3>1, <3>2 DEF TypeOK
    <3>4. QED
      BY <3>1, <3>3 DEF KeptBefore, WornBefore
  <2>6. ASSUME NEW c \in Call, NEW i \in Item, NEW s \in Slot,
               Equip(c, i, s) \/ Wear(c, i, s)
        PROVE  UNCHANGED <<KeptBefore, WornBefore>>
    BY <2>5, <2>6 DEF Equip, Wear, Op
  <2>7. ASSUME NEW c \in Call, NEW s \in Slot, Unequip(c, s)
        PROVE  UNCHANGED <<KeptBefore, WornBefore>>
    BY <2>5, <2>7 DEF Unequip, Op
  <2>8. ASSUME NEW c \in Call, Fail(c)
        PROVE  UNCHANGED <<KeptBefore, WornBefore>>
    <3>1. /\ ~MidWrite(c) /\ Running(c) /\ lock' = None
          /\ UNCHANGED <<stash, loadout>>
      BY <2>1, <2>8 DEF Fail, Release
    <3>2. lock = c
      BY <1>1, <3>1 DEF LockExcludes
    <3>3. KeptBefore = stash /\ WornBefore = loadout
      BY <1>1, <3>1, <3>2, BeforeIsNow DEF MidWrite
    <3>4. KeptBefore' = stash' /\ WornBefore' = loadout'
      BY <3>1 DEF KeptBefore, WornBefore
    <3>5. QED
      BY <3>1, <3>3, <3>4
  <2>9. ASSUME NEW c \in Call,
               Acquire(c) \/ Finish(c) \/ Find(c) \/ Read(c) \/ Weigh(c)
        PROVE  UNCHANGED <<KeptBefore, WornBefore>>
    BY <1>1, <2>1, <2>9, QuietSteps
  <2>10. ASSUME NEW c \in Call, Take(c) \/ Return(c) \/ Empty(c)
         PROVE  UNCHANGED <<KeptBefore, WornBefore>>
    BY <1>1, <2>2, <2>10, TakeAndReturnAreQuiet, EmptyIsQuiet
  <2>11. ASSUME NEW c \in Call, Place(c) \/ Store(c)
         PROVE  Promise!Next
    BY <1>1, <2>1, <2>2, <2>11, PlaceIsAtomic, StoreIsAtomic
  <2>12. CASE Wipe
    <3>1. /\ \A c \in Call : Running(c) => calls[c].pc \in {"find", "read", "end"}
          /\ loadout' = [s \in Slot |-> None]
          /\ UNCHANGED <<stash, lock, calls>>
      BY <1>3, <2>12 DEF Wipe
    <3>2. \A c \in Call : lock = c => calls[c].pc \in {"find", "read", "end"}
      BY <1>1, <3>1 DEF LockExcludes
    <3>3. KeptBefore = stash /\ WornBefore = loadout
      BY <1>1, <3>2, BeforeIsNow
    <3>4. KeptBefore' = stash' /\ WornBefore' = loadout'
      BY <1>1, <3>1, <3>2, BeforeIsNowNext
    <3>5. Promise!Wipe
      BY <2>3, <3>1, <3>3, <3>4 DEF Promise!Wipe
    <3>6. QED
      BY <3>5 DEF Promise!Next
  <2>13. CASE UNCHANGED vars
    BY <2>13 DEF vars, KeptBefore, WornBefore
  <2>14. QED
    BY <2>6, <2>7, <2>8, <2>9, <2>10, <2>11, <2>12, <2>13 DEF Next, Step
<1>4. QED
  BY <1>2, <1>3

-----------------------------------------------------------------------------
(* Theorems                                                                *)

\* The invariant holds of every behaviour.
THEOREM LoadoutInvariant == Spec => []IInv
<1> USE LoadoutAssumptions
<1>1. Init => IInv
  BY DEF Init, IInv, TypeOK, CallState, NoCall, LockExcludes, Running, Stages, Placed,
         Distinct, Apart, LooseOut, LooseApart, SeenOut, Loose, Remembers
<1>2. IInv /\ [Next]_vars => IInv'
  <2> SUFFICES ASSUME IInv, [Next]_vars PROVE IInv'
    OBVIOUS
  <2>1. TypeOK' /\ LockExcludes' /\ Stages'
    BY TypeStep, LockStep, StagesStep DEF IInv
  <2>2. ("failure" \notin mishaps => Placed)'
    BY MishapsGrow, PlacedStep DEF IInv
  <2>3. QED
    BY <2>1, <2>2 DEF IInv
<1>3. QED
  BY <1>1, <1>2, PTL DEF Spec

\* Maps and records are well-formed, whatever fails and whenever the player dies.
THEOREM LoadoutTypeCorrect == Spec => []TypeOK
BY LoadoutInvariant, PTL DEF IInv

\* OperationLock: at most one call is past acquire, whoever waits.
THEOREM LockIsExclusive == Spec => []LockExcludes
BY LoadoutInvariant, PTL DEF IInv

\* Between calls no item is in the stash and in a slot, nor in two slots, as long
\* as no write has failed.
THEOREM ItemsInOnePlace == Spec => []NothingDoubled
<1>1. IInv => NothingDoubled
  <2> SUFFICES ASSUME IInv, lock = None, "failure" \notin mishaps PROVE OnePlace
    BY DEF NothingDoubled
  <2>1. \A c \in Call : ~Running(c)
    BY LoadoutAssumptions DEF IInv, LockExcludes
  <2>2. \A s \in Slot : loadout[s] \notin stash
    BY <2>1 DEF IInv, Placed, Apart, Filling, Running
  <2>3. QED
    BY <2>2 DEF IInv, Placed, Distinct, OnePlace, Worn
<1>2. QED
  BY <1>1, LoadoutInvariant, PTL

\* What is remembered of the slots holds of every behaviour until a mishap.
LEMMA VaultInvariant == Spec => []VaultInv
<1>1. Init => VaultInv
  <2>1. Init => AsRead
    BY DEF Init, AsRead, NoCall
  <2>2. Init => IInv
    BY LoadoutAssumptions
    DEF Init, IInv, TypeOK, CallState, NoCall, LockExcludes, Running, Stages, Placed,
        Distinct, Apart, LooseOut, LooseApart, SeenOut, Loose, Remembers
  <2>3. QED
    BY <2>1, <2>2 DEF VaultInv
<1>2. VaultInv /\ IInv' /\ [Next]_vars => VaultInv'
  <2> SUFFICES ASSUME VaultInv, IInv', [Next]_vars, mishaps' = {}
               PROVE  AsRead'
    BY DEF VaultInv
  <2>1. mishaps = {}
    BY MishapsGrow
  <2>2. QED
    BY <2>1, AsReadStep DEF VaultInv, IInv
<1>3. QED
  BY <1>1, <1>2, LoadoutInvariant, PTL DEF Spec

\* "All equip/unequip/swap operations are atomic": as long as no repository fails
\* between two writes and no death falls into an operation, what is seen before
\* and after calls are whole equips, wears, unequips and deaths, for any number of
\* calls that wait on one another.
THEOREM OperationsAreAtomic == Spec => ImplementsVault
<1>1. Init => Promise!Init
  <2>1. Init => KeptBefore = stash /\ WornBefore = loadout
    BY DEF Init, KeptBefore, WornBefore
  <2>2. QED
    BY <2>1 DEF Init, Promise!Init
<1>2. VaultInv /\ VaultInv' /\ [Next]_vars => [Promise!Next]_(Promise!vars)
  BY VaultStep
<1>3. QED
  BY <1>1, <1>2, VaultInvariant, PTL DEF Spec, ImplementsVault, Promise!Spec
=============================================================================
