------------------------------ MODULE TimeWheel ------------------------------
(***************************************************************************)
(* The timing wheel of src/util/timewheel.go.  It runs inside the event    *)
(* loop: AddTask, RemoveTask and Update never overlap, but Update calls    *)
(* the callbacks of due tasks in the middle of its walk over a slot, and a *)
(* callback may call AddTask and RemoveTask.  The walk is therefore taken  *)
(* element by element, and the element it stands at may be gone when the   *)
(* callback returns.  A list holds tasks; the walk knows its element by    *)
(* the place, since a key may come to stand in the wheel twice.  A task    *)
(* without a key stands for one element: two elements are two tasks.       *)
(* A task that is put in again is the same object: its elements share the  *)
(* one count of rotations.                                                 *)
(***************************************************************************)
EXTENDS Integers, Sequences, FiniteSets, SequencesExt

CONSTANTS
    Tasks,      \* tasks, identified with their keys
    Keyless,    \* those whose Key is nil
    Repeated,   \* those with Repeated set
    Delay,      \* [Tasks -> Nat], in ms
    Interval,   \* ms per slot
    SlotNum,    \* slots of the wheel
    None,       \* no element
    Timed,      \* tasks with a key whose age is followed
    MaxTime,    \* bound: the clock, in ms
    MaxBack,    \* bound: times the clock is set back
    MaxReadds   \* bound: times a callback puts in its own task after taking it out

ASSUME WheelAssumption ==
    /\ IsFiniteSet(Tasks) /\ None \notin Tasks
    /\ Keyless \subseteq Tasks /\ Repeated \subseteq Tasks
    /\ Timed \subseteq Tasks \ Keyless
    /\ Delay \in [Tasks -> Nat]
    /\ Interval \in Nat \ {0} /\ SlotNum \in Nat \ {0}
    /\ MaxTime \in Nat \ {0} /\ MaxBack \in Nat /\ MaxReadds \in Nat

VARIABLES
    slots,       \* the list of each slot
    circle,      \* rotations each task still waits
    timer,       \* slot of each key in the map, or NoSlot
    currentIdx,  \* slot the next update looks at
    oldMs,       \* time up to which the wheel has turned, 0 before the first
    clock,       \* the ms the next Update is given
    backs,       \* times the clock was set back
    walk,        \* "idle", "loop" (Update's loop), "walk" or "callback"
    item,        \* the task of the element the walk is at
    pos,         \* the place of that element in its slot, 0 once it is removed
    age,         \* history: for each timed task in the wheel, how long it is there
    readds       \* history: times a callback put in its own task after taking it out

wheel == <<slots, circle, timer, age>>
wheelvars == <<wheel, currentIdx, oldMs, clock, backs, walk, item, pos, readds>>

NoSlot == -1
Slots == 0..(SlotNum - 1)
Never == [ticks |-> -1, ms |-> -1, inside |-> FALSE, behind |-> FALSE, skips |-> -1]

WheelInit ==
    /\ slots = [i \in Slots |-> << >>]
    /\ circle = [t \in Tasks |-> 0]
    /\ timer = [t \in Tasks |-> NoSlot]
    /\ currentIdx = 0 /\ oldMs = 0 /\ clock = 1 /\ backs = 0
    /\ walk = "idle" /\ item = None /\ pos = 0 /\ readds = 0
    /\ age = [t \in Tasks |-> Never]

-----------------------------------------------------------------------------
(* Lists.                                                                   *)

\* The walk goes to the element at place k of a list, if there is one.
WalkTo(list, k) ==
    IF k \in 1..Len(list) THEN item' = list[k] /\ pos' = k ELSE item' = None /\ pos' = 0

\* The first place of a list that has the key.
FirstAt(list, t) == SelectInSeq(list, LAMBDA u : u = t)

\* The element the walk stands at was removed.
Unlinked == item # None /\ pos = 0

InWheel(t) == \E i \in Slots : Contains(slots[i], t)

-----------------------------------------------------------------------------
(* getIdxAndCircle, AddTask, RemoveTask.                                    *)

\* Whole intervals of a delay.
Steps(t) == Delay[t] \div Interval

CircleOf(t) == Steps(t) \div SlotNum

\* Mutant: the slots are counted from the first one.
BugIdxOf(t) == Steps(t) % SlotNum

IdxOf(t) == (currentIdx + Steps(t)) % SlotNum

\* The age of a task that is put into the wheel, and of all of them after a
\* turn of the wheel and a tick of the clock.
Born(t) ==
    IF t \in Timed
    THEN [ticks |-> 0, ms |-> 0, skips |-> 0,
          inside |-> walk # "idle", behind |-> clock - oldMs >= Interval]
    ELSE Never

Older(turns, time) ==
    [t \in Tasks |-> IF age[t] = Never THEN Never
                     ELSE [age[t] EXCEPT !.ticks = @ + turns, !.ms = @ + time]]

\* A callback that removed its own task cuts the walk short: the tasks of the
\* slot may have missed a turn.
Skipped == [t \in Tasks |-> IF age[t] # Never /\ Unlinked /\ Contains(slots[currentIdx], t)
                           THEN [age[t] EXCEPT !.skips = @ + 1] ELSE age[t]]

\* AddTask on given lists and map: refused when the key is in the map.
Place(t, lists, index, history) ==
    IF index[t] # NoSlot
    THEN slots' = lists /\ timer' = index /\ age' = history /\ UNCHANGED circle
    ELSE /\ slots' = [lists EXCEPT ![IdxOf(t)] = Append(@, t)]
         /\ circle' = [circle EXCEPT ![t] = CircleOf(t)]
         /\ timer' = [index EXCEPT ![t] = IF t \in Keyless THEN NoSlot ELSE IdxOf(t)]
         /\ age' = [history EXCEPT ![t] = Born(t)]

\* The program may call AddTask and RemoveTask outside of Update, or in a
\* callback.
MayCall == walk \in {"idle", "callback"}

\* A callback may put in its own task too, which is refused as long as its key
\* is in the map.
AddTask(t) ==
    /\ MayCall
    /\ t \in Keyless => ~InWheel(t)
    /\ LET own == Unlinked /\ t = item
       IN  /\ own => readds < MaxReadds
           /\ readds' = IF own THEN readds + 1 ELSE readds
    /\ Place(t, slots, timer, age)
    /\ UNCHANGED <<currentIdx, oldMs, clock, backs, walk, item, pos>>

\* Where the element of the walk stands when the first one with the key of t
\* has left its slot.
PlaceWithout(t) ==
    LET j == FirstAt(slots[currentIdx], t)
    IN  IF pos = j THEN 0 ELSE IF pos > j THEN pos - 1 ELSE pos

\* Mutant: the map is left alone.
BugRemoveTask(t) ==
    /\ MayCall /\ timer[t] # NoSlot /\ Contains(slots[timer[t]], t)
    /\ slots' = [slots EXCEPT ![timer[t]] = RemoveFirst(@, t)]
    /\ pos' = IF timer[t] # currentIdx THEN pos ELSE PlaceWithout(t)
    /\ age' = [age EXCEPT ![t] = Never]
    /\ UNCHANGED <<timer, circle, currentIdx, oldMs, clock, backs, walk, item, readds>>

\* RemoveTask looks for the key in the slot the map names, and stops at the first
\* element that has it: an element that is removed has no next.
RemoveTask(t) ==
    /\ MayCall /\ timer[t] # NoSlot /\ Contains(slots[timer[t]], t)
    /\ slots' = [slots EXCEPT ![timer[t]] = RemoveFirst(@, t)]
    /\ pos' = IF timer[t] # currentIdx THEN pos ELSE PlaceWithout(t)
    /\ timer' = [timer EXCEPT ![t] = NoSlot]
    /\ age' = [age EXCEPT ![t] = Never]
    /\ UNCHANGED <<circle, currentIdx, oldMs, clock, backs, walk, item, readds>>

-----------------------------------------------------------------------------
(* Update.                                                                  *)

\* Time passes between two calls of Update.
Tick ==
    /\ walk = "idle" /\ clock < MaxTime
    /\ clock' = clock + 1 /\ age' = Older(0, 1)
    /\ UNCHANGED <<slots, circle, timer, currentIdx, oldMs, backs, walk, item, pos, readds>>

\* The wall clock is set back between two calls of Update.
SetBack ==
    /\ walk = "idle" /\ backs < MaxBack
    /\ clock' \in 1..(clock - 1) /\ backs' = backs + 1
    /\ UNCHANGED <<wheel, currentIdx, oldMs, walk, item, pos, readds>>

\* The first Update only notes the time.
UpdateFirst ==
    /\ walk = "idle" /\ oldMs = 0
    /\ oldMs' = clock
    /\ UNCHANGED <<wheel, currentIdx, clock, backs, walk, item, pos, readds>>

UpdateCall ==
    /\ walk = "idle" /\ oldMs > 0
    /\ walk' = "loop"
    /\ UNCHANGED <<wheel, currentIdx, oldMs, clock, backs, item, pos, readds>>

\* Where the loop measures from: a clock that went back restarts the count.
From == IF oldMs > clock THEN clock ELSE oldMs

\* Mutant: the wheel turns as soon as any time has passed.
BugLoopTurn ==
    /\ walk = "loop" /\ clock > From
    /\ oldMs' = clock /\ age' = Older(1, 0)
    /\ walk' = "walk" /\ WalkTo(slots[currentIdx], 1)
    /\ UNCHANGED <<slots, circle, timer, currentIdx, clock, backs, readds>>

\* One more interval is over: update looks at the current slot.
LoopTurn ==
    /\ walk = "loop" /\ clock - From >= Interval
    /\ oldMs' = From + Interval /\ age' = Older(1, 0)
    /\ walk' = "walk" /\ WalkTo(slots[currentIdx], 1)
    /\ UNCHANGED <<slots, circle, timer, currentIdx, clock, backs, readds>>

LoopReturn ==
    /\ walk = "loop" /\ clock - From < Interval
    /\ oldMs' = From /\ walk' = "idle"
    /\ UNCHANGED <<wheel, currentIdx, clock, backs, item, pos, readds>>

\* A task with rotations left waits for one less.
WalkCircle ==
    /\ walk = "walk" /\ item # None /\ circle[item] > 0
    /\ circle' = [circle EXCEPT ![item] = @ - 1]
    /\ WalkTo(slots[currentIdx], pos + 1)
    /\ UNCHANGED <<slots, timer, age, currentIdx, oldMs, clock, backs, walk, readds>>

\* a.Callback(task, ms)
WalkFire ==
    /\ walk = "walk" /\ item # None /\ circle[item] = 0
    /\ walk' = "callback"
    /\ UNCHANGED <<wheel, currentIdx, oldMs, clock, backs, item, pos, readds>>

\* What follows the callback of a task: one with a key leaves the map and the
\* list, and is added again when it repeats.
AfterCallback ==
    LET rest == [slots EXCEPT ![currentIdx] = IF Unlinked THEN @ ELSE RemoveAt(@, pos)]
        index == [timer EXCEPT ![item] = NoSlot]
    IN IF item \in Keyless THEN UNCHANGED wheel
        ELSE IF item \in Repeated THEN Place(item, rest, index, Skipped)
        ELSE /\ slots' = rest /\ timer' = index
             /\ age' = [Skipped EXCEPT ![item] = Never] /\ UNCHANGED circle

\* Mutant: the walk starts over after every callback.
BugCallbackEnd ==
    /\ walk = "callback" /\ walk' = "walk"
    /\ AfterCallback
    /\ WalkTo(slots'[currentIdx], 1)
    /\ UNCHANGED <<currentIdx, oldMs, clock, backs, readds>>

\* The callback returned.  The next element is looked up before its own
\* leaves the list; one that the callback removed has none.
CallbackEnd ==
    /\ walk = "callback" /\ walk' = "walk"
    /\ AfterCallback
    /\ IF Unlinked \/ pos = Len(slots[currentIdx]) THEN item' = None /\ pos' = 0
       ELSE /\ item' = slots[currentIdx][pos + 1]
            /\ pos' = IF item \in Keyless THEN pos + 1 ELSE pos
    /\ UNCHANGED <<currentIdx, oldMs, clock, backs, readds>>

\* The end of the list: on to the next slot, and back to Update's loop.
WalkEnd ==
    /\ walk = "walk" /\ item = None
    /\ currentIdx' = IF currentIdx >= SlotNum - 1 THEN 0 ELSE currentIdx + 1
    /\ walk' = "loop"
    /\ UNCHANGED <<wheel, oldMs, clock, backs, item, pos, readds>>

-----------------------------------------------------------------------------
Running == LoopTurn \/ LoopReturn \/ WalkCircle \/ WalkFire \/ CallbackEnd \/ WalkEnd

WheelNext ==
    \/ Tick \/ SetBack \/ UpdateFirst \/ UpdateCall \/ Running
    \/ \E t \in Tasks : AddTask(t) \/ RemoveTask(t)

\* An Update that was called goes on; callbacks return.
WheelFairness == WF_wheelvars(Running)

WheelSpec == WheelInit /\ [][WheelNext]_wheelvars

-----------------------------------------------------------------------------
(* Properties.                                                              *)

WheelTypeOK ==
    /\ slots \in [Slots -> Seq(Tasks)]
    /\ circle \in [Tasks -> Nat]
    /\ timer \in [Tasks -> Slots \cup {NoSlot}]
    /\ currentIdx \in Slots
    /\ oldMs \in 0..MaxTime /\ clock \in 1..MaxTime /\ backs \in 0..MaxBack
    /\ walk \in {"idle", "loop", "walk", "callback"}
    /\ item \in Tasks \cup {None} /\ pos \in Nat /\ readds \in 0..MaxReadds
    /\ age \in [Tasks -> [ticks : Int, ms : Int, skips : Int,
                       inside : BOOLEAN, behind : BOOLEAN]]

\* A key in the map always stands in the slot the map names, so that RemoveTask
\* finds it.  Until a callback first puts in its own task after taking it out,
\* map and lists agree in full: the key stands there once and nowhere else, and
\* a key that is not in the map is nowhere, so that AddTask cannot put it in
\* twice, whatever else callbacks take out and put in during the walk.  (After
\* such a callback its task is in a list, but the key is deleted from the map.)
IndexAgrees ==
    /\ WheelTypeOK
    /\ \A t \in Tasks : timer[t] # NoSlot => Contains(slots[timer[t]], t)
    /\ readds = 0 =>
          \A t \in Tasks \ Keyless, i \in Slots :
             Cardinality({j \in 1..Len(slots[i]) : slots[i][j] = t})
               = IF timer[t] = i THEN 1 ELSE 0

\* A task fires in the update that follows its delay in whole intervals; a
\* repeated task put back during the walk fires after exactly its delay, or a
\* whole rotation later when its delay is a multiple of the rotation.  It is
\* never early, and late only by whole rotations, at most one for each
\* callback that removed its own task while it stood in the same slot.  (For
\* wheels whose map and lists agree, see IndexAgrees.)
OnTime ==
    readds = 0 /\ walk = "callback" /\ age[item] # Never =>
        LET due == IF age[item].inside THEN Steps(item) ELSE Steps(item) + 1
            more == IF age[item].inside /\ Steps(item) % SlotNum = 0 THEN 1 ELSE 0
        IN age[item].ticks \in {due + k * SlotNum : k \in 0..(age[item].skips + more)}

\* A task never fires before the whole intervals of its delay have passed
\* since AddTask, if Update had kept up with the clock when it was added.  (For
\* wheels whose map and lists agree, see IndexAgrees.)
NeverEarly ==
    readds = 0 /\ walk = "callback" /\ age[item] # Never /\ ~age[item].inside /\ ~age[item].behind =>
        age[item].ms >= Steps(item) * Interval

\* Update comes to an end, whatever callbacks add and remove, with repeated
\* tasks that come back to the slot being walked, tasks without a key and a
\* clock set back, unless it fires tasks shorter than an interval for ever:
\* such a task is put behind the end of the very list being walked and fires
\* in the same walk, so one that repeats, or two that add each other, keep it
\* going.  Where a task stands twice (see IndexAgrees) its two elements count
\* down the same rotations, and a delay of whole rotations does the same.
UpdateReturns ==
    \/ []<>(walk = "idle")
    \/ []<>(/\ walk = "callback"
            /\ Steps(item) = 0 \/ (readds > 0 /\ Steps(item) % SlotNum = 0))
=============================================================================
