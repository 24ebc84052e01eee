----------------------------- MODULE EventQueue -----------------------------
(***************************************************************************)
(* The event loop of a node (src/service/eventqueue.go): a channel of      *)
(* callbacks, the goroutine StartQueue launches to run them and to drive   *)
(* the update module, and StopQueue, which queues a nil.                   *)
(*                                                                         *)
(* A callback is user code: what matters here is which callbacks it posts  *)
(* itself, from inside the loop, and whether it panics.  Time is counted   *)
(* in ticks of the 5 ms ticker.                                            *)
(***************************************************************************)
EXTENDS Integers, Sequences, FiniteSets

CONSTANTS
    Roots,      \* callbacks posted by other goroutines (sessions, timers)
    Children,   \* callbacks posted by callbacks
    Posts,      \* the child each root posts, or Nil
    Panicking,  \* callbacks that panic after posting
    Nil,        \* the nil StopQueue queues
    Cap,        \* capacity of queList: 20000 in the code
    Period,     \* least time between two updates: 10 ms in the code
    MaxTicks,   \* bound: the clock
    MaxStops    \* bound: calls of StopQueue

Callbacks == Roots \cup Children

ASSUME QueueAssumption ==
    /\ IsFiniteSet(Callbacks) /\ Nil \notin Callbacks
    /\ Posts \in [Callbacks -> Children \cup {Nil}]
    /\ Panicking \subseteq Callbacks
    /\ Cap \in Nat \ {0} /\ Period \in Nat \ {0}
    /\ MaxTicks \in Nat /\ MaxStops \in Nat

VARIABLES
    queList,    \* the channel
    wg,         \* counter of the WaitGroup
    loop,       \* where the loop is
    cur,        \* the callback it runs
    todo,       \* what that callback still has to post, or Nil
    posted,     \* callbacks whose PostCb returned, in order
    executed,   \* callbacks that ran, in order
    stops,      \* calls of StopQueue
    cutoff,     \* callbacks accepted when the first nil was queued
    startup,    \* what GetServiceStartupTime tells
    ticks,      \* GetTimeMilliseconds
    nowTime1,   \* time of the last update
    updates     \* calls of updateModule.Update

callbacks == <<cur, todo, posted, executed>>
time == <<nowTime1, updates>>
queuevars == <<queList, wg, loop, callbacks, stops, cutoff, startup, ticks, time>>

\* Not stored yet, never to be, stored as 0, and known.
Startups == {"unknown", "failed", "zero", "known"}
LoopPC == {"off", "startup", "select", "call", "after", "exited"}

\* StopQueue has not been called.
NoLimit == -1

Posted == {posted[i] : i \in DOMAIN posted}

QueueInit ==
    /\ queList = << >> /\ wg = 0 /\ loop = "off"
    /\ cur = Nil /\ todo = Nil /\ posted = << >> /\ executed = << >>
    /\ stops = 0 /\ cutoff = NoLimit
    /\ startup = "unknown" /\ ticks = 0 /\ nowTime1 = 0 /\ updates = 0

-----------------------------------------------------------------------------
(* Other goroutines.                                                        *)

\* StartQueue
StartQueue ==
    /\ loop = "off"
    /\ wg' = wg + 1 /\ loop' = "startup"
    /\ UNCHANGED <<queList, callbacks, stops, cutoff, startup, ticks, time>>

\* PostCb waits while the channel is full.
PostCb(c) ==
    /\ c \in Roots \ Posted /\ Len(queList) < Cap
    /\ queList' = Append(queList, c) /\ posted' = Append(posted, c)
    /\ UNCHANGED <<wg, loop, cur, todo, executed, stops, cutoff, startup, ticks, time>>

\* StopQueue queues a nil behind what is there.
StopQueue ==
    /\ stops < MaxStops /\ Len(queList) < Cap
    /\ queList' = Append(queList, Nil) /\ stops' = stops + 1
    /\ cutoff' = IF cutoff = NoLimit THEN Len(posted) ELSE cutoff
    /\ UNCHANGED <<wg, loop, callbacks, startup, ticks, time>>

\* InitServiceStartupTime looks up the startup time of the zone.  It panics when
\* that fails, before anything is stored, and when it cannot write a new one,
\* after it is; a time in etcd that is not a number is stored as 0.
StartupTime ==
    /\ startup = "unknown" /\ startup' \in {"failed", "zero", "known"}
    /\ UNCHANGED <<queList, wg, loop, callbacks, stops, cutoff, ticks, time>>

TickerPass ==
    /\ ticks < MaxTicks /\ ticks' = ticks + 1
    /\ UNCHANGED <<queList, wg, loop, callbacks, stops, cutoff, startup, time>>

-----------------------------------------------------------------------------
(* The loop.                                                                *)

LoopGoto(pc) == loop' = pc /\ UNCHANGED <<stops, cutoff, startup, ticks>>

\* The startup time is known: one update, then the loop.
LoopBegin ==
    /\ loop = "startup" /\ startup = "known"
    /\ nowTime1' = ticks /\ updates' = updates + 1
    /\ LoopGoto("select")
    /\ UNCHANGED <<queList, wg, callbacks>>

\* Mutant: a nil anywhere in the queue ends the loop.
BugTake ==
    /\ loop = "select" /\ queList # << >>
    /\ queList' = Tail(queList)
    /\ IF \E i \in 1..Len(queList) : queList[i] = Nil
       THEN LoopGoto("exited") /\ wg' = wg - 1 /\ UNCHANGED <<cur, todo>>
       ELSE /\ LoopGoto("call") /\ UNCHANGED wg
            /\ cur' = Head(queList) /\ todo' = Posts[Head(queList)]
    /\ UNCHANGED <<posted, executed, time>>

\* <-a.queList: nil ends the loop at once, wg.Done().
Take ==
    /\ loop = "select" /\ queList # << >>
    /\ queList' = Tail(queList)
    /\ IF Head(queList) = Nil
       THEN LoopGoto("exited") /\ wg' = wg - 1 /\ UNCHANGED <<cur, todo>>
       ELSE /\ LoopGoto("call") /\ UNCHANGED wg
            /\ cur' = Head(queList) /\ todo' = Posts[Head(queList)]
    /\ UNCHANGED <<posted, executed, time>>

\* The running callback posts one of its own: the loop waits for room that
\* only the loop can make.
CallPost ==
    /\ loop = "call" /\ todo # Nil /\ todo \notin Posted
    /\ Len(queList) < Cap
    /\ queList' = Append(queList, todo) /\ posted' = Append(posted, todo)
    /\ todo' = Nil
    /\ LoopGoto("call")
    /\ UNCHANGED <<wg, cur, executed, time>>

\* Mutant: queueCall does not recover, a panic ends the loop.
BugCallEnd ==
    /\ loop = "call" /\ (todo = Nil \/ todo \in Posted)
    /\ executed' = Append(executed, cur) /\ cur' = Nil /\ todo' = Nil
    /\ LoopGoto(IF cur \in Panicking THEN "exited" ELSE "after")
    /\ UNCHANGED <<queList, wg, posted, time>>

\* The callback returns, or panics and queueCall recovers: the same.
CallEnd ==
    /\ loop = "call" /\ (todo = Nil \/ todo \in Posted)
    /\ executed' = Append(executed, cur) /\ cur' = Nil /\ todo' = Nil
    /\ LoopGoto("after")
    /\ UNCHANGED <<queList, wg, posted, time>>

\* <-updateDelayTimer.C
Ticker ==
    /\ loop = "select"
    /\ LoopGoto("after")
    /\ UNCHANGED <<queList, wg, callbacks, time>>

\* Mutant: the time of the update is not remembered.
BugAfter ==
    /\ loop = "after"
    /\ updates' = IF nowTime1 + Period <= ticks THEN updates + 1 ELSE updates
    /\ LoopGoto("select")
    /\ UNCHANGED <<queList, wg, callbacks, nowTime1>>

\* At most one update every 10 ms.
After ==
    /\ loop = "after"
    /\ IF nowTime1 + Period <= ticks
       THEN nowTime1' = ticks /\ updates' = updates + 1
       ELSE UNCHANGED time
    /\ LoopGoto("select")
    /\ UNCHANGED <<queList, wg, callbacks>>

-----------------------------------------------------------------------------
\* The steps of the loop that nothing but the channel keeps waiting.
LoopRuns == LoopBegin \/ CallPost \/ CallEnd \/ After

QueueNext ==
    \/ StartQueue \/ StopQueue \/ StartupTime \/ TickerPass
    \/ \E c \in Roots : PostCb(c)
    \/ LoopRuns \/ Take \/ Ticker

QueueSpec == QueueInit /\ [][QueueNext]_queuevars

-----------------------------------------------------------------------------
(* Properties.                                                              *)

QueueTypeOK ==
    /\ queList \in Seq(Callbacks \cup {Nil}) /\ Len(queList) <= Cap
    /\ wg \in {0, 1}
    /\ loop \in LoopPC
    /\ cur \in Callbacks \cup {Nil} /\ todo \in Children \cup {Nil}
    /\ posted \in Seq(Callbacks)
    /\ executed \in Seq(Callbacks)
    /\ stops \in 0..MaxStops /\ cutoff \in Nat \cup {NoLimit}
    /\ startup \in Startups
    /\ ticks \in 0..MaxTicks /\ nowTime1 \in 0..ticks /\ updates \in Nat

\* What was posted and has not finished.
Waiting == SubSeq(posted, Len(executed) + 1, Len(posted))

Exec == INSTANCE Executor
          WITH pending <- Waiting, done <- executed, limit <- cutoff,
               ended <- (loop = "exited")

\* The event queue is a sequential executor: callbacks finish one by one in
\* the order of their PostCb, also when one panics or posts others, StopQueue
\* lets those before it finish, and Wait (wg back to zero) returns after them.
IsExecutor == Exec!Spec

\* However many callbacks the loop works off, the update module is called at
\* most once in a period after the first time.
UpdateThrottled == QueueTypeOK /\ updates <= 1 + (ticks \div Period)

\* The running callback posts into a full channel, which only its own loop
\* could empty.
SelfBlocked ==
    loop = "call" /\ todo # Nil /\ todo \notin Posted /\ Len(queList) = Cap

\* Once the startup time is known, after StopQueue the loop comes to its end and
\* Wait returns, however many callbacks are queued before the nil and although
\* some panic.  The one thing that can prevent it is a callback that posts into
\* a full channel.  While the time is not known, or is 0, the loop waits for it
\* for ever and no StopQueue ends it.
Ends ==
    stops > 0 /\ startup = "known" /\ loop # "off" ~> (loop = "exited" /\ wg = 0) \/ SelfBlocked
=============================================================================
