------------------------------- MODULE Session -------------------------------
(***************************************************************************)
(* The life of one tcpSession (src/socket/tcp/session.go): the caller      *)
(* goroutines that Send and Close, the heartbeat goroutines, the reader    *)
(* RunRecv, the writer RunSend and the goroutine started by Start that     *)
(* waits for both, closes the send queue and removes the session.          *)
(*                                                                         *)
(* One action is one step a goroutine takes between two points where       *)
(* another can run: an atomic load or swap, a channel operation, a call on *)
(* the connection, a WaitGroup operation.                                  *)
(*                                                                         *)
(* A message is abstracted to the goroutine that sent it.  An acceptor     *)
(* creates a session with its connection and starts it once; a connector   *)
(* owns a single session object, hands it out before it is connected       *)
(* (tcpConnector.Session) and starts it again after every reconnect.       *)
(***************************************************************************)
EXTENDS Naturals, Sequences, FiniteSets

CONSTANTS
    Senders,          \* goroutines that call Send
    HeartBeats,       \* those of them that HeartBeat started
    Closers,          \* goroutines that call Close
    Nil,              \* the nil RunRecv queues to stop RunSend
    SendQueueMaxLen,  \* the package variable sendQueueMaxLen Send compares with
    OwnMaxLen,        \* the field a.sendQueueMaxLen that sizes the channel
    IsConnector,      \* the session belongs to a connector
    MaxStarts,        \* bound: calls of Start
    MaxSends,         \* bound: calls of Send by each sender
    Panics            \* the reader and the writer may panic

ASSUME SessionAssumption ==
    /\ IsFiniteSet(Senders)
    /\ HeartBeats \subseteq Senders
    /\ Nil \notin Senders
    /\ SendQueueMaxLen \in Nat \ {0}
    /\ OwnMaxLen \in Nat \ {0}
    /\ MaxStarts \in Nat /\ MaxSends \in Nat
    /\ IsConnector \in BOOLEAN /\ Panics \in BOOLEAN

\* make(chan interface{}, a.sendQueueMaxLen+1)
Cap == OwnMaxLen + 1

VARIABLES
    closeInt,      \* 0 open, 1 closed
    sendQueue,     \* the contents of the channel
    chan,          \* the channel itself: "nil", "open" or "closed"
    conn,          \* a.conn: "nil", "open" or "closed"
    exitWg,        \* counter of the WaitGroup
    registered,    \* the session is in its manager's map
    start,         \* progress of the owner through setConn and Start
    starts,        \* calls of Start so far
    recv,          \* where RunRecv is
    send,          \* where RunSend is
    closer,        \* where the goroutine waiting on exitWg is
    caller,        \* where each sender is
    sent,          \* calls of Send made by each sender
    close,         \* where each caller of Close is
    closedEvents   \* calls of ProcEvent(SessionClosed) that returned

owned == <<start, starts, conn>>
queued == <<sendQueue, chan>>
routines == <<recv, send, closer>>
callers == <<caller, sent>>
vars == <<closeInt, queued, owned, exitWg, registered, routines, callers,
          close, closedEvents>>

StartPC == {"idle", "conn", "reset"}
RecvPC == {"none", "read", "push", "event", "done", "exited", "dead"}
SendPC == {"none", "range", "write", "close", "done", "exited", "dead"}
CloserPC == {"none", "wait", "remove", "callback", "exited"}
CallerPC == {"off", "idle", "tick", "checked", "sized", "blocked", "stuck",
             "panicked"}

Init ==
    /\ closeInt = 0
    /\ sendQueue = << >> /\ chan = "nil"
    /\ conn = "nil"
    /\ exitWg = 0
    /\ registered = FALSE
    /\ start = "idle" /\ starts = 0
    /\ recv = "none" /\ send = "none" /\ closer = "none"
    /\ caller = [s \in Senders |-> IF s \in HeartBeats THEN "off" ELSE "idle"]
    /\ sent = [s \in Senders |-> 0]
    /\ close = [c \in Closers |-> "idle"]
    /\ closedEvents = 0

-----------------------------------------------------------------------------
(* The owner: connector.connect or acceptor.tcpAccept.                      *)

\* A new connection is stored in the session.
SetConn ==
    /\ start = "idle" /\ closer \in {"none", "exited"} /\ conn = "nil"
    /\ starts < MaxStarts
    /\ start' = "conn" /\ conn' = "open"
    /\ UNCHANGED <<closeInt, queued, starts, exitWg, registered, routines,
                   callers, close, closedEvents>>

\* Start, first statement: the close mark is taken back.
StartReset ==
    /\ start = "conn"
    /\ closeInt' = 0 /\ start' = "reset"
    /\ UNCHANGED <<queued, starts, conn, exitWg, registered, routines,
                   callers, close, closedEvents>>

\* Mutant: exitWg.Add(1), one goroutine forgotten.
BugStartSpawn ==
    /\ start = "reset"
    /\ start' = "idle" /\ starts' = starts + 1
    /\ sendQueue' = << >> /\ chan' = "open"
    /\ exitWg' = exitWg + 1
    /\ registered' = TRUE
    /\ recv' = "read" /\ send' = "range" /\ closer' = "wait"
    /\ UNCHANGED <<closeInt, conn, callers, close, closedEvents>>

\* The rest of Start: a fresh queue, registration and the three goroutines.
StartSpawn ==
    /\ start = "reset"
    /\ start' = "idle" /\ starts' = starts + 1
    /\ sendQueue' = << >> /\ chan' = "open"
    /\ exitWg' = exitWg + 2
    /\ registered' = TRUE
    /\ recv' = "read" /\ send' = "range" /\ closer' = "wait"
    /\ UNCHANGED <<closeInt, conn, callers, close, closedEvents>>

\* Mutant: the connection is forgotten without waiting for the session.
BugClearConn ==
    /\ IsConnector
    /\ start = "idle" /\ conn = "closed"
    /\ conn' = "nil"
    /\ UNCHANGED <<closeInt, queued, start, starts, exitWg, registered,
                   routines, callers, close, closedEvents>>

\* A connector forgets the connection once the session has ended.
ClearConn ==
    /\ IsConnector
    /\ start = "idle" /\ closer = "exited" /\ conn # "nil"
    /\ conn' = "nil"
    /\ UNCHANGED <<closeInt, queued, start, starts, exitWg, registered,
                   routines, callers, close, closedEvents>>

-----------------------------------------------------------------------------
(* Callers of Send, Close and HeartBeat.                                    *)

\* An accepted session is known to others only after Start registered it.
HandedOut == IsConnector \/ starts > 0

Goto(s, pc) ==
    /\ caller' = [caller EXCEPT ![s] = pc]
    /\ UNCHANGED <<closeInt, owned, exitWg, registered, routines, close,
                   closedEvents>>

\* HeartBeat starts a goroutine unless the session is closed.
HeartBeat(s) ==
    /\ HandedOut
    /\ s \in HeartBeats /\ caller[s] = "off" /\ closeInt = 0
    /\ Goto(s, "idle") /\ UNCHANGED <<queued, sent>>

\* The timer fires; on a closed session the break only leaves the select,
\* so the goroutine waits for the next tick.
HeartTick(s) ==
    /\ s \in HeartBeats /\ caller[s] = "idle" /\ closeInt = 0
    /\ Goto(s, "tick") /\ UNCHANGED <<queued, sent>>

\* Send reads closeInt and gives up on a closed session.
SendCheck(s) ==
    /\ HandedOut
    /\ caller[s] = (IF s \in HeartBeats THEN "tick" ELSE "idle")
    /\ sent[s] < MaxSends
    /\ sent' = [sent EXCEPT ![s] = @ + 1]
    /\ Goto(s, IF closeInt = 0 THEN "checked" ELSE "idle")
    /\ UNCHANGED queued

\* Mutant: one message more than the limit passes.
BugSendLen(s) ==
    /\ caller[s] = "checked"
    /\ Goto(s, IF Len(sendQueue) <= SendQueueMaxLen THEN "sized" ELSE "idle")
    /\ UNCHANGED <<queued, sent>>

\* Send compares the length with the limit; above it the message is dropped
\* and logged with a.conn.LocalAddr(), a nil dereference without connection.
SendLen(s) ==
    /\ caller[s] = "checked"
    /\ Goto(s, IF Len(sendQueue) < SendQueueMaxLen THEN "sized"
               ELSE IF conn = "nil" THEN "panicked" ELSE "idle")
    /\ UNCHANGED <<queued, sent>>

\* a.sendQueue <- msg: succeeds, blocks on a full or on a nil channel, or
\* panics on a closed one.
SendPush(s) ==
    /\ caller[s] = "sized"
    /\ \/ /\ chan = "open" /\ Len(sendQueue) < Cap
          /\ sendQueue' = Append(sendQueue, s) /\ Goto(s, "idle")
       \/ /\ chan = "open" /\ Len(sendQueue) >= Cap
          /\ Goto(s, "blocked") /\ UNCHANGED sendQueue
       \/ /\ chan = "closed"
          /\ Goto(s, "panicked") /\ UNCHANGED sendQueue
       \/ /\ chan = "nil"
          /\ Goto(s, "stuck") /\ UNCHANGED sendQueue
    /\ UNCHANGED <<chan, sent>>

\* RunSend made room for a blocked sender.
SendUnblock(s) ==
    /\ caller[s] = "blocked" /\ chan = "open" /\ Len(sendQueue) < Cap
    /\ sendQueue' = Append(sendQueue, s)
    /\ Goto(s, "idle") /\ UNCHANGED <<chan, sent>>

\* The event loop recovers a panicking callback (eventQueue.queueCall);
\* nothing recovers a heartbeat goroutine.
Recovered(s) ==
    /\ caller[s] = "panicked" /\ s \notin HeartBeats
    /\ Goto(s, "idle") /\ UNCHANGED <<queued, sent>>

\* Close swaps closeInt and goes on only if it was the first.
CloseSwap(c) ==
    /\ HandedOut
    /\ close[c] = "idle"
    /\ closeInt' = 1
    /\ close' = [close EXCEPT ![c] = IF closeInt = 0 THEN "swapped" ELSE "idle"]
    /\ UNCHANGED <<queued, owned, exitWg, registered, routines, callers,
                   closedEvents>>

Closed(cn) == IF cn = "nil" THEN "nil" ELSE "closed"

\* ... and closes the connection it then finds.
CloseConn(c) ==
    /\ close[c] = "swapped"
    /\ close' = [close EXCEPT ![c] = "idle"]
    /\ conn' = Closed(conn)
    /\ UNCHANGED <<closeInt, queued, start, starts, exitWg, registered,
                   routines, callers, closedEvents>>

-----------------------------------------------------------------------------
(* RunRecv.                                                                 *)

RecvGoto(pc) ==
    /\ recv' = pc
    /\ UNCHANGED <<chan, owned, registered, send, closer, callers, close>>

\* ReadMsg returned a message, which is posted to the node's callback.
RecvMsg ==
    /\ recv = "read" /\ conn = "open"
    /\ RecvGoto("read")
    /\ UNCHANGED <<closeInt, sendQueue, exitWg, closedEvents>>

\* ReadMsg failed: the peer closed, the frame was bad, a deadline passed or
\* this side closed the connection.
RecvErr ==
    /\ recv = "read"
    /\ closeInt' = 1
    /\ RecvGoto("push")
    /\ UNCHANGED <<sendQueue, exitWg, closedEvents>>

\* Mutant: the nil that ends RunSend is forgotten.
BugRecvPush ==
    /\ recv = "push"
    /\ RecvGoto("event")
    /\ UNCHANGED <<closeInt, sendQueue, exitWg, closedEvents>>

\* a.sendQueue <- nil
RecvPush ==
    /\ recv = "push" /\ Len(sendQueue) < Cap
    /\ sendQueue' = Append(sendQueue, Nil)
    /\ RecvGoto("event")
    /\ UNCHANGED <<closeInt, exitWg, closedEvents>>

\* ProcEvent(SessionClosed)
RecvEvent ==
    /\ recv = "event"
    /\ closedEvents' = closedEvents + 1
    /\ RecvGoto("done")
    /\ UNCHANGED <<closeInt, sendQueue, exitWg>>

RecvDone ==
    /\ recv = "done"
    /\ exitWg' = exitWg - 1
    /\ RecvGoto("exited")
    /\ UNCHANGED <<closeInt, sendQueue, closedEvents>>

\* Decoding panicked, or the inline callback of a message or of SessionClosed:
\* the deferred recover ends the goroutine, and exitWg.Done is never reached.
RecvPanic ==
    /\ Panics /\ recv \in {"read", "event"}
    /\ RecvGoto("dead")
    /\ UNCHANGED <<closeInt, sendQueue, exitWg, closedEvents>>

-----------------------------------------------------------------------------
(* RunSend.                                                                 *)

SendGoto(pc) ==
    /\ send' = pc
    /\ UNCHANGED <<closeInt, chan, start, starts, registered, recv, closer,
                   callers, close, closedEvents>>

\* The next element of the queue; nil ends the loop.
RangeNext ==
    /\ send = "range" /\ sendQueue # << >>
    /\ sendQueue' = Tail(sendQueue)
    /\ SendGoto(IF Head(sendQueue) = Nil THEN "close" ELSE "write")
    /\ UNCHANGED <<conn, exitWg>>

\* SendMsg returned nil: written, or too big and dropped, which takes no look
\* at the connection.
WriteReturns ==
    /\ send = "write"
    /\ SendGoto("range")
    /\ UNCHANGED <<sendQueue, conn, exitWg>>

\* Mutant: exitWg.Done is also called where the loop is left.
BugWriteErr ==
    /\ send = "write"
    /\ exitWg' = exitWg - 1
    /\ SendGoto("close")
    /\ UNCHANGED <<sendQueue, conn>>

\* SendMsg failed and ends the loop.
WriteErr ==
    /\ send = "write"
    /\ SendGoto("close")
    /\ UNCHANGED <<sendQueue, conn, exitWg>>

\* Mutant: RunSend ends without closing the connection.
BugSendClose ==
    /\ send = "close"
    /\ SendGoto("done")
    /\ UNCHANGED <<sendQueue, conn, exitWg>>

\* RunSend closes the connection it finds.
SendClose ==
    /\ send = "close"
    /\ conn' = Closed(conn)
    /\ SendGoto("done")
    /\ UNCHANGED <<sendQueue, exitWg>>

SendDone ==
    /\ send = "done"
    /\ exitWg' = exitWg - 1
    /\ SendGoto("exited")
    /\ UNCHANGED <<sendQueue, conn>>

\* Encoding panicked: recovered, without closing and without exitWg.Done.
SendPanic ==
    /\ Panics /\ send = "write"
    /\ SendGoto("dead")
    /\ UNCHANGED <<sendQueue, conn, exitWg>>

-----------------------------------------------------------------------------
(* The goroutine Start leaves behind.                                       *)

\* exitWg.Wait returned: close(a.sendQueue) makes blocked senders panic.
CloseQueue ==
    /\ closer = "wait" /\ exitWg = 0
    /\ chan' = "closed" /\ closer' = "remove"
    /\ caller' = [s \in Senders |->
                    IF caller[s] = "blocked" THEN "panicked" ELSE caller[s]]
    /\ UNCHANGED <<closeInt, sendQueue, owned, exitWg, registered, recv, send,
                   sent, close, closedEvents>>

\* SessionManager.Remove
RemoveSession ==
    /\ closer = "remove"
    /\ registered' = FALSE /\ closer' = "callback"
    /\ UNCHANGED <<closeInt, queued, owned, exitWg, recv, send, callers, close,
                   closedEvents>>

\* endCallback, which tells a connector that the session is over.
EndCallback ==
    /\ closer = "callback"
    /\ closer' = "exited"
    /\ UNCHANGED <<closeInt, queued, owned, exitWg, registered, recv, send,
                   callers, close, closedEvents>>

-----------------------------------------------------------------------------
SendStep(s) ==
    \/ SendCheck(s) \/ SendLen(s) \/ SendPush(s) \/ SendUnblock(s)
    \/ Recovered(s) \/ HeartBeat(s) \/ HeartTick(s)
CloseStep(c) == CloseSwap(c) \/ CloseConn(c)
RunRecv == RecvMsg \/ RecvErr \/ RecvPush \/ RecvEvent \/ RecvDone \/ RecvPanic
RunSend == RangeNext \/ WriteReturns \/ WriteErr \/ SendClose \/ SendDone \/ SendPanic
Owner == SetConn \/ StartReset \/ StartSpawn \/ ClearConn

Next ==
    \/ Owner
    \/ \E s \in Senders : SendStep(s)
    \/ \E c \in Closers : CloseStep(c)
    \/ RunRecv
    \/ RunSend
    \/ CloseQueue \/ RemoveSession \/ EndCallback

\* The scheduler runs every goroutine that can run.  A read or a write is
\* only sure to return once the connection is closed.
Fairness ==
    /\ WF_vars(RecvErr /\ conn = "closed")
    /\ WF_vars(RecvPush) /\ WF_vars(RecvEvent) /\ WF_vars(RecvDone)
    /\ WF_vars(RangeNext) /\ WF_vars(WriteErr /\ conn = "closed")
    /\ WF_vars(SendClose) /\ WF_vars(SendDone)
    /\ WF_vars(CloseQueue) /\ WF_vars(RemoveSession) /\ WF_vars(EndCallback)
    /\ WF_vars(StartReset) /\ WF_vars(StartSpawn)
    /\ \A s \in Senders : WF_vars(SendLen(s) \/ SendPush(s) \/ SendUnblock(s))
    /\ \A c \in Closers : WF_vars(CloseConn(c))

\* With a write deadline (SetSocketDeadline) every write returns.
WriteDeadline == WF_vars(WriteReturns \/ WriteErr)

Spec == Init /\ [][Next]_vars
FairSpec == Spec /\ Fairness
DeadlineSpec == FairSpec /\ WriteDeadline

-----------------------------------------------------------------------------
(* Properties.                                                              *)

TypeOK ==
    /\ closeInt \in {0, 1}
    /\ sendQueue \in Seq(Senders \cup {Nil})
    /\ chan \in {"nil", "open", "closed"}
    /\ conn \in {"nil", "open", "closed"}
    /\ exitWg \in 0..2
    /\ registered \in BOOLEAN
    /\ start \in StartPC /\ starts \in Nat
    /\ recv \in RecvPC /\ send \in SendPC /\ closer \in CloserPC
    /\ caller \in [Senders -> CallerPC]
    /\ sent \in [Senders -> Nat]
    /\ close \in [Closers -> {"idle", "swapped"}]
    /\ closedEvents \in Nat

\* Neither a Send nor the nil of RunRecv ever waits for room in the send
\* queue, although the length is read before the push.  It is what keeps the
\* event loop running when the peer stops reading, and lets RunRecv finish
\* after RunSend has died.  It needs a channel with one place more than the
\* limit for every goroutine that sends.
NeverBlocks ==
    /\ \A s \in Senders : caller[s] # "blocked"
    /\ recv = "push" => Len(sendQueue) < Cap

\* The queue is closed only when the reader and the writer are through with
\* it: neither the nil of RunRecv nor the range of RunSend meets a closed
\* channel, and there is no second close.
ClosedWhenUnused ==
    chan = "closed" => recv = "exited" /\ send = "exited" /\ closer # "wait"

\* A session that left its manager has no open connection, and told the node
\* SessionClosed exactly once for every time it was started.
RemovedIsOver ==
    closer \in {"callback", "exited"} =>
        /\ ~registered
        /\ conn # "open" \/ start # "idle"
        /\ closedEvents = starts

\* Goroutines of the session never find a.conn nil, so ReadMsg does not spin
\* returning no message and no error, and the log lines that end RunRecv and
\* RunSend do not dereference nil.
ConnWhileRunning ==
    \/ recv \in {"read", "push", "event", "done"}
    \/ send \in {"range", "write", "close", "done"}
    => conn # "nil"

\* A panic has ended the reader or the writer before its exitWg.Done.
Dead == recv = "dead" \/ send = "dead"

\* RunRecv waits for ever to queue its nil: the channel is full, smaller than
\* the limit of Send as it is on a gate, and the writer has left it.
Stuck == recv = "push" /\ Len(sendQueue) >= Cap /\ send = "exited"

\* Once its connection is closed the session winds up completely: the queue
\* is closed, the manager forgets it and the end callback runs, unless a
\* goroutine of it has panicked or RunRecv is stuck.
ClosedConnEnds == conn = "closed" ~> closer = "exited" \/ Dead \/ Stuck

\* With a write deadline a read error alone, which closes no connection, is
\* enough to wind the session up, with the same exceptions.
ReadErrorEnds ==
    WriteDeadline => (recv = "push" ~> closer = "exited" \/ Dead \/ Stuck)

\* session.go:251-256: after a read error nothing can be sent any more; a
\* Send that passed its check before must not meet the closed channel.
NoSendAfterClose == \A s \in Senders : caller[s] # "panicked"
=============================================================================
