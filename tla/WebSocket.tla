------------------------------ MODULE WebSocket ------------------------------
(***************************************************************************)
(* wsConnector and its wsSession (src/socket/websocket), read and written  *)
(* by WSMessageProcessor (src/socket/procrpc.go).  The session has the     *)
(* goroutines and steps of module Session; what differs is what a read and *)
(* a write report, and the order of the steps of Stop.                     *)
(*                                                                         *)
(* gorilla/websocket is external.  A connection that failed once fails     *)
(* every later read, and the read number FailLimit (1000) panics.  The     *)
(* HeartBeat of a wsSession does nothing.                                  *)
(***************************************************************************)
EXTENDS Session, Integers

CONSTANTS
    Stoppers,    \* goroutines that call Stop
    Reconnect,   \* reconnectTime # 0
    IsClient,    \* the node's name is "wsclient"
    FailLimit    \* failed reads after which the library panics

ASSUME WebSocketAssumption ==
    /\ Stoppers \subseteq Closers /\ IsFiniteSet(Stoppers)
    /\ Reconnect \in BOOLEAN /\ IsClient \in BOOLEAN
    /\ FailLimit \in Nat \ {0}
    /\ IsConnector /\ HeartBeats = {}

VARIABLES
    loop,       \* where the connect goroutine is
    runState, CloseFlag, StopWg,  \* NetRuntimeTag
    wg,         \* counter of wsConnector.wg
    stop,       \* where each caller of Stop is
    failed      \* reads of the present connection that failed

flags == <<runState, CloseFlag, StopWg>>
wvars == <<loop, flags, wg, stop, failed>>
wsvars == <<vars, wvars>>

LoopPC == {"off", "spawned", "dial", "set", "start", "wait", "after", "exit"}
StopPC == {"idle", "add", "close", "closing", "flag", "wait"}

WsInit ==
    /\ Init
    /\ loop = "off"
    /\ runState = 0 /\ CloseFlag = FALSE /\ StopWg = 0
    /\ wg = 0
    /\ stop = [t \in Stoppers |-> "idle"]
    /\ failed = 0

-----------------------------------------------------------------------------
(* Start and connect.                                                       *)

LoopGoto(pc) == loop' = pc /\ UNCHANGED <<CloseFlag, StopWg, stop>>

\* Start waits for a Stop, and launches connect once.
WsConnectorStart ==
    /\ loop = "off" /\ starts = 0 /\ StopWg = 0 /\ runState = 0
    /\ LoopGoto("spawned") /\ UNCHANGED <<vars, runState, wg, failed>>

ConnectBegin ==
    /\ loop = "spawned"
    /\ runState' = 1
    /\ LoopGoto("dial") /\ UNCHANGED <<vars, wg, failed>>

\* Dial failed: give up without reconnect time or when stopped.
DialFail ==
    /\ loop = "dial"
    /\ LoopGoto(IF ~Reconnect \/ CloseFlag THEN "exit" ELSE "dial")
    /\ UNCHANGED <<vars, runState, wg, failed>>

\* Dial returned a connection: setConn, without a look at CloseFlag.
DialOk ==
    /\ loop = "dial"
    /\ SetConn
    /\ failed' = 0
    /\ LoopGoto("set") /\ UNCHANGED <<runState, wg>>

\* wsSession.Start, in the two steps of the tcpSession.
WsSessionStart == StartReset \/ StartSpawn

\* wg.Add(1) and sess.Start, then SessionConnected.
ConnectStart ==
    /\ WsSessionStart
    /\ \/ loop = "set" /\ wg' = wg + 1 /\ LoopGoto("start")
       \/ loop = "start" /\ LoopGoto("wait") /\ UNCHANGED wg
    /\ UNCHANGED <<runState, failed>>

\* Mutant: wg.Wait() is forgotten.
BugConnectWait ==
    /\ loop = "wait"
    /\ conn' = "nil"
    /\ LoopGoto("after")
    /\ UNCHANGED <<closeInt, queued, start, starts, exitWg, registered,
                   routines, callers, close, closedEvents, runState, wg, failed>>

\* wg.Wait() returned: setConn(nil).
ConnectWait ==
    /\ loop = "wait" /\ wg = 0
    /\ ClearConn
    /\ LoopGoto("after") /\ UNCHANGED <<runState, wg, failed>>

ConnectAfter ==
    /\ loop = "after"
    /\ LoopGoto(IF ~Reconnect \/ CloseFlag THEN "exit" ELSE "dial")
    /\ UNCHANGED <<vars, runState, wg, failed>>

\* The end of connect; the Done that would answer Stop is commented out.
ConnectEnd ==
    /\ loop = "exit"
    /\ runState' = 0
    /\ LoopGoto("off") /\ UNCHANGED <<vars, wg, failed>>

\* The session's end callback.
SessionOver ==
    /\ EndCallback
    /\ wg' = wg - 1
    /\ UNCHANGED <<loop, flags, stop, failed>>

-----------------------------------------------------------------------------
(* Stop.                                                                    *)

StopGoto(t, pc) ==
    /\ stop' = [stop EXCEPT ![t] = pc]
    /\ UNCHANGED <<loop, runState, wg, failed>>

StopBegin(t) ==
    /\ stop[t] = "idle" /\ runState = 1
    /\ StopGoto(t, "add") /\ UNCHANGED <<vars, CloseFlag, StopWg>>

StopAdd(t) ==
    /\ stop[t] = "add"
    /\ StopWg' = StopWg + 1
    /\ StopGoto(t, "close") /\ UNCHANGED <<vars, CloseFlag>>

\* c.sess.Close(), in its two steps.
StopClose(t) ==
    \/ /\ stop[t] = "close" /\ CloseSwap(t)
       /\ StopGoto(t, IF closeInt = 0 THEN "closing" ELSE "flag")
       /\ UNCHANGED <<CloseFlag, StopWg>>
    \/ /\ stop[t] = "closing" /\ CloseConn(t)
       /\ StopGoto(t, "flag") /\ UNCHANGED <<CloseFlag, StopWg>>

\* StopWg.Wait() comes next; nothing calls Done, so no step leads out of it.
StopFlag(t) ==
    /\ stop[t] = "flag"
    /\ CloseFlag' = TRUE
    /\ StopGoto(t, "wait") /\ UNCHANGED <<vars, StopWg>>

-----------------------------------------------------------------------------
(* The session's reads and writes.                                          *)

\* Mutant: the library is not asked when the session knows it is closed.
BugReadFails ==
    /\ recv = "read"
    /\ failed' = IF closeInt = 1 THEN failed ELSE failed + 1
    /\ RecvGoto(IF failed' >= FailLimit THEN "dead" ELSE "read")
    /\ UNCHANGED <<closeInt, sendQueue, exitWg, closedEvents, loop, flags, wg, stop>>

\* ReadMessage failed, as it does from then on.  OnRecvMsg reports no message
\* and no error: RunRecv posts an event without a message and reads again,
\* until the library panics.
ReadFails ==
    /\ recv = "read"
    /\ failed' = failed + 1
    /\ RecvGoto(IF failed' >= FailLimit THEN "dead" ELSE "read")
    /\ UNCHANGED <<closeInt, sendQueue, exitWg, closedEvents, loop, flags, wg, stop>>

\* A message arrives, or one that is not binary and is treated like none.
ReadMessage == failed = 0 /\ RecvMsg /\ UNCHANGED wvars

\* A message cannot be decrypted or decoded, the one error RunRecv is told.
ReadBad == failed = 0 /\ RecvErr /\ UNCHANGED wvars

\* A binary message shorter than its header makes the slicing panic.
ReadShort == failed = 0 /\ recv = "read" /\ RecvPanic /\ UNCHANGED wvars

\* A callback of SessionClosed panics.
EventPanics == recv = "event" /\ RecvPanic /\ UNCHANGED wvars

\* OnSendMsg: only a node named "wsclient" writes, and an error of the write
\* is dropped; only what cannot be encoded or encrypted is an error.
WsWrite ==
    /\ \/ send = "write" /\ SendGoto("range") /\ UNCHANGED <<sendQueue, conn, exitWg>>
       \/ IsClient /\ WriteErr
    /\ UNCHANGED wvars

-----------------------------------------------------------------------------
WsConnect ==
    \/ ConnectBegin \/ DialFail \/ DialOk \/ ConnectStart \/ ConnectWait
    \/ ConnectAfter \/ ConnectEnd
WsStop(t) == StopBegin(t) \/ StopAdd(t) \/ StopClose(t) \/ StopFlag(t)

WsRunRecv ==
    \/ ReadFails \/ ReadMessage \/ ReadBad \/ ReadShort \/ EventPanics
    \/ (RecvPush \/ RecvEvent \/ RecvDone) /\ UNCHANGED wvars
WsRunSend ==
    \/ WsWrite
    \/ (RangeNext \/ SendClose \/ SendDone \/ (IsClient /\ SendPanic)) /\ UNCHANGED wvars
WsSend(s) ==
    /\ SendCheck(s) \/ SendLen(s) \/ SendPush(s) \/ SendUnblock(s) \/ Recovered(s)
    /\ UNCHANGED wvars
WsClose(c) == (CloseSwap(c) \/ CloseConn(c)) /\ UNCHANGED wvars
WsEnd == (CloseQueue \/ RemoveSession) /\ UNCHANGED wvars

WsNext ==
    \/ WsConnectorStart \/ WsConnect \/ SessionOver
    \/ \E t \in Stoppers : WsStop(t)
    \/ WsRunRecv \/ WsRunSend \/ WsEnd
    \/ \E s \in Senders : WsSend(s)
    \/ \E c \in Closers \ Stoppers : WsClose(c)

\* Every goroutine that can run is run, Dial returns, and a read returns on
\* a connection that is closed or has failed.
WsFairness ==
    /\ WF_wsvars(WsConnect) /\ WF_wsvars(SessionOver) /\ WF_wsvars(WsEnd)
    /\ \A t \in Stoppers : WF_wsvars(WsStop(t) /\ stop[t] # "idle")
    /\ WF_wsvars(ReadFails /\ (conn = "closed" \/ failed > 0))
    /\ WF_wsvars(WsRunRecv /\ recv # "read")
    /\ WF_wsvars(WsRunSend)

WsSpec == WsInit /\ [][WsNext]_wsvars /\ WsFairness

-----------------------------------------------------------------------------
(* Properties.                                                              *)

WsTypeOK ==
    /\ TypeOK
    /\ loop \in LoopPC
    /\ runState \in {0, 1} /\ CloseFlag \in BOOLEAN
    /\ StopWg \in 0..Cardinality(Stoppers)
    /\ wg \in {0, 1}
    /\ stop \in [Stoppers -> StopPC]
    /\ failed \in 0..FailLimit

\* connect takes the connection away or dials again only when the session is
\* completely over; a reader that found no connection would report neither
\* message nor error and turn for ever, without the library to end it.
WsOwnerReady ==
    /\ WsTypeOK
    /\ wg = 0 \/ conn # "nil"
    /\ loop \in {"dial", "after"} =>
         recv \in {"none", "exited"} /\ send \in {"none", "exited"} /\ wg = 0

\* A reader whose connection is lost stops turning, after FailLimit events
\* without a message, because the library panics.
SpinEnds == failed > 0 \/ (recv = "read" /\ conn = "closed") ~> recv # "read"

\* A session whose reader met the failure is never closed nor removed and
\* keeps its place in wg: from then on connect waits and never dials again.
NeverNoticed ==
    failed > 0 => /\ wg = 1 /\ loop = "wait"
                  /\ registered /\ chan = "open" /\ closer = "wait"
=============================================================================
