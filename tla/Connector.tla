------------------------------ MODULE Connector ------------------------------
(***************************************************************************)
(* tcpConnector (src/socket/tcp/connector.go) and the session it owns: the *)
(* connect goroutine that dials, starts the session, waits for its end and *)
(* dials again, and the goroutines that Stop the connector.  All steps of  *)
(* the session are those of module Session; the steps Session leaves to    *)
(* its owner are taken here, in the order connect takes them.              *)
(*                                                                         *)
(* The wait between two dials is not modelled: time passes between any two *)
(* steps.  connNum only feeds log lines and is left out.                   *)
(*                                                                         *)
(* A connector is started again only after its connect goroutine is gone.  *)
(* Two calls of Start in a row, before the first goroutine has marked the  *)
(* connector as running, would run two of them on one session; DiscoveryS- *)
(* ervice creates a connector per node and has it started once.            *)
(***************************************************************************)
EXTENDS Session, Integers

CONSTANTS
    Stoppers,     \* goroutines that call Stop
    Reconnect,    \* reconnectTime # 0
    MaxLaunches   \* bound: calls of Start of the connector

ASSUME ConnectorAssumption ==
    /\ Stoppers \subseteq Closers /\ IsFiniteSet(Stoppers)
    /\ Reconnect \in BOOLEAN
    /\ MaxLaunches \in Nat
    /\ IsConnector

VARIABLES
    loop,            \* where the connect goroutine is
    launches,        \* calls of Start so far
    runState,        \* NetRuntimeTag.runState
    CloseFlag,       \* NetRuntimeTag.CloseFlag
    StopWg,          \* counter of NetRuntimeTag.StopWg
    wg,              \* counter of tcpConnector.wg
    stop,            \* where each caller of Stop is
    connectedEvents  \* SessionConnected events posted so far

flags == <<runState, CloseFlag, StopWg>>
cvars == <<loop, launches, flags, wg, stop, connectedEvents>>
allvars == <<vars, cvars>>

LoopPC == {"off", "spawned", "dial", "check", "set", "start", "connected",
           "wait", "after", "exit", "flagged"}
StopPC == {"idle", "flag", "add", "close", "closing", "wait", "waited",
           "skipped"}

ConnectorInit ==
    /\ Init
    /\ loop = "off" /\ launches = 0
    /\ runState = 0 /\ CloseFlag = FALSE /\ StopWg = 0
    /\ wg = 0
    /\ stop = [t \in Stoppers |-> "idle"]
    /\ connectedEvents = 0

-----------------------------------------------------------------------------
(* Start and the connect goroutine.                                         *)

LoopGoto(pc) == loop' = pc /\ UNCHANGED <<launches, stop>>

\* Start waits for a Stop under way and launches connect.
Launch ==
    /\ launches < MaxLaunches /\ loop = "off"
    /\ StopWg = 0 /\ runState = 0
    /\ loop' = "spawned" /\ launches' = launches + 1
    /\ UNCHANGED <<vars, flags, wg, stop, connectedEvents>>

LoopBegin ==
    /\ loop = "spawned"
    /\ runState' = 1
    /\ LoopGoto("dial")
    /\ UNCHANGED <<vars, CloseFlag, StopWg, wg, connectedEvents>>

\* net.Dial failed: give up without reconnect time or when stopped (the
\* SessionConnectError event is posted), else dial again later.
DialFail ==
    /\ loop = "dial"
    /\ LoopGoto(IF ~Reconnect \/ CloseFlag THEN "exit" ELSE "dial")
    /\ UNCHANGED <<vars, flags, wg, connectedEvents>>

DialOk ==
    /\ loop = "dial" /\ starts < MaxStarts
    /\ LoopGoto("check")
    /\ UNCHANGED <<vars, flags, wg, connectedEvents>>

\* A connector stopped while it dialled drops the new connection.
CheckFlag ==
    /\ loop = "check"
    /\ IF CloseFlag THEN LoopGoto("exit") /\ UNCHANGED wg
                    ELSE LoopGoto("set") /\ wg' = wg + 1
    /\ UNCHANGED <<vars, flags, connectedEvents>>

\* c.sess.setConn(conn)
LoopSetConn ==
    /\ loop = "set"
    /\ SetConn
    /\ LoopGoto("start")
    /\ UNCHANGED <<flags, wg, connectedEvents>>

\* c.sess.Start()
LoopStartReset ==
    /\ loop = "start"
    /\ StartReset
    /\ UNCHANGED cvars

LoopStartSpawn ==
    /\ loop = "start"
    /\ StartSpawn
    /\ LoopGoto("connected")
    /\ UNCHANGED <<flags, wg, connectedEvents>>

\* ProcEvent(SessionConnected): the session's goroutines already run.
PostConnected ==
    /\ loop = "connected"
    /\ connectedEvents' = connectedEvents + 1
    /\ LoopGoto("wait")
    /\ UNCHANGED <<vars, flags, wg>>

\* Mutant: c.wg.Wait() is forgotten, the next dial does not wait.
BugWaitSession ==
    /\ loop = "wait"
    /\ LoopGoto("after")
    /\ UNCHANGED <<vars, flags, wg, connectedEvents>>

\* c.wg.Wait() returned; c.sess.setConn(nil).
WaitSession ==
    /\ loop = "wait" /\ wg = 0
    /\ ClearConn
    /\ LoopGoto("after")
    /\ UNCHANGED <<flags, wg, connectedEvents>>

\* Whether to dial again.
AfterSession ==
    /\ loop = "after"
    /\ LoopGoto(IF ~Reconnect \/ CloseFlag THEN "exit" ELSE "dial")
    /\ UNCHANGED <<vars, flags, wg, connectedEvents>>

LoopExit ==
    /\ loop = "exit"
    /\ runState' = 0
    /\ LoopGoto("flagged")
    /\ UNCHANGED <<vars, CloseFlag, StopWg, wg, connectedEvents>>

\* Mutant: StopWg.Done() is left out, as in the websocket connector.
BugLoopDone ==
    /\ loop = "flagged"
    /\ LoopGoto("off")
    /\ UNCHANGED <<vars, flags, wg, connectedEvents>>

\* StopWg.Done() answers a Stop; below zero it panics.
LoopDone ==
    /\ loop = "flagged"
    /\ StopWg' = IF CloseFlag THEN StopWg - 1 ELSE StopWg
    /\ LoopGoto("off")
    /\ UNCHANGED <<vars, runState, CloseFlag, wg, connectedEvents>>

\* The session's end callback: node.wg.Done().
SessionOver ==
    /\ EndCallback
    /\ wg' = wg - 1
    /\ UNCHANGED <<loop, launches, flags, stop, connectedEvents>>

-----------------------------------------------------------------------------
(* Stop.                                                                    *)

StopGoto(t, pc) ==
    /\ stop' = [stop EXCEPT ![t] = pc]
    /\ UNCHANGED <<loop, launches, runState, wg, connectedEvents>>

\* Stop returns at once when the connector is not marked as running.
StopBegin(t) ==
    /\ stop[t] = "idle" /\ launches > 0
    /\ StopGoto(t, IF runState = 0 THEN "skipped" ELSE "flag")
    /\ UNCHANGED <<vars, CloseFlag, StopWg>>

StopFlag(t) ==
    /\ stop[t] = "flag"
    /\ CloseFlag' = TRUE
    /\ StopGoto(t, "add") /\ UNCHANGED <<vars, StopWg>>

StopAdd(t) ==
    /\ stop[t] = "add"
    /\ StopWg' = StopWg + 1
    /\ StopGoto(t, "close") /\ UNCHANGED <<vars, CloseFlag>>

\* c.sess.Close(), in its two steps.
StopClose(t) ==
    /\ stop[t] = "close"
    /\ CloseSwap(t)
    /\ StopGoto(t, IF closeInt = 0 THEN "closing" ELSE "wait")
    /\ UNCHANGED <<CloseFlag, StopWg>>

StopCloseConn(t) ==
    /\ stop[t] = "closing"
    /\ CloseConn(t)
    /\ StopGoto(t, "wait") /\ UNCHANGED <<CloseFlag, StopWg>>

\* Mutant: Stop does not wait for the connect goroutine.
BugStopReturn(t) ==
    /\ stop[t] = "wait"
    /\ StopGoto(t, "waited") /\ UNCHANGED <<vars, CloseFlag, StopWg>>

StopReturn(t) ==
    /\ stop[t] = "wait" /\ StopWg = 0
    /\ StopGoto(t, "waited") /\ UNCHANGED <<vars, CloseFlag, StopWg>>

-----------------------------------------------------------------------------
\* The connect goroutine, one step at a time.
Connect ==
    \/ LoopBegin \/ DialFail \/ DialOk \/ CheckFlag \/ LoopSetConn
    \/ LoopStartReset \/ LoopStartSpawn \/ PostConnected \/ WaitSession
    \/ AfterSession \/ LoopExit \/ LoopDone

Stop(t) ==
    \/ StopBegin(t) \/ StopFlag(t) \/ StopAdd(t) \/ StopClose(t)
    \/ StopCloseConn(t) \/ StopReturn(t)

\* Steps of the session in which the connector has no part.
SessionStep ==
    /\ \/ \E s \in Senders : SendStep(s)
       \/ \E c \in Closers \ Stoppers : CloseStep(c)
       \/ RunRecv
       \/ RunSend
       \/ CloseQueue \/ RemoveSession
    /\ UNCHANGED cvars

\* A negative WaitGroup panics in a goroutine nobody recovers: the process
\* is gone.
Crashed == StopWg < 0

ConnectorNext ==
    /\ ~Crashed
    /\ \/ Launch
       \/ Connect
       \/ SessionOver
       \/ \E t \in Stoppers : Stop(t)
       \/ SessionStep

\* Every goroutine that can run is run, net.Dial returns, writes have a
\* deadline, and no peer keeps a connection for ever.
PeersLeave ==
    /\ WF_allvars(Connect) /\ WF_allvars(SessionOver)
    /\ \A t \in Stoppers : WF_allvars(Stop(t) /\ stop[t] # "idle")
    /\ WF_allvars((RecvErr \/ RecvPush \/ RecvEvent \/ RecvDone) /\ SessionStep)
    /\ WF_allvars(RunSend /\ SessionStep)
    /\ WF_allvars((CloseQueue \/ RemoveSession) /\ SessionStep)

ConnectorSpec == ConnectorInit /\ [][ConnectorNext]_allvars
LeavingSpec == ConnectorSpec /\ PeersLeave

-----------------------------------------------------------------------------
(* Properties.                                                              *)

ConnectorTypeOK ==
    /\ TypeOK
    /\ loop \in LoopPC
    /\ launches \in 0..MaxLaunches
    /\ runState \in {0, 1}
    /\ CloseFlag \in BOOLEAN
    /\ StopWg \in -1..Cardinality(Stoppers)
    /\ wg \in {0, 1}
    /\ stop \in [Stoppers -> StopPC]
    /\ connectedEvents \in Nat

\* connect gives the session a connection only when the previous incarnation
\* is completely over, its queue closed and its three goroutines gone.  This
\* is what Session assumes of its owner.
OwnerReady ==
    loop \in {"dial", "check", "set"} =>
        /\ start = "idle" /\ conn = "nil"
        /\ closer \in {"none", "exited"}
        /\ recv \in {"none", "exited"} /\ send \in {"none", "exited"}

\* SessionConnected and SessionClosed may overtake each other within one
\* connection, but both have been posted before the connector dials again.
EventsPaired ==
    /\ ConnectorTypeOK
    /\ loop \in {"dial", "check", "set"} =>
          connectedEvents = starts /\ closedEvents = starts

\* A Stop that waited leaves a connector with no connect goroutine, no
\* registered session and no connection.
WaitedStopIsOver ==
    /\ launches = 1
    /\ \E t \in Stoppers : stop[t] = "waited"
    => /\ loop = "off" /\ runState = 0
       /\ ~registered /\ conn = "nil"

\* With reconnection, Stop returns once it has raised the flag, because the
\* connection it closed or that replaced it ends sooner or later.  Meanwhile
\* the process may have crashed or a goroutine of the session panicked.
StopReturns ==
    \A t \in Stoppers :
        Reconnect /\ stop[t] = "add" ~> stop[t] = "waited" \/ Crashed \/ Dead

\* connector.go:97: StopWg.Done is there to answer a call of Stop.
DoneAnswersStop == ~Crashed
=============================================================================
