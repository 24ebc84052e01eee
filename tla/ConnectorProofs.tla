--------------------------- MODULE ConnectorProofs ---------------------------
(***************************************************************************)
(* Proofs about Connector for any number of callers of Send, Close and     *)
(* Stop, of connections and of calls of Start.  Every step of the          *)
(* connector is a step of its session or leaves it alone, so that all that *)
(* SessionProofs shows of a session holds of this one; what is new is how  *)
(* the position of the connect goroutine goes with that of the session.    *)
(***************************************************************************)
EXTENDS Connector, SessionProofs

-----------------------------------------------------------------------------
(* The session in the connector.                                            *)

\* What connect, Stop and the session's own goroutines do to the session are
\* steps that module Session allows.
LEMMA ConnectorStepIsSessionStep == ConnectorNext => [Next]_vars
  <1> SUFFICES ASSUME ConnectorNext PROVE [Next]_vars
    OBVIOUS
  <1>1. CASE Launch
    BY <1>1 DEF Launch
  <1>2. CASE LoopBegin \/ DialFail \/ DialOk \/ CheckFlag \/ PostConnected
             \/ AfterSession \/ LoopExit \/ LoopDone
    BY <1>2 DEF LoopBegin, DialFail, DialOk, CheckFlag, PostConnected,
                AfterSession, LoopExit, LoopDone
  <1>3. CASE LoopSetConn \/ LoopStartReset \/ LoopStartSpawn \/ WaitSession
    BY <1>3 DEF LoopSetConn, LoopStartReset, LoopStartSpawn, WaitSession, Owner, Next
  <1>4. CASE SessionOver
    BY <1>4 DEF SessionOver, Next
  <1>5. ASSUME NEW t \in Stoppers, Stop(t) PROVE [Next]_vars
    <2>1. t \in Closers
      BY ConnectorAssumption
    <2>2. CASE StopBegin(t) \/ StopFlag(t) \/ StopAdd(t) \/ StopReturn(t)
      BY <2>2 DEF StopBegin, StopFlag, StopAdd, StopReturn
    <2>3. CASE StopClose(t) \/ StopCloseConn(t)
      BY <2>1, <2>3 DEF StopClose, StopCloseConn, CloseStep, Next
    <2> QED BY <1>5, <2>2, <2>3 DEF Stop
  <1>6. CASE SessionStep
    BY <1>6 DEF SessionStep, Next
  <1> QED BY <1>1, <1>2, <1>3, <1>4, <1>5, <1>6 DEF ConnectorNext, Connect

\* The session of a connector is a session in the sense of module Session:
\* the connector keeps to what Session assumes of its owner.
THEOREM ConnectorImplementsSession == ConnectorSpec => Spec
  <1>1. ConnectorInit => Init
    BY DEF ConnectorInit
  <1>2. [ConnectorNext]_allvars => [Next]_vars
    <2>1. CASE UNCHANGED allvars
      BY <2>1 DEF allvars
    <2> QED BY <2>1, ConnectorStepIsSessionStep
  <1> QED BY <1>1, <1>2, PTL DEF ConnectorSpec, Spec

\* So no Send of a connector's session and no nil of its reader ever wait,
\* if its channel has a place for every sender beyond the limit.
THEOREM ConnectorNeverBlocks == QueueFits => (ConnectorSpec => []NeverBlocks)
  BY ConnectorImplementsSession, SessionNeverBlocks, PTL

-----------------------------------------------------------------------------
(* The connect goroutine and its session.                                   *)

\* Where connect has no session: its last incarnation, if any, is over and
\* both events of it have been posted.
Between == {"off", "spawned", "dial", "check", "set", "after", "exit", "flagged"}

LoopWithSession ==
    /\ loop \in Between =>
          /\ start = "idle" /\ conn = "nil" /\ closer \in {"none", "exited"}
          /\ connectedEvents = starts
    /\ loop = "start" =>
          /\ start \in {"conn", "reset"} /\ connectedEvents = starts
    /\ loop = "connected" =>
          start = "idle" /\ connectedEvents + 1 = starts /\ closer # "none"
    /\ loop = "wait" =>
          start = "idle" /\ connectedEvents = starts /\ closer # "none"

\* wg is up from the moment the session is about to be started until its end
\* callback; the connector is marked as running while connect dials or has a
\* session.
LoopFlags ==
    /\ wg = IF loop \in {"connected", "wait"} THEN Count(closer # "exited")
            ELSE Count(loop \in {"set", "start"})
    /\ runState = Count(loop \notin {"off", "spawned", "flagged"})

\* The callers of Stop that have added to StopWg.
Added == {t \in Stoppers : stop[t] \in {"close", "closing", "wait", "waited"}}

\* In the first run of connect nothing was taken from StopWg yet, so that no
\* caller of Stop is through before the goroutine is.
StopCounts ==
    /\ StopWg <= Cardinality(Added)
    /\ launches = 0 => loop = "off" /\ StopWg = 0 /\ \A t \in Stoppers : stop[t] = "idle"
    /\ launches = 1 /\ loop # "off" => StopWg = Cardinality(Added)
    /\ launches = 1 /\ (\E t \in Stoppers : stop[t] = "waited") => loop = "off"

LoopTypes ==
    /\ loop \in LoopPC
    /\ launches \in 0..MaxLaunches
    /\ CloseFlag \in BOOLEAN
    /\ StopWg \in Int /\ StopWg >= -1
    /\ stop \in [Stoppers -> StopPC]
    /\ connectedEvents \in Nat

LoopInv == LoopTypes /\ LoopWithSession /\ LoopFlags /\ StopCounts
ConnectorInv == IInv /\ LoopInv

-----------------------------------------------------------------------------
(* The invariant is inductive.                                              *)

\* Added is a finite set of callers.
LEMMA AddedCard ==
    /\ IsFiniteSet(Added) /\ Cardinality(Added) \in Nat
    /\ Cardinality(Stoppers) \in Nat /\ Cardinality(Added) <= Cardinality(Stoppers)
  <1>1. Added \subseteq Stoppers
    BY DEF Added
  <1> QED BY <1>1, ConnectorAssumption, FS_Subset, FS_CardinalityType

\* Initially nobody has called anything.
LEMMA InitLoopInv == ConnectorInit => LoopInv
  <1> SUFFICES ASSUME ConnectorInit PROVE LoopInv
    OBVIOUS
  <1>1. LoopTypes
    <2>1. CloseFlag \in BOOLEAN
      BY Zenon DEF ConnectorInit
    <2> QED BY <2>1, ConnectorAssumption DEF ConnectorInit, LoopTypes, LoopPC, StopPC
  <1>2. LoopWithSession
    BY DEF ConnectorInit, Init, LoopWithSession
  <1>3. LoopFlags
    BY DEF ConnectorInit, LoopFlags, Count
  <1>4. StopCounts
    BY AddedCard DEF ConnectorInit, StopCounts
  <1> QED BY <1>1, <1>2, <1>3, <1>4 DEF LoopInv

\* Launch and the steps of the connect goroutine.
LEMMA ConnectLoopInv ==
    ASSUME ConnectorInv, ~Crashed, Launch \/ Connect PROVE LoopInv'
  <1> USE DEF ConnectorInv, LoopInv
  <1>1. LoopTypes'
    BY ConnectorAssumption
       DEF LoopTypes, Launch, Connect, LoopBegin, DialFail, DialOk, CheckFlag, LoopSetConn,
           LoopStartReset, LoopStartSpawn, PostConnected, WaitSession, AfterSession, LoopExit,
           LoopDone, LoopGoto, flags, cvars, LoopPC, Crashed
  <1>2. LoopWithSession'
    BY DEF LoopWithSession, Between, IInv, TypeOK, Stages, StartPC, CloserPC, LoopTypes, LoopPC,
           Launch, Connect, LoopBegin, DialFail, DialOk, CheckFlag, LoopSetConn,
           LoopStartReset, LoopStartSpawn, PostConnected, WaitSession, AfterSession, LoopExit,
           LoopDone, LoopGoto, flags, cvars, vars, owned, routines,
           SetConn, StartReset, StartSpawn, ClearConn
  <1>3. LoopFlags'
    BY DEF LoopFlags, LoopWithSession, Between, Count, IInv, TypeOK, CloserPC, LoopTypes, LoopPC,
           Launch, Connect, LoopBegin, DialFail, DialOk, CheckFlag, LoopSetConn,
           LoopStartReset, LoopStartSpawn, PostConnected, WaitSession, AfterSession, LoopExit,
           LoopDone, LoopGoto, flags, cvars, vars, owned, routines,
           SetConn, StartReset, StartSpawn, ClearConn
  <1>4. StopCounts'
    <2>1. stop' = stop
      BY DEF Launch, Connect, LoopBegin, DialFail, DialOk, CheckFlag, LoopSetConn,
           LoopStartReset, LoopStartSpawn, PostConnected, WaitSession, AfterSession, LoopExit,
           LoopDone, LoopGoto, flags, cvars
    <2>2. Added' = Added
      BY <2>1 DEF Added
    <2>3. CASE Launch
      <3>1. launches = 0 => Added = {}
        BY DEF StopCounts, Added
      <3>2. launches = 0 => Cardinality(Added) = 0
        BY <3>1, FS_EmptySet
      <3> QED BY <2>1, <2>2, <2>3, <3>2, AddedCard DEF Launch, StopCounts, LoopTypes, flags
    <2>4. CASE Connect /\ ~LoopDone
      <3>1. StopWg' = StopWg /\ launches' = launches /\ loop # "off" /\ loop' # "off"
        BY <2>4 DEF Connect, LoopBegin, DialFail, DialOk, CheckFlag, LoopSetConn,
           LoopStartReset, LoopStartSpawn, PostConnected, WaitSession, AfterSession, LoopExit,
           LoopGoto, flags, cvars
      <3> QED BY <2>1, <2>2, <3>1 DEF StopCounts
    <2>5. CASE LoopDone
      BY <2>1, <2>2, <2>5, AddedCard DEF LoopDone, LoopGoto, StopCounts, LoopTypes
    <2> QED BY <2>3, <2>4, <2>5
  <1> QED BY <1>1, <1>2, <1>3, <1>4

\* The steps of a Stop.
LEMMA StopLoopInv ==
    ASSUME ConnectorInv, ~Crashed, NEW t \in Stoppers, Stop(t) PROVE LoopInv'
  <1> USE DEF ConnectorInv, LoopInv
  <1>1. LoopTypes'
    <2>1. CloseFlag' \in BOOLEAN
      <3>1. CloseFlag' = TRUE \/ CloseFlag' = CloseFlag
        BY Zenon DEF Stop, StopBegin, StopFlag, StopAdd, StopClose, StopCloseConn, StopReturn
      <3> QED BY Zenon, <3>1 DEF LoopTypes
    <2>2. stop' \in [Stoppers -> StopPC]
      BY DEF LoopTypes, Stop, StopBegin, StopFlag, StopAdd, StopClose, StopCloseConn, StopReturn,
             StopGoto, StopPC
    <2> QED BY <2>1, <2>2
       DEF LoopTypes, Stop, StopBegin, StopFlag, StopAdd, StopClose, StopCloseConn, StopReturn,
           StopGoto
  <1>2. UNCHANGED <<loop, launches, runState, wg, connectedEvents, start, starts, closer>>
    BY DEF Stop, StopBegin, StopFlag, StopAdd, StopClose, StopCloseConn, StopReturn, StopGoto,
           CloseSwap, CloseConn, vars, owned, routines
  <1>3. conn' = conn \/ conn' = Closed(conn)
    BY DEF Stop, StopBegin, StopFlag, StopAdd, StopClose, StopCloseConn, StopReturn,
           CloseSwap, CloseConn, vars, owned
  <1>4. LoopWithSession'
    BY <1>2, <1>3 DEF LoopWithSession, Closed
  <1>5. LoopFlags'
    BY <1>2 DEF LoopFlags
  <1>6. StopCounts'
    <2>1. launches # 0
      <3>1. CASE stop[t] = "idle"
        BY <3>1 DEF Stop, StopBegin, StopFlag, StopAdd, StopClose, StopCloseConn, StopReturn,
                    LoopTypes
      <3>2. CASE stop[t] # "idle"
        BY <3>2 DEF StopCounts
      <3> QED BY <3>1, <3>2
    <2>2. CASE StopAdd(t)
      <3>1. t \notin Added /\ Added' = Added \cup {t}
        BY <2>2 DEF Added, StopAdd, StopGoto, LoopTypes
      <3>2. Cardinality(Added') = Cardinality(Added) + 1
        BY <3>1, AddedCard, FS_AddElement
      <3>3. \A r \in Stoppers : stop'[r] = "waited" => stop[r] = "waited"
        BY <2>2 DEF StopAdd, StopGoto, LoopTypes
      <3>4. StopWg' = StopWg + 1
        BY <2>2 DEF StopAdd
      <3> QED BY <1>2, <2>1, <3>2, <3>3, <3>4, AddedCard DEF StopCounts, LoopTypes
    <2>3. CASE StopBegin(t) \/ StopFlag(t) \/ StopClose(t) \/ StopCloseConn(t)
      <3>1. Added' = Added
        BY <2>3 DEF Added, StopBegin, StopFlag, StopClose, StopCloseConn, StopGoto, LoopTypes
      <3>2. \A r \in Stoppers : stop'[r] = "waited" => stop[r] = "waited"
        BY <2>3 DEF StopBegin, StopFlag, StopClose, StopCloseConn, StopGoto, LoopTypes
      <3>3. StopWg' = StopWg
        BY <2>3 DEF StopBegin, StopFlag, StopClose, StopCloseConn
      <3> QED BY <1>2, <2>1, <3>1, <3>2, <3>3 DEF StopCounts
    <2>4. CASE StopReturn(t)
      <3>1. t \in Added /\ Added' = Added
        BY <2>4 DEF Added, StopReturn, StopGoto, LoopTypes
      <3>2. StopWg = 0 /\ StopWg' = 0
        BY <2>4 DEF StopReturn
      <3>3. Cardinality(Added) # 0
        BY <3>1, AddedCard, FS_EmptySet
      <3>4. launches = 1 => loop = "off"
        BY <3>2, <3>3 DEF StopCounts
      <3> QED BY <1>2, <2>1, <3>1, <3>2, <3>4, AddedCard DEF StopCounts
    <2> QED BY <2>2, <2>3, <2>4 DEF Stop
  <1> QED BY <1>1, <1>4, <1>5, <1>6

\* The steps of the session's goroutines and of its other callers.
LEMMA SessionLoopInv ==
    ASSUME ConnectorInv, SessionOver \/ SessionStep \/ UNCHANGED allvars PROVE LoopInv'
  <1> USE DEF ConnectorInv, LoopInv
  <1>1. UNCHANGED <<loop, launches, flags, stop, connectedEvents>>
    BY DEF SessionOver, SessionStep, cvars, allvars
  <1>2. UNCHANGED <<start, starts>>
    BY DEF SessionOver, SessionStep, allvars, vars, owned, EndCallback, SendStep, CloseStep, RunRecv,
           RunSend, SendCheck, SendLen, SendPush, SendUnblock, Recovered, HeartBeat, HeartTick,
           Goto, CloseSwap, CloseConn, RecvMsg, RecvErr, RecvPush, RecvEvent, RecvDone, RecvPanic,
           RecvGoto, RangeNext, WriteReturns, WriteErr, SendClose, SendDone, SendPanic, SendGoto,
           CloseQueue, RemoveSession
  <1>3. conn' = conn \/ conn' = Closed(conn)
    BY DEF SessionOver, SessionStep, allvars, vars, owned, EndCallback, SendStep, CloseStep, RunRecv,
           RunSend, SendCheck, SendLen, SendPush, SendUnblock, Recovered, HeartBeat, HeartTick,
           Goto, CloseSwap, CloseConn, RecvMsg, RecvErr, RecvPush, RecvEvent, RecvDone, RecvPanic,
           RecvGoto, RangeNext, WriteReturns, WriteErr, SendClose, SendDone, SendPanic, SendGoto,
           CloseQueue, RemoveSession
  <1>4. \/ closer' = closer /\ wg' = wg
        \/ closer = "wait" /\ closer' = "remove" /\ wg' = wg
        \/ closer = "remove" /\ closer' = "callback" /\ wg' = wg
        \/ closer = "callback" /\ closer' = "exited" /\ wg' = wg - 1
    BY DEF SessionOver, SessionStep, allvars, vars, cvars, routines, EndCallback, SendStep, CloseStep,
           RunRecv, RunSend, SendCheck, SendLen, SendPush, SendUnblock, Recovered, HeartBeat,
           HeartTick, Goto, CloseSwap, CloseConn, RecvMsg, RecvErr, RecvPush, RecvEvent, RecvDone,
           RecvPanic, RecvGoto, RangeNext, WriteReturns, WriteErr, SendClose, SendDone, SendPanic,
           SendGoto, CloseQueue, RemoveSession
  <1>5. LoopTypes'
    BY <1>1 DEF LoopTypes, flags
  <1>6. LoopWithSession'
    BY <1>1, <1>2, <1>3, <1>4 DEF LoopWithSession, Closed
  <1>7. LoopFlags'
    BY <1>1, <1>4 DEF LoopFlags, LoopWithSession, Between, Count, LoopTypes, LoopPC, flags,
                      IInv, Stages
  <1>8. StopCounts'
    <2>1. Added' = Added
      BY <1>1 DEF Added
    <2> QED BY <1>1, <2>1 DEF StopCounts, flags
  <1> QED BY <1>5, <1>6, <1>7, <1>8

\* Whatever the interleaving of connect, Stop and the session, connect and its
\* session stay in step.
THEOREM AlwaysConnectorInv == ConnectorSpec => []ConnectorInv
  <1>1. ConnectorInit => ConnectorInv
    BY InitIInv, InitLoopInv DEF ConnectorInit, ConnectorInv
  <1>2. ConnectorInv /\ [ConnectorNext]_allvars => ConnectorInv'
    <2> SUFFICES ASSUME ConnectorInv, [ConnectorNext]_allvars PROVE ConnectorInv'
      OBVIOUS
    <2>1. IInv'
      <3>1. CASE UNCHANGED allvars
        BY <3>1, NextIInv DEF allvars, ConnectorInv
      <3> QED BY <3>1, NextIInv, ConnectorStepIsSessionStep DEF ConnectorInv
    <2>2. LoopInv'
      BY ConnectLoopInv, StopLoopInv, SessionLoopInv DEF ConnectorNext
    <2> QED BY <2>1, <2>2 DEF ConnectorInv
  <1> QED BY <1>1, <1>2, PTL DEF ConnectorSpec

-----------------------------------------------------------------------------
(* What follows.                                                            *)

\* tcpConnector.connect stores a new connection in its session only after the
\* previous incarnation is over, for any number of reconnects and of Stops.
THEOREM ConnectorOwnerReady == ConnectorSpec => []OwnerReady
  <1>1. ConnectorInv => OwnerReady
    BY DEF ConnectorInv, LoopInv, LoopWithSession, Between, IInv, Stages, OwnerReady
  <1> QED BY <1>1, AlwaysConnectorInv, PTL

\* When connect dials again, SessionConnected and SessionClosed have been
\* posted for every connection before; wg never leaves 0 and 1, and StopWg is
\* never more than the callers of Stop and never below -1, where it panics.
THEOREM ConnectorEventsPaired == ConnectorSpec => []EventsPaired
  <1>1. ConnectorInv => EventsPaired
    <2> SUFFICES ASSUME ConnectorInv PROVE EventsPaired
      OBVIOUS
    <2>1. StopWg \in -1..Cardinality(Stoppers)
      BY AddedCard DEF ConnectorInv, LoopInv, LoopTypes, StopCounts
    <2>2. wg \in {0, 1} /\ runState \in {0, 1}
      BY DEF ConnectorInv, LoopInv, LoopFlags, Count
    <2>3. ConnectorTypeOK
      BY <2>1, <2>2 DEF ConnectorInv, LoopInv, LoopTypes, IInv, ConnectorTypeOK
    <2>4. loop \in {"dial", "check", "set"} =>
            connectedEvents = starts /\ closedEvents = starts
      BY DEF ConnectorInv, LoopInv, LoopWithSession, Between, IInv, TypeOK, Stages, EventsOwed, Count
    <2> QED BY <2>3, <2>4 DEF EventsPaired
  <1> QED BY <1>1, AlwaysConnectorInv, PTL

\* A tcpConnector.Stop that waited on StopWg returns after connect has ended
\* and the session is removed, if the connector was started once.
THEOREM ConnectorWaitedStopIsOver == ConnectorSpec => []WaitedStopIsOver
  <1>1. ConnectorInv => WaitedStopIsOver
    BY DEF ConnectorInv, LoopInv, LoopWithSession, LoopFlags, StopCounts, Between, Count,
           IInv, Stages, WaitedStopIsOver
  <1> QED BY <1>1, AlwaysConnectorInv, PTL
=============================================================================
