--------------------------- MODULE WebSocketProofs ---------------------------
(***************************************************************************)
(* Proofs about WebSocket for any number of callers, of connections and of *)
(* failed reads.  A read and a write report less here than module Session  *)
(* lets them, so that the session is not one of Session's; its inductive   *)
(* invariant is kept nevertheless.                                         *)
(***************************************************************************)
EXTENDS WebSocket, SessionProofs

-----------------------------------------------------------------------------
(* The inductive invariant.                                                 *)

\* Where connect has no session.
Between == {"off", "spawned", "dial", "after", "exit"}

WsLoopWithSession ==
    /\ loop \in Between =>
          start = "idle" /\ conn = "nil" /\ closer \in {"none", "exited"} /\ wg = 0
    /\ loop = "set" => start = "conn" /\ wg = 0
    /\ loop = "start" => start = "reset" /\ wg = 1
    /\ loop = "wait" =>
          /\ start = "idle" /\ conn # "nil" /\ closer # "none"
          /\ wg = Count(closer # "exited")

\* A reader that met a failure goes on reading or is dead, and the goroutine
\* that waits for it waits for ever.
Failing ==
    /\ failed \in 0..FailLimit
    /\ failed > 0 => loop = "wait" /\ closer = "wait" /\ recv \in {"read", "dead"}
    /\ recv = "read" => failed < FailLimit

\* The callers of Stop that have added to StopWg, which nobody answers.
Added == {t \in Stoppers : stop[t] \notin {"idle", "add"}}

WsLoopTypes ==
    /\ loop \in LoopPC
    /\ runState \in {0, 1} /\ CloseFlag \in BOOLEAN
    /\ stop \in [Stoppers -> StopPC]
    /\ StopWg = Cardinality(Added)

WsLoopInv == WsLoopTypes /\ WsLoopWithSession /\ Failing
WsInv == IInv /\ WsLoopInv

-----------------------------------------------------------------------------
(* The session keeps its invariant.                                         *)

\* The two steps Session does not have: a failed read that is not reported,
\* and a write on a closed connection that is taken for written.
LEMMA WsReadWriteIInv ==
    ASSUME IInv,
           \/ ReadFails
           \/ send = "write" /\ SendGoto("range") /\ UNCHANGED <<sendQueue, conn, exitWg>>
    PROVE IInv'
  <1> USE SessionAssumption DEF IInv, TypeOK, WgCounts, Stages, EventsOwed, Count, StartPC, RecvPC, SendPC, CloserPC, CallerPC, owned, queued, routines, callers
  <1>1. CASE ReadFails
    <2>1. recv = "read" /\ recv' \in {"read", "dead"}
      BY <1>1 DEF ReadFails, RecvGoto
    <2> QED BY <1>1, <2>1 DEF ReadFails, RecvGoto
  <1>2. CASE send = "write" /\ SendGoto("range") /\ UNCHANGED <<sendQueue, conn, exitWg>>
    BY <1>2 DEF SendGoto
  <1> QED BY <1>1, <1>2

\* All steps of the websocket connector keep the invariant of its session.
LEMMA WsNextIInv == ASSUME IInv, [WsNext]_wsvars PROVE IInv'
  <1>1. CASE WsConnectorStart \/ ConnectBegin \/ DialFail \/ ConnectAfter \/ ConnectEnd
    BY <1>1, NextIInv DEF WsConnectorStart, ConnectBegin, DialFail, ConnectAfter, ConnectEnd
  <1>2. CASE DialOk \/ ConnectStart \/ ConnectWait
    BY <1>2, OwnerIInv DEF DialOk, ConnectStart, WsSessionStart, ConnectWait, Owner
  <1>3. CASE SessionOver
    BY <1>3, NextIInv DEF SessionOver, Next
  <1>4. ASSUME NEW t \in Stoppers, WsStop(t) PROVE IInv'
    <2>1. t \in Closers
      BY WebSocketAssumption
    <2>2. CASE StopBegin(t) \/ StopAdd(t) \/ StopFlag(t)
      BY <2>2, NextIInv DEF StopBegin, StopAdd, StopFlag
    <2>3. CASE StopClose(t)
      BY <2>1, <2>3, CloseIInv DEF StopClose, CloseStep
    <2> QED BY <1>4, <2>2, <2>3 DEF WsStop
  <1>5. CASE WsRunRecv
    BY <1>5, RecvIInv, WsReadWriteIInv DEF WsRunRecv, ReadMessage, ReadBad, ReadShort, EventPanics, RunRecv
  <1>6. CASE WsRunSend
    BY <1>6, RunSendIInv, WsReadWriteIInv DEF WsRunSend, WsWrite, RunSend
  <1>7. CASE WsEnd
    BY <1>7, NextIInv DEF WsEnd, Next
  <1>8. ASSUME NEW s \in Senders, WsSend(s) PROVE IInv'
    BY <1>8, SendIInv DEF WsSend, SendStep
  <1>9. ASSUME NEW c \in Closers \ Stoppers, WsClose(c) PROVE IInv'
    BY <1>9, CloseIInv DEF WsClose, CloseStep
  <1>10. CASE UNCHANGED wsvars
    BY <1>10, NextIInv DEF wsvars
  <1> QED
    BY <1>1, <1>2, <1>3, <1>4, <1>5, <1>6, <1>7, <1>8, <1>9, <1>10 DEF WsNext, WsConnect

-----------------------------------------------------------------------------
(* The connector keeps its own.                                             *)

\* Added is a finite set of callers.
LEMMA AddedCard ==
    /\ IsFiniteSet(Added) /\ Cardinality(Added) \in Nat
    /\ Cardinality(Stoppers) \in Nat /\ Cardinality(Added) <= Cardinality(Stoppers)
  <1>1. Added \subseteq Stoppers
    BY DEF Added
  <1> QED BY <1>1, WebSocketAssumption, FS_Subset, FS_CardinalityType

\* Initially nothing runs.
LEMMA WsInitInv == WsInit => WsInv
  <1> SUFFICES ASSUME WsInit PROVE WsInv
    OBVIOUS
  <1>1. IInv
    BY InitIInv DEF WsInit
  <1>2. CloseFlag \in BOOLEAN
    BY Zenon DEF WsInit
  <1>3. Added = {}
    BY DEF WsInit, Added
  <1>4. WsLoopTypes
    BY <1>2, <1>3, FS_EmptySet DEF WsInit, WsLoopTypes, LoopPC, StopPC
  <1>5. WsLoopWithSession /\ Failing
    BY WebSocketAssumption DEF WsInit, Init, WsLoopWithSession, Failing, Between
  <1> QED BY <1>1, <1>4, <1>5 DEF WsInv, WsLoopInv

\* Start and the connect goroutine.
LEMMA WsConnectInv ==
    ASSUME WsInv, IInv', WsConnectorStart \/ WsConnect PROVE WsLoopInv'
  <1> USE DEF WsInv, WsLoopInv
  <1>1. UNCHANGED <<CloseFlag, StopWg, stop>>
    BY DEF WsConnectorStart, WsConnect, ConnectBegin, DialFail, DialOk, ConnectStart, ConnectWait,
           ConnectAfter, ConnectEnd, LoopGoto
  <1>2. WsLoopTypes'
    <2>1. Added' = Added
      BY <1>1 DEF Added
    <2>2. loop' \in LoopPC /\ runState' \in {0, 1}
      BY DEF WsLoopTypes, LoopPC, WsConnectorStart, WsConnect, ConnectBegin, DialFail, DialOk,
             ConnectStart, ConnectWait, ConnectAfter, ConnectEnd, LoopGoto
    <2> QED BY <1>1, <2>1, <2>2 DEF WsLoopTypes
  <1>3. WsLoopWithSession'
    BY DEF WsLoopWithSession, WsLoopTypes, LoopPC, Between, IInv, TypeOK, Stages, StartPC, CloserPC, Count,
           WsConnectorStart, WsConnect, ConnectBegin, DialFail, DialOk, ConnectStart, ConnectWait,
           ConnectAfter, ConnectEnd, LoopGoto, WsSessionStart, SetConn, StartReset, StartSpawn,
           ClearConn, vars, owned, routines
  <1>4. Failing'
    BY WebSocketAssumption
       DEF Failing, WsLoopWithSession, WsLoopTypes, LoopPC, Between, IInv, Stages, Count,
           WsConnectorStart, WsConnect, ConnectBegin, DialFail, DialOk, ConnectStart, ConnectWait,
           ConnectAfter, ConnectEnd, LoopGoto, WsSessionStart, SetConn, StartReset, StartSpawn,
           ClearConn, vars, owned, routines
  <1> QED BY <1>2, <1>3, <1>4

\* Stop.
LEMMA WsStopInv == ASSUME WsInv, NEW t \in Stoppers, WsStop(t) PROVE WsLoopInv'
  <1> USE DEF WsInv, WsLoopInv
  <1>1. UNCHANGED <<loop, runState, wg, failed, start, closer, recv>>
    BY DEF WsStop, StopBegin, StopAdd, StopClose, StopFlag, StopGoto, CloseSwap, CloseConn,
           vars, owned, routines
  <1>2. conn' = conn \/ conn' = Closed(conn)
    BY DEF WsStop, StopBegin, StopAdd, StopClose, StopFlag, CloseSwap, CloseConn, vars, owned
  <1>3. CloseFlag' \in BOOLEAN
    <2>1. CloseFlag' = TRUE \/ CloseFlag' = CloseFlag
      BY Zenon DEF WsStop, StopBegin, StopAdd, StopClose, StopFlag
    <2> QED BY Zenon, <2>1 DEF WsLoopTypes
  <1>4. stop' \in [Stoppers -> StopPC]
    BY DEF WsLoopTypes, WsStop, StopBegin, StopAdd, StopClose, StopFlag, StopGoto, StopPC
  <1>5. StopWg' = Cardinality(Added')
    <2>1. CASE StopAdd(t)
      <3>1. t \notin Added /\ Added' = Added \cup {t}
        BY <2>1 DEF Added, StopAdd, StopGoto, WsLoopTypes
      <3> QED BY <2>1, <3>1, AddedCard, FS_AddElement DEF StopAdd, WsLoopTypes
    <2>2. CASE StopBegin(t) \/ StopClose(t) \/ StopFlag(t)
      <3>1. Added' = Added
        BY <2>2 DEF Added, StopBegin, StopClose, StopFlag, StopGoto, WsLoopTypes
      <3> QED BY <2>2, <3>1 DEF StopBegin, StopClose, StopFlag, WsLoopTypes
    <2> QED BY <2>1, <2>2 DEF WsStop
  <1>6. WsLoopTypes'
    BY <1>1, <1>3, <1>4, <1>5 DEF WsLoopTypes
  <1>7. WsLoopWithSession' /\ Failing'
    BY <1>1, <1>2 DEF WsLoopWithSession, Failing, Closed
  <1> QED BY <1>6, <1>7

\* What the other steps leave alone.
LEMMA WsFrame ==
    ASSUME \/ WsRunRecv \/ WsRunSend \/ WsEnd \/ SessionOver \/ UNCHANGED wsvars
           \/ \E s \in Senders : WsSend(s)
           \/ \E c \in Closers \ Stoppers : WsClose(c)
    PROVE /\ UNCHANGED <<loop, flags, stop, start>>
          /\ conn' = conn \/ conn' = Closed(conn)
  BY DEF WsRunRecv, WsRunSend, WsEnd, SessionOver, WsSend, WsClose, ReadFails, ReadMessage, ReadBad,
         ReadShort, EventPanics, WsWrite, EndCallback, SendCheck, SendLen, SendPush, SendUnblock, Recovered, Goto,
         CloseSwap, CloseConn, RecvMsg, RecvErr, RecvPush, RecvEvent, RecvDone, RecvPanic, RecvGoto,
         RangeNext, WriteErr, SendClose, SendDone, SendPanic, SendGoto, CloseQueue, RemoveSession,
         wvars, wsvars, vars, owned

\* The goroutines of the session and its other callers.
LEMMA WsSessionInv ==
    ASSUME WsInv, IInv',
           \/ WsRunRecv \/ WsRunSend \/ WsEnd \/ SessionOver \/ UNCHANGED wsvars
           \/ \E s \in Senders : WsSend(s)
           \/ \E c \in Closers \ Stoppers : WsClose(c)
    PROVE WsLoopInv'
  <1> USE DEF WsInv, WsLoopInv
  <1>1. UNCHANGED <<loop, flags, stop, start>> /\ (conn' = conn \/ conn' = Closed(conn))
    BY WsFrame
  <1>2. \/ closer' = closer /\ wg' = wg
        \/ closer = "wait" /\ exitWg = 0 /\ closer' = "remove" /\ wg' = wg
        \/ closer = "remove" /\ closer' = "callback" /\ wg' = wg
        \/ closer = "callback" /\ closer' = "exited" /\ wg' = wg - 1
    BY DEF WsRunRecv, WsRunSend, WsEnd, SessionOver, WsSend, WsClose, ReadFails, ReadMessage, ReadBad,
         ReadShort, EventPanics, WsWrite, EndCallback, SendCheck, SendLen, SendPush, SendUnblock, Recovered, Goto,
         CloseSwap, CloseConn, RecvMsg, RecvErr, RecvPush, RecvEvent, RecvDone, RecvPanic, RecvGoto,
         RangeNext, WriteErr, SendClose, SendDone, SendPanic, SendGoto, CloseQueue, RemoveSession,
         wvars, wsvars, vars, routines
  <1>3. \/ recv' = recv /\ failed' = failed
        \/ recv = "read" /\ failed' = failed + 1
           /\ recv' = IF failed' >= FailLimit THEN "dead" ELSE "read"
        \/ recv = "read" /\ failed = 0 /\ failed' = 0
        \/ recv \in {"push", "event", "done"} /\ failed' = failed
           /\ recv' \in {"event", "done", "exited", "dead"}
    BY DEF WsRunRecv, WsRunSend, WsEnd, SessionOver, WsSend, WsClose, ReadFails, ReadMessage, ReadBad,
         ReadShort, EventPanics, WsWrite, EndCallback, SendCheck, SendLen, SendPush, SendUnblock, Recovered, Goto,
         CloseSwap, CloseConn, RecvMsg, RecvErr, RecvPush, RecvEvent, RecvDone, RecvPanic, RecvGoto,
         RangeNext, WriteErr, SendClose, SendDone, SendPanic, SendGoto, CloseQueue, RemoveSession,
         wvars, wsvars, vars, routines
  <1>4. WsLoopTypes'
    <2>1. Added' = Added
      BY <1>1 DEF Added
    <2> QED BY <1>1, <2>1 DEF WsLoopTypes, flags
  <1>5. WsLoopWithSession'
    BY <1>1, <1>2 DEF WsLoopWithSession, Closed, Count, IInv, Stages
  <1>6. Failing'
    BY <1>1, <1>2, <1>3, WebSocketAssumption
       DEF Failing, WsLoopWithSession, WsLoopTypes, LoopPC, Between, IInv, TypeOK, WgCounts, Stages,
           Count, RecvPC, SendPC, CloserPC
  <1> QED BY <1>4, <1>5, <1>6

\* The websocket connector and its session stay in step.
THEOREM AlwaysWsInv == WsSpec => []WsInv
  <1>1. WsInv /\ [WsNext]_wsvars => WsInv'
    <2> SUFFICES ASSUME WsInv, [WsNext]_wsvars PROVE WsInv'
      OBVIOUS
    <2>1. IInv'
      BY WsNextIInv DEF WsInv
    <2>2. WsLoopInv'
      BY <2>1, WsConnectInv, WsStopInv, WsSessionInv DEF WsNext
    <2> QED BY <2>1, <2>2 DEF WsInv
  <1> QED BY <1>1, WsInitInv, PTL DEF WsSpec

-----------------------------------------------------------------------------
(* What follows.                                                            *)

\* wsConnector.connect never takes the connection from a running session, nor
\* dials while one runs, for any number of connections and callers.
THEOREM WebSocketOwnerReady == WsSpec => []WsOwnerReady
  <1>1. WsInv => WsOwnerReady
    <2> SUFFICES ASSUME WsInv PROVE WsOwnerReady
      OBVIOUS
    <2>1. StopWg \in 0..Cardinality(Stoppers)
      BY AddedCard DEF WsInv, WsLoopInv, WsLoopTypes
    <2>2. wg \in {0, 1}
      BY DEF WsInv, WsLoopInv, WsLoopTypes, LoopPC, WsLoopWithSession, Between, Count
    <2>3. WsTypeOK
      BY <2>1, <2>2 DEF WsInv, WsLoopInv, WsLoopTypes, Failing, IInv, WsTypeOK
    <2>4. wg = 0 \/ conn # "nil"
      BY DEF WsInv, WsLoopInv, WsLoopTypes, LoopPC, WsLoopWithSession, Between, IInv, Stages
    <2>5. loop \in {"dial", "after"} =>
            recv \in {"none", "exited"} /\ send \in {"none", "exited"} /\ wg = 0
      BY DEF WsInv, WsLoopInv, WsLoopWithSession, Between, IInv, Stages
    <2> QED BY <2>3, <2>4, <2>5 DEF WsOwnerReady
  <1> QED BY <1>1, AlwaysWsInv, PTL

\* WSMessageProcessor.OnRecvMsg reports no failed read, so that a wsSession
\* whose connection is lost stays registered and connect waits for it, whatever
\* the limit after which the library panics.
THEOREM WebSocketNeverNoticed == WsSpec => []NeverNoticed
  <1>1. WsInv => NeverNoticed
    BY DEF WsInv, WsLoopInv, Failing, WsLoopWithSession, IInv, Stages, Count, NeverNoticed
  <1> QED BY <1>1, AlwaysWsInv, PTL
=============================================================================
