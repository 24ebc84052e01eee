---------------------------- MODULE SessionProofs ----------------------------
(***************************************************************************)
(* Proofs about Session for any number of senders, any sizes of the queue  *)
(* and any number of restarts.                                             *)
(***************************************************************************)
EXTENDS Session, FiniteSetTheorems, TLAPS

-----------------------------------------------------------------------------
(* The inductive invariant.                                                 *)

Count(b) == IF b THEN 1 ELSE 0

\* exitWg counts the goroutines that have not called Done.
WgCounts ==
    exitWg = Count(recv \notin {"none", "exited"})
             + Count(send \notin {"none", "exited"})

\* The stages of an incarnation, as the closing goroutine goes through them.
Stages ==
    /\ closer = "none" => recv = "none" /\ send = "none" /\ chan = "nil"
    /\ closer = "wait" => recv # "none" /\ send # "none" /\ chan = "open"
    /\ closer \in {"remove", "callback", "exited"} =>
          recv = "exited" /\ send = "exited" /\ chan = "closed"
    /\ start # "idle" => closer \in {"none", "exited"} /\ conn # "nil"
    /\ closer = "wait" => conn # "nil"
    /\ registered <=> closer \in {"wait", "remove"}
    /\ start = "idle" /\ send \in {"done", "exited"} => conn # "open"

\* One SessionClosed is owed for every incarnation that has not posted it.
EventsOwed ==
    closedEvents + Count(recv \in {"read", "push", "event", "dead"}) = starts

IInv == TypeOK /\ WgCounts /\ Stages /\ EventsOwed

\* The senders that read the length and have not pushed yet.
Sized == {s \in Senders : caller[s] = "sized"}

\* Every sender past the length check has a place kept for it, and the nil
\* of RunRecv one more.
Reserved ==
    /\ Len(sendQueue) + Cardinality(Sized)
         <= (SendQueueMaxLen - 1) + Cardinality(Senders)
            + Count(recv \in {"event", "done", "exited", "dead"})
    /\ \A s \in Senders : caller[s] # "blocked"

\* The channel has a place for each sender besides those the limit allows:
\* true of a node other than "gate" with a single sending goroutine.
QueueFits == Cap >= SendQueueMaxLen + Cardinality(Senders)
-----------------------------------------------------------------------------
(* The life cycle.                                                          *)

\* The session starts in the inductive invariant: nothing runs and no event
\* is owed.
LEMMA InitIInv == Init => IInv
  <1> SUFFICES ASSUME Init PROVE IInv
    OBVIOUS
  <1>1. sendQueue \in Seq(Senders \cup {Nil})
    BY DEF Init
  <1>2. caller \in [Senders -> CallerPC]
    BY DEF Init, CallerPC
  <1>3. TypeOK
    <2>1. registered \in BOOLEAN
      BY Zenon DEF Init
    <2>2. sent \in [Senders -> Nat] /\ close \in [Closers -> {"idle", "swapped"}]
      BY DEF Init
    <2> QED
      BY <1>1, <1>2, <2>1, <2>2 DEF Init, TypeOK, StartPC, RecvPC, SendPC, CloserPC
  <1>4. WgCounts
    BY DEF Init, WgCounts, Count
  <1>5. Stages
    BY Zenon DEF Init, Stages
  <1>6. EventsOwed
    BY DEF Init, EventsOwed, Count
  <1> QED BY <1>3, <1>4, <1>5, <1>6 DEF IInv

\* The owner's steps around tcpSession.Start keep the inductive invariant.
LEMMA OwnerIInv == IInv /\ Owner => IInv'
  <1> SUFFICES ASSUME IInv, Owner PROVE IInv'
    OBVIOUS
  <1> USE SessionAssumption DEF IInv, TypeOK, WgCounts, Stages, EventsOwed, Count, StartPC, RecvPC, SendPC, CloserPC, CallerPC, owned, queued, routines, callers
  <1>1. CASE SetConn
    BY <1>1 DEF SetConn
  <1>2. CASE StartReset
    BY <1>2 DEF StartReset
  <1>3. CASE StartSpawn
    BY <1>3 DEF StartSpawn
  <1>4. CASE ClearConn
    BY <1>4 DEF ClearConn
  <1> QED BY <1>1, <1>2, <1>3, <1>4 DEF Owner

\* So do the steps of Send and HeartBeat, which touch the queue only.
LEMMA SendIInv == ASSUME NEW s \in Senders, IInv, SendStep(s) PROVE IInv'
  <1> USE SessionAssumption DEF IInv, TypeOK, WgCounts, Stages, EventsOwed, Count, StartPC, RecvPC, SendPC, CloserPC, CallerPC, owned, queued, routines, callers, Goto
  <1>1. CASE SendCheck(s)
    BY <1>1 DEF SendCheck
  <1>2. CASE SendLen(s)
    BY <1>2 DEF SendLen
  <1>3. CASE SendPush(s)
    <2>1. caller' \in [Senders -> CallerPC]
      BY <1>3 DEF SendPush
    <2>2. sendQueue' = Append(sendQueue, s) \/ sendQueue' = sendQueue
      BY <1>3 DEF SendPush
    <2>3. sendQueue' \in Seq(Senders \cup {Nil})
      BY <2>2
    <2> QED BY <1>3, <2>1, <2>3 DEF SendPush
  <1>4. CASE SendUnblock(s)
    BY <1>4 DEF SendUnblock
  <1>5. CASE Recovered(s)
    BY <1>5 DEF Recovered
  <1>6. CASE HeartBeat(s)
    BY <1>6 DEF HeartBeat
  <1>7. CASE HeartTick(s)
    BY <1>7 DEF HeartTick
  <1> QED BY <1>1, <1>2, <1>3, <1>4, <1>5, <1>6, <1>7 DEF SendStep

\* And Close, wherever it finds the connection.
LEMMA CloseIInv == ASSUME NEW c \in Closers, IInv, CloseStep(c) PROVE IInv'
  <1> USE SessionAssumption DEF IInv, TypeOK, WgCounts, Stages, EventsOwed, Count, StartPC, RecvPC, SendPC, CloserPC, CallerPC, owned, queued, routines, callers, Closed
  <1>1. CASE CloseSwap(c)
    BY <1>1 DEF CloseSwap
  <1>2. CASE CloseConn(c)
    BY <1>2 DEF CloseConn
  <1> QED BY <1>1, <1>2 DEF CloseStep

\* RunRecv calls Done once, after it posted SessionClosed.
LEMMA RecvIInv == IInv /\ RunRecv => IInv'
  <1> SUFFICES ASSUME IInv, RunRecv PROVE IInv'
    OBVIOUS
  <1> USE SessionAssumption DEF IInv, TypeOK, WgCounts, Stages, EventsOwed, Count, StartPC, RecvPC, SendPC, CloserPC, CallerPC, owned, queued, routines, callers, RecvGoto
  <1>1. CASE RecvMsg
    BY <1>1 DEF RecvMsg
  <1>2. CASE RecvErr
    BY <1>2 DEF RecvErr
  <1>3. CASE RecvPush
    BY <1>3 DEF RecvPush
  <1>4. CASE RecvEvent
    BY <1>4 DEF RecvEvent
  <1>5. CASE RecvDone
    BY <1>5 DEF RecvDone
  <1>6. CASE RecvPanic
    BY <1>6 DEF RecvPanic
  <1> QED BY <1>1, <1>2, <1>3, <1>4, <1>5, <1>6 DEF RunRecv

\* RunSend calls Done once, after it closed the connection.
LEMMA RunSendIInv == IInv /\ RunSend => IInv'
  <1> SUFFICES ASSUME IInv, RunSend PROVE IInv'
    OBVIOUS
  <1> USE SessionAssumption DEF IInv, TypeOK, WgCounts, Stages, EventsOwed, Count, StartPC, RecvPC, SendPC, CloserPC, CallerPC, owned, queued, routines, callers, SendGoto, Closed
  <1>1. CASE RangeNext
    BY <1>1 DEF RangeNext
  <1>2. CASE WriteReturns
    BY <1>2 DEF WriteReturns
  <1>3. CASE WriteErr
    BY <1>3 DEF WriteErr
  <1>4. CASE SendClose
    BY <1>4 DEF SendClose
  <1>5. CASE SendDone
    BY <1>5 DEF SendDone
  <1>6. CASE SendPanic
    BY <1>6 DEF SendPanic
  <1> QED BY <1>1, <1>2, <1>3, <1>4, <1>5, <1>6 DEF RunSend

\* Every step of the specification keeps the inductive invariant.
LEMMA NextIInv == IInv /\ [Next]_vars => IInv'
  <1> SUFFICES ASSUME IInv, [Next]_vars PROVE IInv'
    OBVIOUS
  <1>1. CASE Owner
    BY <1>1, OwnerIInv
  <1>2. ASSUME NEW s \in Senders, SendStep(s) PROVE IInv'
    BY <1>2, SendIInv
  <1>3. ASSUME NEW c \in Closers, CloseStep(c) PROVE IInv'
    BY <1>3, CloseIInv
  <1>4. CASE RunRecv
    BY <1>4, RecvIInv
  <1>5. CASE RunSend
    BY <1>5, RunSendIInv
  <1>6. CASE CloseQueue
    BY <1>6, SessionAssumption DEF CloseQueue, IInv, TypeOK, WgCounts, Stages, EventsOwed, Count, StartPC, RecvPC, SendPC, CloserPC, CallerPC, owned, queued, routines, callers
  <1>7. CASE RemoveSession
    BY <1>7 DEF RemoveSession, IInv, TypeOK, WgCounts, Stages, EventsOwed, Count, StartPC, RecvPC, SendPC, CloserPC, CallerPC, owned, queued, routines, callers
  <1>8. CASE EndCallback
    BY <1>8 DEF EndCallback, IInv, TypeOK, WgCounts, Stages, EventsOwed, Count, StartPC, RecvPC, SendPC, CloserPC, CallerPC, owned, queued, routines, callers
  <1>9. CASE UNCHANGED vars
    BY <1>9 DEF vars, IInv, TypeOK, WgCounts, Stages, EventsOwed, Count, StartPC, RecvPC, SendPC, CloserPC, CallerPC, owned, queued, routines, callers
  <1> QED
    BY <1>1, <1>2, <1>3, <1>4, <1>5, <1>6, <1>7, <1>8, <1>9 DEF Next

\* tcpSession.Start, Close, RunRecv, RunSend and the closing goroutine keep
\* the life cycle in order whatever the number of senders and restarts.
THEOREM AlwaysIInv == Spec => []IInv
  BY InitIInv, NextIInv, PTL DEF Spec

\* The state of a session always has its type; in particular exitWg never
\* becomes negative, which would panic in exitWg.Done.
THEOREM SessionTypes == Spec => []TypeOK
  <1>1. IInv => TypeOK
    BY DEF IInv
  <1> QED BY <1>1, AlwaysIInv, PTL

\* close(a.sendQueue) in Start's goroutine happens when RunRecv and RunSend
\* are over.
THEOREM SessionClosedWhenUnused == Spec => []ClosedWhenUnused
  <1>1. IInv => ClosedWhenUnused
    BY DEF IInv, TypeOK, Stages, CloserPC, ClosedWhenUnused
  <1> QED BY <1>1, AlwaysIInv, PTL

\* A session removed from its manager is over: connection closed and one
\* SessionClosed event for every start.
THEOREM SessionRemovedIsOver == Spec => []RemovedIsOver
  <1>1. IInv => RemovedIsOver
    BY DEF IInv, TypeOK, Stages, EventsOwed, Count, CloserPC, StartPC, RemovedIsOver
  <1> QED BY <1>1, AlwaysIInv, PTL

\* RunRecv and RunSend never run on a session whose connection was cleared.
THEOREM SessionConnWhileRunning == Spec => []ConnWhileRunning
  <1>1. IInv => ConnWhileRunning
    BY DEF IInv, TypeOK, Stages, CloserPC, ConnWhileRunning
  <1> QED BY <1>1, AlwaysIInv, PTL

-----------------------------------------------------------------------------
(* Room in the send queue.                                                  *)

\* Facts about the number of senders past the length check.
LEMMA SizedCard ==
    /\ Cardinality(Senders) \in Nat
    /\ IsFiniteSet(Sized) /\ Cardinality(Sized) \in Nat
    /\ Cardinality(Sized) <= Cardinality(Senders)
  <1>1. Sized \subseteq Senders
    BY DEF Sized
  <1> QED BY <1>1, SessionAssumption, FS_Subset, FS_CardinalityType

\* A sender that was not past the check and is now adds one.
LEMMA SizedGrows ==
    ASSUME TypeOK, NEW s \in Senders, caller[s] # "sized",
           caller' = [caller EXCEPT ![s] = "sized"]
    PROVE Cardinality(Sized') = Cardinality(Sized) + 1
  <1>1. s \notin Sized /\ Sized' = Sized \cup {s}
    BY DEF Sized, TypeOK
  <1> QED BY <1>1, SizedCard, FS_AddElement

\* One that was past it and is no longer frees one.
LEMMA SizedShrinks ==
    ASSUME TypeOK, NEW s \in Senders, caller[s] = "sized", NEW pc, pc # "sized",
           caller' = [caller EXCEPT ![s] = pc]
    PROVE Cardinality(Sized') = Cardinality(Sized) - 1
  <1>1. s \in Sized /\ Sized' = Sized \ {s}
    BY DEF Sized, TypeOK
  <1> QED BY <1>1, SizedCard, FS_RemoveElement

\* Other moves leave the count alone.
LEMMA SizedStays ==
    ASSUME TypeOK, NEW s \in Senders, caller[s] # "sized", NEW pc, pc # "sized",
           caller' = [caller EXCEPT ![s] = pc]
    PROVE Sized' = Sized
  BY DEF Sized, TypeOK

\* Initially the queue is empty and nobody is past the check.
LEMMA InitReserved == Init => Reserved
  <1> SUFFICES ASSUME Init PROVE Reserved
    OBVIOUS
  <1>1. Len(sendQueue) = 0 /\ recv = "none"
    BY DEF Init
  <1>2. \A s \in Senders : caller[s] # "blocked"
    BY DEF Init
  <1> QED BY <1>1, <1>2, SizedCard, SessionAssumption DEF Reserved, Count

\* While places are reserved a sender past the check finds room, and so does
\* the nil of RunRecv.
LEMMA ReservedRoom ==
    ASSUME QueueFits, TypeOK, Reserved
    PROVE /\ \A s \in Senders : caller[s] = "sized" => Len(sendQueue) < Cap
          /\ recv = "push" => Len(sendQueue) < Cap
  <1>0. Len(sendQueue) \in Nat /\ Cap \in Nat
    BY SessionAssumption DEF TypeOK, Cap
  <1>1. ASSUME NEW s \in Senders, caller[s] = "sized" PROVE Len(sendQueue) < Cap
    <2>1. s \in Sized
      BY <1>1 DEF Sized
    <2>2. Cardinality(Sized) # 0
      BY <2>1, SizedCard, FS_EmptySet
    <2> QED
      BY <1>0, <2>2, SizedCard, SessionAssumption DEF QueueFits, Reserved, Count
  <1>2. ASSUME recv = "push" PROVE Len(sendQueue) < Cap
    BY <1>0, <1>2, SizedCard, SessionAssumption DEF QueueFits, Reserved, Count
  <1> QED BY <1>1, <1>2

\* Send keeps the reservation: the length it compares leaves a place for each
\* of the other senders.
LEMMA SendReserved ==
    ASSUME QueueFits, IInv, Reserved, NEW s \in Senders, SendStep(s)
    PROVE Reserved'
  <1>1. TypeOK /\ TypeOK'
    BY SendIInv DEF IInv
  <1>2. recv' = recv
    BY DEF SendStep, SendCheck, SendLen, SendPush, SendUnblock, Recovered,
           HeartBeat, HeartTick, Goto, routines
  <1>3. Len(sendQueue) \in Nat /\ Len(sendQueue') \in Nat
    BY <1>1 DEF TypeOK
  <1>4. ASSUME NEW pc, pc \notin {"sized", "blocked"}, caller[s] # "sized",
               caller' = [caller EXCEPT ![s] = pc], sendQueue' = sendQueue
        PROVE Reserved'
    <2>1. Sized' = Sized
      BY <1>1, <1>4, SizedStays
    <2>2. \A r \in Senders : caller'[r] # "blocked"
      BY <1>1, <1>4 DEF Reserved, TypeOK
    <2> QED BY <1>2, <1>4, <2>1, <2>2 DEF Reserved
  <1>5. CASE SendLen(s) /\ Len(sendQueue) < SendQueueMaxLen
    <2>1. caller' = [caller EXCEPT ![s] = "sized"] /\ sendQueue' = sendQueue
      BY <1>5 DEF SendLen, Goto, queued
    <2>2. caller[s] = "checked"
      BY <1>5 DEF SendLen
    <2>3. \A r \in Senders : caller'[r] # "blocked"
      BY <1>1, <2>1 DEF Reserved, TypeOK
    <2>4. Cardinality(Sized') \in Nat /\ Cardinality(Sized') <= Cardinality(Senders)
      <3>1. Sized' \subseteq Senders
        BY DEF Sized
      <3> QED BY <3>1, SessionAssumption, FS_Subset, FS_CardinalityType
    <2>5. Count(recv' \in {"event", "done", "exited", "dead"}) \in Nat
      BY DEF Count
    <2> QED
      BY <1>3, <1>5, <2>1, <2>3, <2>4, <2>5, SizedCard, SessionAssumption DEF Reserved
  <1>6. CASE SendLen(s) /\ ~(Len(sendQueue) < SendQueueMaxLen)
    <2>1. PICK pc \in {"idle", "panicked"} : caller' = [caller EXCEPT ![s] = pc]
      <3>1. CASE conn = "nil"
        BY <1>3, <1>6, <3>1, SessionAssumption DEF SendLen, Goto
      <3>2. CASE conn # "nil"
        BY <1>3, <1>6, <3>2, SessionAssumption DEF SendLen, Goto
      <3> QED BY <3>1, <3>2
    <2> QED BY <1>4, <1>6, <2>1 DEF SendLen, queued
  <1>7. CASE SendPush(s) /\ chan = "open"
    <2>1. Len(sendQueue) < Cap
      BY <1>1, <1>7, ReservedRoom DEF SendPush
    <2>2. /\ caller[s] = "sized"
          /\ caller' = [caller EXCEPT ![s] = "idle"]
          /\ sendQueue' = Append(sendQueue, s)
      BY <1>3, <1>7, <2>1, SessionAssumption DEF SendPush, Goto, Cap
    <2>3. Len(sendQueue') = Len(sendQueue) + 1
      BY <1>1, <2>2 DEF TypeOK
    <2>4. Cardinality(Sized') = Cardinality(Sized) - 1
      BY <1>1, <2>2, SizedShrinks
    <2>5. \A r \in Senders : caller'[r] # "blocked"
      BY <1>1, <2>2 DEF Reserved, TypeOK
    <2>6. Len(sendQueue') + Cardinality(Sized') = Len(sendQueue) + Cardinality(Sized)
      BY <1>3, <2>3, <2>4, SizedCard
    <2> QED BY <1>2, <2>5, <2>6 DEF Reserved
  <1>8. CASE SendPush(s) /\ chan # "open"
    <2>1. PICK pc \in {"stuck", "panicked"} :
             caller' = [caller EXCEPT ![s] = pc] /\ sendQueue' = sendQueue
      BY <1>8 DEF SendPush, Goto
    <2>2. caller[s] = "sized"
      BY <1>8 DEF SendPush
    <2>3. Cardinality(Sized') = Cardinality(Sized) - 1
      BY <1>1, <2>1, <2>2, SizedShrinks
    <2>4. \A r \in Senders : caller'[r] # "blocked"
      BY <1>1, <2>1 DEF Reserved, TypeOK
    <2>5. Count(recv \in {"event", "done", "exited", "dead"}) \in Nat
      BY DEF Count
    <2> QED
      BY <1>2, <1>3, <2>1, <2>3, <2>4, <2>5, SizedCard, SessionAssumption DEF Reserved
  <1>9. CASE SendCheck(s)
    <2>1. PICK pc \in {"checked", "idle"} : caller' = [caller EXCEPT ![s] = pc]
      BY <1>9 DEF SendCheck, Goto
    <2> QED BY <1>4, <1>9, <2>1 DEF SendCheck, queued
  <1>10. CASE SendUnblock(s)
    BY <1>10 DEF SendUnblock, Reserved
  <1>11. CASE Recovered(s)
    BY <1>4, <1>11 DEF Recovered, Goto, queued
  <1>12. CASE HeartBeat(s)
    BY <1>4, <1>12 DEF HeartBeat, Goto, queued
  <1>13. CASE HeartTick(s)
    BY <1>4, <1>13 DEF HeartTick, Goto, queued
  <1> QED
    BY <1>5, <1>6, <1>7, <1>8, <1>9, <1>10, <1>11, <1>12, <1>13 DEF SendStep

\* Steps of others that leave the senders and the queue alone, or shorten it.
LEMMA OtherReserved ==
    ASSUME IInv, Reserved, IInv', caller' = caller,
           \/ sendQueue' = << >>
           \/ /\ Len(sendQueue') <= Len(sendQueue)
              /\ recv \in {"event", "done", "exited", "dead"}
                    => recv' \in {"event", "done", "exited", "dead"}
           \/ /\ Len(sendQueue') = Len(sendQueue) + 1
              /\ recv = "push" /\ recv' = "event"
    PROVE Reserved'
  <1>1. Sized' = Sized
    BY DEF Sized
  <1>2. Len(sendQueue) \in Nat /\ Len(sendQueue') \in Nat
    BY DEF IInv, TypeOK
  <1>3. \A r \in Senders : caller'[r] # "blocked"
    BY DEF Reserved
  <1>4. CASE sendQueue' = << >>
    <2>1. Len(sendQueue') = 0
      BY <1>4
    <2> QED BY <1>1, <1>3, <2>1, SizedCard, SessionAssumption DEF Reserved, Count
  <1>5. CASE /\ Len(sendQueue') <= Len(sendQueue)
             /\ recv \in {"event", "done", "exited", "dead"}
                   => recv' \in {"event", "done", "exited", "dead"}
    BY <1>1, <1>2, <1>3, <1>5, SizedCard, SessionAssumption DEF Reserved, Count
  <1>6. CASE /\ Len(sendQueue') = Len(sendQueue) + 1
             /\ recv = "push" /\ recv' = "event"
    BY <1>1, <1>2, <1>3, <1>6, SizedCard, SessionAssumption DEF Reserved, Count
  <1> QED BY <1>4, <1>5, <1>6

\* The other goroutines keep it as well: RunSend only takes from the queue and
\* RunRecv adds its one nil to the place kept for it.
LEMMA NextReserved ==
    ASSUME QueueFits, IInv, Reserved, [Next]_vars PROVE Reserved'
  <1>1. IInv'
    BY NextIInv
  <1>2. sendQueue \in Seq(Senders \cup {Nil}) /\ recv \in RecvPC
    BY DEF IInv, TypeOK
  <1>3. CASE Owner
    BY <1>1, <1>2, <1>3, OtherReserved
       DEF Owner, SetConn, StartReset, StartSpawn, ClearConn, queued, routines, callers
  <1>4. ASSUME NEW s \in Senders, SendStep(s) PROVE Reserved'
    BY <1>4, SendReserved
  <1>5. ASSUME NEW c \in Closers, CloseStep(c) PROVE Reserved'
    BY <1>1, <1>2, <1>5, OtherReserved
       DEF CloseStep, CloseSwap, CloseConn, queued, routines, callers
  <1>6. CASE RecvPush
    <2>1. Len(sendQueue') = Len(sendQueue) + 1
      BY <1>2, <1>6 DEF RecvPush
    <2> QED BY <1>1, <1>6, <2>1, OtherReserved DEF RecvPush, RecvGoto, callers
  <1>7. CASE RecvMsg \/ RecvErr \/ RecvEvent \/ RecvDone \/ RecvPanic
    BY <1>1, <1>2, <1>7, OtherReserved
       DEF RecvMsg, RecvErr, RecvEvent, RecvDone, RecvPanic, RecvGoto, callers
  <1>8. CASE RangeNext
    <2>1. Len(sendQueue') <= Len(sendQueue)
      BY <1>2, <1>8 DEF RangeNext
    <2> QED BY <1>1, <1>8, <2>1, OtherReserved DEF RangeNext, SendGoto, callers
  <1>9. CASE WriteReturns \/ WriteErr \/ SendClose \/ SendDone \/ SendPanic
    BY <1>1, <1>2, <1>9, OtherReserved
       DEF WriteReturns, WriteErr, SendClose, SendDone, SendPanic, SendGoto, callers
  <1>10. CASE CloseQueue
    <2>1. caller' = caller
      BY <1>10 DEF CloseQueue, Reserved, IInv, TypeOK
    <2> QED BY <1>1, <1>2, <1>10, <2>1, OtherReserved DEF CloseQueue
  <1>11. CASE RemoveSession \/ EndCallback
    BY <1>1, <1>2, <1>11, OtherReserved DEF RemoveSession, EndCallback, queued, callers
  <1>12. CASE UNCHANGED vars
    BY <1>1, <1>2, <1>12, OtherReserved DEF vars, queued, routines, callers
  <1> QED
    BY <1>3, <1>4, <1>5, <1>6, <1>7, <1>8, <1>9, <1>10, <1>11, <1>12
       DEF Next, RunRecv, RunSend

\* If the channel of tcpSession has a place for every sender beyond the limit
\* Send compares with, Send never waits and RunRecv always gets its nil in,
\* for any number of senders and restarts, even when RunSend is dead.
THEOREM SessionNeverBlocks == QueueFits => (Spec => []NeverBlocks)
  <1> SUFFICES ASSUME QueueFits PROVE Spec => []NeverBlocks
    OBVIOUS
  <1>1. Init => IInv /\ Reserved
    BY InitIInv, InitReserved
  <1>2. IInv /\ Reserved /\ [Next]_vars => (IInv /\ Reserved)'
    BY NextIInv, NextReserved
  <1>3. IInv /\ Reserved => NeverBlocks
    BY ReservedRoom DEF IInv, Reserved, NeverBlocks
  <1> QED BY <1>1, <1>2, <1>3, PTL DEF Spec
=============================================================================
