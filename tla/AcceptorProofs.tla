---------------------------- MODULE AcceptorProofs ----------------------------
(***************************************************************************)
(* Proofs about Acceptor for any number of connections, of calls of Start  *)
(* and of concurrent callers of Stop, for the TCP and for the websocket    *)
(* acceptor.                                                               *)
(***************************************************************************)
EXTENDS Acceptor, FiniteSetTheorems, TLAPS

-----------------------------------------------------------------------------
(* The inductive invariant.                                                 *)

\* The callers of Stop that have added to StopWg, raised the close flag,
\* closed the listener.
Added == {t \in Stoppers : stop[t] \in {"flag", "listener", "sessions", "wait"}}
Raised == {t \in Stoppers : stop[t] \in {"listener", "sessions", "wait"}}
Shut == {t \in Stoppers : stop[t] \in {"sessions", "wait"}}

Types ==
    /\ kind \in {"tcp", "ws"}
    /\ concurrentStart \in BOOLEAN /\ fatalErrors \in BOOLEAN
    /\ loop \in LoopPC
    /\ got \in Conns \cup Errors
    /\ listener \in {"nil", "open", "closed"}
    /\ launches \in Nat
    /\ runState \in {0, 1} /\ CloseFlag \in BOOLEAN
    /\ StopWg \in Int /\ StopWg >= -1 /\ StopWg <= Cardinality(Added)
    /\ sess \in [Conns -> SessPC]
    /\ stop \in [Stoppers -> StopPC]
    /\ stops \in [Stoppers -> Nat]

\* The accept goroutine calls Done once for all the Adds of its callers of
\* Stop: after it one Add is answered, and only if there was a single one can
\* a Stop return.
Answered ==
    /\ loop # "off" => StopWg = Cardinality(Added)
    /\ StopWg >= Cardinality(Added) - 1

\* The goroutine ends only for a Stop that has raised the flag or closed the
\* listener.  After it has taken the flag back, one that is up was raised by
\* another Stop, which has added too.
FlagRaised ==
    /\ CloseFlag => Raised # {}
    /\ loop \in {"exit", "unflag", "done"} => Raised # {}
    /\ loop = "off" /\ StopWg < Cardinality(Added) => Raised # {}
    /\ CloseFlag /\ (loop = "done" \/ (loop = "off" /\ StopWg < Cardinality(Added))) =>
          \E r, t \in Raised : r # t

\* The listener is open as long as the goroutine runs and no Stop closed it.
ListenerOpen ==
    /\ Shut # {} => listener = "closed"
    /\ loop # "off" /\ Shut = {} => listener = "open"
    /\ loop = "off" /\ launches > 0 => listener = "closed" \/ Raised # {}
    /\ loop = "accepted" => got # "fatal" /\ (got = "closed" => listener = "closed")

CalmInv == Answered /\ FlagRaised /\ ListenerOpen
AcceptorInv == Types /\ (Calm => CalmInv)

\* With a single caller of Stop the goroutine ends only after that caller has
\* raised the flag, so that the Add is always there before the Done.
Alone == \A r, t \in Stoppers : r = t

AloneInv ==
    /\ loop = "off" => StopWg = 0 /\ \A t \in Stoppers : stop[t] \notin {"add", "flag"}
    /\ loop \in {"off", "unflag", "done"} => runState = 0

-----------------------------------------------------------------------------
(* It is inductive.                                                         *)

\* The sets of callers are finite.
LEMMA AddedCard ==
    /\ IsFiniteSet(Added) /\ Cardinality(Added) \in Nat
    /\ Cardinality(Stoppers) \in Nat /\ Cardinality(Added) <= Cardinality(Stoppers)
  <1>1. Added \subseteq Stoppers
    BY DEF Added
  <1> QED BY <1>1, AcceptorAssumption, FS_Subset, FS_CardinalityType

\* Initially nothing has been called.
LEMMA AcceptorInit == Init => AcceptorInv
  <1> SUFFICES ASSUME Init PROVE AcceptorInv
    OBVIOUS
  <1>1. Added = {} /\ Raised = {} /\ Shut = {}
    BY DEF Init, Added, Raised, Shut
  <1>2. StopWg = 0 /\ Cardinality(Added) = 0
    BY <1>1, FS_EmptySet DEF Init
  <1>3. CloseFlag \in BOOLEAN /\ concurrentStart \in BOOLEAN /\ fatalErrors \in BOOLEAN
    BY Zenon DEF Init
  <1>4. Types
    BY <1>2, <1>3 DEF Init, Types, LoopPC, Errors, SessPC, StopPC
  <1>5. CalmInv
    BY <1>1, <1>2 DEF Init, CalmInv, Answered, FlagRaised, ListenerOpen
  <1> QED BY <1>4, <1>5 DEF AcceptorInv

\* Start, of either acceptor.
LEMMA StartInv ==
    ASSUME AcceptorInv, UNCHANGED env, ~Crashed, Start \/ WsStart PROVE AcceptorInv'
  <1> USE DEF AcceptorInv
  <1>1. UNCHANGED <<got, CloseFlag, StopWg, sess, stop, stops>>
    BY DEF Start, WsStart, flags
  <1>2. Added' = Added /\ Raised' = Raised /\ Shut' = Shut
    BY <1>1 DEF Added, Raised, Shut
  <1>3. Types'
    BY <1>1, <1>2 DEF Types, env, Start, WsStart, Listen, LoopPC, flags
  <1>4. ASSUME Calm' PROVE CalmInv'
    <2>1. Calm /\ CalmInv
      BY <1>4 DEF Calm, env
    <2>2. Stopping = {}
      BY <2>1 DEF Start, WsStart, Listen, Calm
    <2>3. Added = {} /\ Raised = {} /\ Shut = {}
      BY <2>2 DEF Stopping, Added, Raised, Shut
    <2>4. StopWg = 0 /\ Cardinality(Added) = 0
      BY <2>3, FS_EmptySet DEF Start, WsStart, Listen
    <2>5. CloseFlag = FALSE
      BY <2>1, <2>3 DEF CalmInv, FlagRaised, Types
    <2>6. listener' = "open" /\ loop' \in {"spawned", "serve"}
      BY <2>5 DEF Start, WsStart, Listen
    <2> QED BY <1>1, <1>2, <2>3, <2>4, <2>5, <2>6 DEF CalmInv, Answered, FlagRaised, ListenerOpen
  <1> QED BY <1>3, <1>4

\* The accept goroutine.
LEMMA LoopInv ==
    ASSUME AcceptorInv, UNCHANGED env, ~Crashed, TcpAccept \/ ServeReturns PROVE AcceptorInv'
  <1> USE DEF AcceptorInv
  <1>1. UNCHANGED <<listener, launches, stop, stops>>
    BY DEF TcpAccept, AcceptBegin, Accept, Accepted, LoopExit, LoopUnflag, LoopDone, ServeReturns,
           LoopGoto
  <1>2. Added' = Added /\ Raised' = Raised /\ Shut' = Shut
    BY <1>1 DEF Added, Raised, Shut
  <1>3. Types'
    <2>1. CloseFlag' \in BOOLEAN
      <3>1. CloseFlag' = FALSE \/ CloseFlag' = CloseFlag
        BY Zenon DEF TcpAccept, AcceptBegin, Accept, Accepted, LoopExit, LoopUnflag, LoopDone,
           ServeReturns, flags
      <3> QED BY Zenon, <3>1 DEF Types
    <2>2. got' \in Conns \cup Errors
      BY DEF Types, TcpAccept, AcceptBegin, Accept, Accepted, LoopExit, LoopUnflag, LoopDone,
           ServeReturns, Errors
    <2>3. sess' \in [Conns -> SessPC]
      BY DEF Types, TcpAccept, AcceptBegin, Accept, Accepted, LoopExit, LoopUnflag, LoopDone,
           ServeReturns, Errors, SessPC
    <2>4. StopWg' = StopWg \/ (StopWg' = StopWg - 1 /\ StopWg >= 0)
      BY DEF Types, Crashed, TcpAccept, AcceptBegin, Accept, Accepted, LoopExit, LoopUnflag, LoopDone,
           ServeReturns, flags
    <2>5. loop' \in LoopPC /\ runState' \in {0, 1}
      BY DEF Types, TcpAccept, AcceptBegin, Accept, Accepted, LoopExit, LoopUnflag, LoopDone,
           ServeReturns, flags, LoopGoto, LoopPC, Errors
    <2> QED BY <1>1, <1>2, <2>1, <2>2, <2>3, <2>4, <2>5, AddedCard DEF Types, env
  <1>4. ASSUME Calm' PROVE CalmInv'
    <2>1. Calm /\ CalmInv
      BY <1>4 DEF Calm, env
    <2>2. CASE AcceptBegin \/ Accept \/ Accepted \/ LoopExit \/ ServeReturns
      <3>1. UNCHANGED <<CloseFlag, StopWg>> /\ loop \notin {"off", "done"} /\ loop' \notin {"off", "done"}
        BY <2>2 DEF Types, Errors, AcceptBegin, Accept, Accepted, LoopExit, ServeReturns, LoopGoto, flags
      <3>2. CASE Accept
        BY <1>1, <1>2, <2>1, <3>1, <3>2, AcceptorAssumption
           DEF Accept, LoopGoto, CalmInv, Answered, FlagRaised, ListenerOpen, Calm
      <3>3. CASE Accepted
        <4>1. loop = "accepted" /\ loop' \in {"accept", "exit"}
          BY <3>3 DEF Types, Errors, Accepted, LoopGoto
        <4>2. loop' = "exit" => CloseFlag \/ got = "closed"
          BY <2>1, <3>3, <4>1 DEF Types, Errors, Accepted, LoopGoto, CalmInv, ListenerOpen
        <4>3. Shut \subseteq Raised
          BY DEF Shut, Raised
        <4>4. loop' = "exit" => Raised # {}
          BY <2>1, <4>1, <4>2, <4>3 DEF CalmInv, FlagRaised, ListenerOpen
        <4> QED BY <1>1, <1>2, <2>1, <3>1, <4>1, <4>4 DEF CalmInv, Answered, FlagRaised, ListenerOpen
      <3>4. CASE AcceptBegin \/ LoopExit
        BY <1>1, <1>2, <2>1, <3>1, <3>4
           DEF AcceptBegin, LoopExit, LoopGoto, CalmInv, Answered, FlagRaised, ListenerOpen
      <3>5. CASE ServeReturns
        <4>1. Shut # {} /\ Shut \subseteq Raised
          BY <2>1, <3>5 DEF ServeReturns, Calm, CalmInv, ListenerOpen, Shut, Raised
        <4> QED BY <1>1, <1>2, <2>1, <3>1, <3>5, <4>1
                DEF ServeReturns, LoopGoto, CalmInv, Answered, FlagRaised, ListenerOpen
      <3> QED BY <2>2, <3>2, <3>3, <3>4, <3>5
    <2>3. CASE LoopUnflag
      BY <1>1, <1>2, <2>1, <2>3
         DEF LoopUnflag, LoopGoto, CalmInv, Answered, FlagRaised, ListenerOpen
    <2>4. CASE LoopDone
      BY <1>1, <1>2, <2>1, <2>4, AddedCard
         DEF LoopDone, LoopGoto, Types, CalmInv, Answered, FlagRaised, ListenerOpen
    <2> QED BY <2>2, <2>3, <2>4 DEF TcpAccept
  <1> QED BY <1>3, <1>4

\* The sessions of the acceptor.
LEMMA SessInv ==
    ASSUME AcceptorInv, UNCHANGED env, NEW c \in Conns,
           HttpAccept(c) \/ HandleFunc(c) \/ SessionClose(c) \/ SessionEnds(c)
    PROVE AcceptorInv'
  <1>1. UNCHANGED <<loop, got, listener, launches, flags, stop, stops>>
    BY DEF HttpAccept, HandleFunc, SessionClose, SessionEnds, SessGoto
  <1>2. PICK pc \in SessPC : sess' = [sess EXCEPT ![c] = pc]
    BY DEF HttpAccept, HandleFunc, SessionClose, SessionEnds, SessGoto, SessPC
  <1>3. Added' = Added /\ Raised' = Raised /\ Shut' = Shut
    BY <1>1 DEF Added, Raised, Shut
  <1>4. Types'
    BY <1>1, <1>2, <1>3 DEF AcceptorInv, Types, env, flags
  <1>5. Calm' => CalmInv'
    BY <1>1, <1>3 DEF AcceptorInv, Calm, env, flags, CalmInv, Answered, FlagRaised, ListenerOpen
  <1> QED BY <1>4, <1>5 DEF AcceptorInv

\* How a step of Stop moves its caller through the sets.
LEMMA StopSets ==
    ASSUME Types, NEW t \in Stoppers, Stop(t)
    PROVE /\ UNCHANGED <<loop, got, launches, runState>>
          /\ \/ /\ StopBegin(t)
                /\ Added' = Added /\ Raised' = Raised /\ Shut' = Shut
             \/ /\ StopAdd(t)
                /\ t \notin Added /\ Added' = Added \cup {t} /\ Raised' = Raised /\ Shut' = Shut
             \/ /\ StopFlag(t) /\ t \in Added /\ t \notin Raised
                /\ Added' = Added /\ Raised' = Raised \cup {t} /\ Shut' = Shut
             \/ /\ StopListener(t) /\ t \in Raised
                /\ Added' = Added /\ Raised' = Raised /\ Shut' = Shut \cup {t}
             \/ /\ StopSessions(t)
                /\ Added' = Added /\ Raised' = Raised /\ Shut' = Shut
             \/ /\ StopReturn(t) /\ t \in Shut
                /\ Added' = Added \ {t} /\ Raised' = Raised \ {t} /\ Shut' = Shut \ {t}
  <1> USE DEF Types, StopPC, Added, Raised, Shut, StopGoto
  <1>1. UNCHANGED <<loop, got, launches, runState>>
    BY DEF Stop, StopBegin, StopAdd, StopFlag, StopListener, StopSessions, StopReturn
  <1>2. CASE StopBegin(t)
    BY <1>1, <1>2 DEF StopBegin
  <1>3. CASE StopAdd(t)
    BY <1>1, <1>3 DEF StopAdd
  <1>4. CASE StopFlag(t)
    BY <1>1, <1>4 DEF StopFlag
  <1>5. CASE StopListener(t)
    BY <1>1, <1>5 DEF StopListener
  <1>6. CASE StopSessions(t)
    BY <1>1, <1>6 DEF StopSessions
  <1>7. CASE StopReturn(t)
    BY <1>1, <1>7 DEF StopReturn
  <1> QED BY <1>2, <1>3, <1>4, <1>5, <1>6, <1>7 DEF Stop

\* The callers of Stop.
LEMMA StopInv ==
    ASSUME AcceptorInv, UNCHANGED env, NEW t \in Stoppers, Stop(t) PROVE AcceptorInv'
  <1> USE DEF AcceptorInv
  <1>1. UNCHANGED <<loop, got, launches, runState>>
    BY StopSets
  <1>2. /\ StopWg' \in Int /\ StopWg' >= -1 /\ Cardinality(Added') \in Nat
        /\ StopWg' <= Cardinality(Added')
        /\ StopWg - Cardinality(Added) >= -1 => StopWg' - Cardinality(Added') >= -1
        /\ StopWg = Cardinality(Added) => StopWg' = Cardinality(Added') /\ ~StopReturn(t)
    <2>1. CASE StopAdd(t)
      <3>1. Cardinality(Added') = Cardinality(Added) + 1
        BY <2>1, StopSets, AddedCard, FS_AddElement
           DEF StopBegin, StopAdd, StopFlag, StopListener, StopSessions, StopReturn
      <3>2. StopWg' = StopWg + 1 /\ ~StopReturn(t)
        BY <2>1 DEF StopAdd, StopReturn
      <3> QED BY <3>1, <3>2, AddedCard DEF Types
    <2>2. CASE StopReturn(t)
      <3>1. t \in Added /\ Added' = Added \ {t}
        BY <2>2, StopSets
           DEF StopBegin, StopAdd, StopFlag, StopListener, StopSessions, StopReturn, Shut, Added
      <3>2. Cardinality(Added') = Cardinality(Added) - 1 /\ Cardinality(Added) # 0
        BY <3>1, AddedCard, FS_RemoveElement, FS_EmptySet
      <3>3. StopWg = 0 /\ StopWg' = 0
        BY <2>2 DEF StopReturn
      <3> QED BY <3>2, <3>3, AddedCard
    <2>3. CASE ~StopAdd(t) /\ ~StopReturn(t)
      <3>1. Added' = Added /\ StopWg' = StopWg
        BY <2>3, StopSets DEF StopBegin, StopFlag, StopListener, StopSessions
      <3> QED BY <2>3, <3>1, AddedCard DEF Types
    <2> QED BY <2>1, <2>2, <2>3
  <1>3. Types'
    <2>1. CloseFlag' \in BOOLEAN
      <3>1. CloseFlag' = TRUE \/ CloseFlag' = CloseFlag
        BY Zenon DEF Stop, StopBegin, StopAdd, StopFlag, StopListener, StopSessions, StopReturn
      <3> QED BY Zenon, <3>1 DEF Types
    <2>2. stop' \in [Stoppers -> StopPC] /\ stops' \in [Stoppers -> Nat]
      BY DEF Types, StopPC, Stop, StopBegin, StopAdd, StopFlag, StopListener, StopSessions,
             StopReturn, StopGoto
    <2>3. sess' \in [Conns -> SessPC]
      BY DEF Types, SessPC, Stop, StopBegin, StopAdd, StopFlag, StopListener, StopSessions,
             StopReturn, CloseAllSession
    <2>4. listener' \in {"nil", "open", "closed"}
      BY DEF Types, Stop, StopBegin, StopAdd, StopFlag, StopListener, StopSessions, StopReturn
    <2> QED BY <1>1, <1>2, <2>1, <2>2, <2>3, <2>4 DEF Types, env
  <1>4. ASSUME Calm' PROVE CalmInv'
    <2>1. Calm /\ CalmInv
      BY <1>4 DEF Calm, env
    <2>2. Answered'
      BY <1>1, <1>2, <2>1, AddedCard DEF CalmInv, Answered, Types
    <2>3. FlagRaised' /\ ListenerOpen'
      <3>1. CASE StopReturn(t)
        <4>1. UNCHANGED <<CloseFlag, listener>> /\ StopWg = 0 /\ StopWg' = 0
          BY <3>1 DEF StopReturn
        <4>2. t \in Shut /\ Added' = Added \ {t} /\ Raised' = Raised \ {t} /\ Shut' = Shut \ {t}
          BY <3>1, StopSets DEF StopBegin, StopAdd, StopFlag, StopListener, StopSessions, StopReturn
        <4>3. loop = "off" /\ StopWg < Cardinality(Added)
          <5>1. StopWg # Cardinality(Added)
            BY <1>2, <3>1
          <5> QED BY <2>1, <5>1, AddedCard DEF CalmInv, Answered, Types
        <4>4. Added \subseteq {t}
          <5>1. Cardinality(Added) = 1
            BY <2>1, <4>1, <4>3, AddedCard DEF CalmInv, Answered
          <5>2. t \in Added
            BY <4>2 DEF Added, Shut
          <5> QED BY <5>1, <5>2, AddedCard, FS_Singleton
        <4>5. Raised \subseteq Added
          BY DEF Raised, Added
        <4>6. ~CloseFlag
          BY <2>1, <4>3, <4>4, <4>5 DEF CalmInv, FlagRaised
        <4>7. Cardinality(Added') = 0
          BY <4>2, <4>4, FS_EmptySet
        <4> QED BY <1>1, <2>1, <4>1, <4>2, <4>3, <4>6, <4>7 DEF CalmInv, FlagRaised, ListenerOpen
      <3>2. CASE StopAdd(t)
        <4>1. UNCHANGED <<CloseFlag, listener>> /\ StopWg' = StopWg + 1
          BY <3>2 DEF StopAdd
        <4>2. t \notin Added /\ Added' = Added \cup {t} /\ Raised' = Raised /\ Shut' = Shut
          BY <3>2, StopSets DEF StopBegin, StopAdd, StopFlag, StopListener, StopSessions, StopReturn
        <4>3. Cardinality(Added') = Cardinality(Added) + 1
          BY <4>2, AddedCard, FS_AddElement
        <4> QED BY <1>1, <2>1, <4>1, <4>2, <4>3, AddedCard DEF Types, CalmInv, FlagRaised, ListenerOpen
      <3>3. CASE StopFlag(t)
        <4>1. UNCHANGED <<StopWg, listener>>
          BY <3>3 DEF StopFlag
        <4>2. t \notin Raised /\ Added' = Added /\ Raised' = Raised \cup {t} /\ Shut' = Shut
          BY <3>3, StopSets DEF StopBegin, StopAdd, StopFlag, StopListener, StopSessions, StopReturn
        <4>3. loop = "done" \/ (loop = "off" /\ StopWg < Cardinality(Added)) => Raised # {}
          BY <2>1 DEF CalmInv, FlagRaised
        <4> QED BY <1>1, <2>1, <4>1, <4>2, <4>3 DEF CalmInv, FlagRaised, ListenerOpen
      <3>4. CASE StopListener(t)
        <4>1. UNCHANGED <<StopWg, CloseFlag>> /\ listener' = "closed"
          BY <3>4 DEF StopListener
        <4>2. Added' = Added /\ Raised' = Raised /\ Shut' = Shut \cup {t}
          BY <3>4, StopSets DEF StopBegin, StopAdd, StopFlag, StopListener, StopSessions, StopReturn
        <4> QED BY <1>1, <2>1, <4>1, <4>2 DEF CalmInv, FlagRaised, ListenerOpen
      <3>5. CASE StopBegin(t) \/ StopSessions(t)
        <4>1. UNCHANGED <<StopWg, CloseFlag, listener>>
          BY <3>5 DEF StopBegin, StopSessions
        <4>2. Added' = Added /\ Raised' = Raised /\ Shut' = Shut
          BY <3>5, StopSets DEF StopBegin, StopAdd, StopFlag, StopListener, StopSessions, StopReturn
        <4> QED BY <1>1, <2>1, <4>1, <4>2 DEF CalmInv, FlagRaised, ListenerOpen
      <3> QED BY <3>1, <3>2, <3>3, <3>4, <3>5 DEF Stop
    <2> QED BY <2>2, <2>3 DEF CalmInv
  <1> QED BY <1>3, <1>4

\* Every step keeps the invariant.
LEMMA NextInv == AcceptorInv /\ [Next]_vars => AcceptorInv'
  <1> SUFFICES ASSUME AcceptorInv, [Next]_vars PROVE AcceptorInv'
    OBVIOUS
  <1>1. CASE Next
    BY <1>1, StartInv, LoopInv, SessInv, StopInv DEF Next
  <1>2. CASE UNCHANGED vars
    <2>1. Added' = Added /\ Raised' = Raised /\ Shut' = Shut
      BY <1>2 DEF vars, Added, Raised, Shut
    <2> QED BY <1>2, <2>1
       DEF vars, env, flags, AcceptorInv, Types, Calm, CalmInv, Answered, FlagRaised, ListenerOpen
  <1> QED BY <1>1, <1>2

\* The flags of an acceptor follow its accept goroutine and its callers of
\* Stop, however many there are.
THEOREM AlwaysAcceptorInv == Spec => []AcceptorInv
  BY AcceptorInit, NextInv, PTL DEF Spec

\* The state of an acceptor always has its type; StopWg is never above the
\* number of callers of Stop, and never below -1, where Done panics.
THEOREM AcceptorTypes == Spec => []AcceptorTypeOK
  <1>1. AcceptorInv => AcceptorTypeOK
    <2> SUFFICES ASSUME AcceptorInv PROVE AcceptorTypeOK
      OBVIOUS
    <2>1. StopWg \in -1..Cardinality(Stoppers)
      BY AddedCard DEF AcceptorInv, Types
    <2> QED BY <2>1 DEF AcceptorInv, Types, AcceptorTypeOK
  <1> QED BY <1>1, AlwaysAcceptorInv, PTL

\* tcpAccept and the websocket acceptor's goroutine take the close flag back
\* before any Stop can return, also when several are called at once.
THEOREM AcceptorFlagBelongsToStop == Spec => []FlagBelongsToStop
  <1>1. Raised \subseteq Stopping
    BY DEF Raised, Stopping
  <1>2. AcceptorInv => FlagBelongsToStop
    BY <1>1 DEF AcceptorInv, CalmInv, FlagRaised, FlagBelongsToStop
  <1> QED BY <1>2, AlwaysAcceptorInv, PTL

\* Between two calls of Stop the listener of an acceptor is open exactly while
\* its accept goroutine runs, for any number of callers.
THEOREM AcceptorListenerServed == Spec => []ListenerServed
  <1>1. Raised \subseteq Stopping /\ Shut \subseteq Stopping
    BY DEF Raised, Shut, Stopping
  <1>2. AcceptorInv => ListenerServed
    BY <1>1 DEF AcceptorInv, CalmInv, ListenerOpen, ListenerServed
  <1> QED BY <1>2, AlwaysAcceptorInv, PTL

-----------------------------------------------------------------------------
(* One caller of Stop.                                                      *)

\* What a single caller adds to the invariant is kept by every step.
LEMMA AloneNext ==
    ASSUME Alone, AcceptorInv, Calm => AloneInv, [Next]_vars PROVE (Calm => AloneInv)'
  <1> SUFFICES ASSUME Calm' PROVE AloneInv'
    OBVIOUS
  <1>1. Calm /\ CalmInv /\ AloneInv
    BY DEF AcceptorInv, Next, Calm, env, vars
  <1>2. CASE Start \/ WsStart
    <2>1. Stopping = {}
      BY <1>1, <1>2 DEF Start, WsStart, Listen, Calm
    <2>2. CloseFlag = FALSE
      BY <1>1, <2>1 DEF AcceptorInv, Types, CalmInv, FlagRaised, Raised, Stopping
    <2> QED BY <1>2, <2>2 DEF Start, WsStart, AloneInv
  <1>3. CASE LoopDone
    <2>1. PICK t \in Stoppers : stop[t] \in {"listener", "sessions", "wait"}
      BY <1>1, <1>3 DEF LoopDone, CalmInv, FlagRaised, Raised
    <2>2. Added = {t}
      BY <2>1 DEF Added, Alone
    <2>3. StopWg = 1
      BY <1>1, <1>3, <2>2, FS_Singleton DEF LoopDone, CalmInv, Answered
    <2> QED BY <1>1, <1>3, <2>1, <2>3 DEF LoopDone, LoopGoto, AloneInv, Alone
  <1>4. CASE AcceptBegin \/ Accept \/ Accepted \/ LoopExit \/ LoopUnflag \/ ServeReturns
    BY <1>1, <1>4 DEF AcceptBegin, Accept, Accepted, LoopExit, LoopUnflag, ServeReturns, LoopGoto,
                      flags, AloneInv
  <1>5. ASSUME NEW c \in Conns,
               HttpAccept(c) \/ HandleFunc(c) \/ SessionClose(c) \/ SessionEnds(c)
        PROVE AloneInv'
    BY <1>1, <1>5 DEF HttpAccept, HandleFunc, SessionClose, SessionEnds, SessGoto, flags, AloneInv
  <1>6. ASSUME NEW t \in Stoppers, Stop(t) PROVE AloneInv'
    BY <1>1, <1>6 DEF AcceptorInv, Types, Alone, AloneInv, Stop, StopBegin, StopAdd, StopFlag,
                      StopListener, StopSessions, StopReturn, StopGoto
  <1>7. CASE UNCHANGED vars
    BY <1>1, <1>7 DEF vars, flags, AloneInv
  <1> QED BY <1>2, <1>3, <1>4, <1>5, <1>6, <1>7 DEF Next, TcpAccept

\* With one caller of Stop, one Start or Stop at a time and a listener that
\* fails only when it is closed, StopWg.Done of the accept goroutine answers
\* exactly the StopWg.Add of that Stop, over any number of starts and stops.
THEOREM AcceptorStopWgCounts == Alone => (Spec => []StopWgCounts)
  <1> SUFFICES ASSUME Alone PROVE Spec => []StopWgCounts
    OBVIOUS
  <1>1. Init => AcceptorInv /\ (Calm => AloneInv)
    BY AcceptorInit DEF Init, AloneInv
  <1>2. AcceptorInv /\ (Calm => AloneInv) /\ [Next]_vars => (AcceptorInv /\ (Calm => AloneInv))'
    BY NextInv, AloneNext
  <1>3. AcceptorInv /\ (Calm => AloneInv) => StopWgCounts
    <2> SUFFICES ASSUME AcceptorInv, Calm => AloneInv PROVE StopWgCounts
      OBVIOUS
    <2>1. AcceptorTypeOK
      <3>1. StopWg \in -1..Cardinality(Stoppers)
        BY AddedCard DEF AcceptorInv, Types
      <3> QED BY <3>1 DEF AcceptorInv, Types, AcceptorTypeOK
    <2>2. ASSUME Calm
          PROVE StopWg = IF loop # "off" /\ \E t \in Stoppers : stop[t] \notin {"idle", "add"}
                         THEN 1 ELSE 0
      <3>1. CASE loop = "off"
        BY <2>2, <3>1 DEF AloneInv
      <3>2. CASE loop # "off" /\ \A t \in Stoppers : stop[t] \in {"idle", "add"}
        <4>1. Added = {}
          BY <3>2 DEF Added
        <4>2. StopWg = 0
          BY <2>2, <3>2, <4>1, FS_EmptySet DEF AcceptorInv, CalmInv, Answered
        <4> QED BY <3>2, <4>2
      <3>3. CASE loop # "off" /\ \E t \in Stoppers : stop[t] \notin {"idle", "add"}
        <4>1. PICK t \in Stoppers : stop[t] \notin {"idle", "add"}
          BY <3>3
        <4>2. Added = {t}
          BY <4>1 DEF Added, Alone, AcceptorInv, Types, StopPC
        <4>3. StopWg = 1
          BY <2>2, <3>3, <4>2, FS_Singleton DEF AcceptorInv, CalmInv, Answered
        <4> QED BY <3>3, <4>3
      <3> QED BY <3>1, <3>2, <3>3
    <2> QED BY <2>1, <2>2 DEF StopWgCounts
  <1> QED BY <1>1, <1>2, <1>3, PTL DEF Spec
=============================================================================
