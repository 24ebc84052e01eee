------------------------------ MODULE Acceptor ------------------------------
(***************************************************************************)
(* tcpAcceptor (src/socket/tcp/acceptor.go): Start opens a listener and    *)
(* launches the accept goroutine, which starts a session per connection;   *)
(* Stop closes the listener and waits for the goroutine.  And its sibling  *)
(* tcpWebSocketAcceptor (src/socket/websocket/acceptor.go), which leaves   *)
(* accepting to net/http, a goroutine per connection, and closes all its   *)
(* sessions in Stop.                                                       *)
(*                                                                         *)
(* A session is reduced to what its manager sees of it, from Add to Remove *)
(* (module Session has the rest).  As for the connector, Start is called   *)
(* only when no accept goroutine exists: a second Start would fail to      *)
(* listen on the same address and panic.                                   *)
(***************************************************************************)
EXTENDS Integers, FiniteSets

CONSTANTS
    Conns,        \* connections peers make
    Stoppers,     \* goroutines that call Stop
    MaxLaunches,  \* bound: calls of Start
    MaxStops      \* bound: calls of Stop by each stopper

ASSUME AcceptorAssumption ==
    /\ IsFiniteSet(Conns) /\ IsFiniteSet(Stoppers)
    /\ Conns \cap {"none", "temporary", "fatal", "closed"} = {}
    /\ MaxLaunches \in Nat /\ MaxStops \in Nat

VARIABLES
    kind,             \* environment: which of the two, "tcp" or "ws"
    concurrentStart,  \* environment: Start may be called while a Stop is under way
    fatalErrors,      \* environment: Accept may fail for good on an open listener
    loop,       \* where the accept goroutine is
    got,        \* what Accept returned last
    listener,   \* "nil", "open" or "closed"
    launches,   \* calls of Start so far
    runState, CloseFlag, StopWg,  \* NetRuntimeTag
    sess,       \* the session of each connection
    stop,       \* where each caller of Stop is
    stops       \* calls of Stop made by each stopper

flags == <<runState, CloseFlag, StopWg>>
env == <<kind, concurrentStart, fatalErrors>>
vars == <<env, loop, got, listener, launches, flags, sess, stop, stops>>

LoopPC == {"off", "spawned", "serve", "accept", "accepted", "exit", "unflag", "done"}
StopPC == {"idle", "add", "flag", "listener", "sessions", "wait"}
SessPC == {"none", "handled", "open", "closing", "over"}
Errors == {"none", "temporary", "fatal", "closed"}

Init ==
    /\ kind \in {"tcp", "ws"}
    /\ concurrentStart \in BOOLEAN /\ fatalErrors \in BOOLEAN
    /\ loop = "off" /\ got = "none" /\ listener = "nil" /\ launches = 0
    /\ runState = 0 /\ CloseFlag = FALSE /\ StopWg = 0
    /\ sess = [c \in Conns |-> "none"]
    /\ stop = [t \in Stoppers |-> "idle"]
    /\ stops = [t \in Stoppers |-> 0]

-----------------------------------------------------------------------------
(* Start and tcpAccept.                                                     *)

LoopGoto(pc) == loop' = pc /\ UNCHANGED <<listener, launches, stop, stops>>

\* The goroutines inside Stop.
Stopping == {t \in Stoppers : stop[t] # "idle"}

\* Start waits for a Stop under way and listens.
Listen ==
    /\ launches < MaxLaunches /\ loop = "off" /\ listener # "open"
    /\ concurrentStart \/ Stopping = {}
    /\ StopWg = 0 /\ runState = 0
    /\ launches' = launches + 1 /\ listener' = "open"

\* It launches tcpAccept.
Start ==
    /\ kind = "tcp" /\ Listen /\ loop' = "spawned"
    /\ UNCHANGED <<got, flags, sess, stop, stops>>

AcceptBegin ==
    /\ loop = "spawned"
    /\ runState' = 1
    /\ LoopGoto("accept")
    /\ UNCHANGED <<got, CloseFlag, StopWg, sess>>

\* listener.Accept() returns a connection or an error.
Accept ==
    /\ loop = "accept"
    /\ \/ listener = "open" /\ got' \in {c \in Conns : sess[c] = "none"}
       \/ listener = "open" /\ got' = "temporary"
       \/ listener = "open" /\ fatalErrors /\ got' = "fatal"
       \/ listener = "closed" /\ got' = "closed"
    /\ LoopGoto("accepted")
    /\ UNCHANGED <<flags, sess>>

\* When the acceptor is stopping the loop ends, whatever Accept returned; a
\* temporary error is retried, another one ends the loop, and a connection
\* gets its session, started and announced with SessionAccepted.
Accepted ==
    /\ loop = "accepted"
    /\ \/ CloseFlag /\ LoopGoto("exit") /\ UNCHANGED sess
       \/ ~CloseFlag /\ got = "temporary" /\ LoopGoto("accept") /\ UNCHANGED sess
       \/ ~CloseFlag /\ got \in {"fatal", "closed"} /\ LoopGoto("exit") /\ UNCHANGED sess
       \/ /\ ~CloseFlag /\ got \in Conns
          /\ LoopGoto("accept") /\ sess' = [sess EXCEPT ![got] = "open"]
    /\ got' = "none" /\ UNCHANGED flags

\* SetRuneState(false)
LoopExit ==
    /\ loop = "exit"
    /\ runState' = 0
    /\ LoopGoto("unflag") /\ UNCHANGED <<got, CloseFlag, StopWg, sess>>

\* Mutant: the flag is left up and Done is called here as well as below.
BugLoopUnflag ==
    /\ loop = "unflag"
    /\ StopWg' = StopWg - 1
    /\ LoopGoto("done") /\ UNCHANGED <<got, runState, CloseFlag, sess>>

\* SetCloseFlag(false)
LoopUnflag ==
    /\ loop = "unflag"
    /\ CloseFlag' = FALSE
    /\ LoopGoto("done") /\ UNCHANGED <<got, runState, StopWg, sess>>

\* Mutant: the accept goroutine does not report its end.
BugLoopDone ==
    /\ loop = "done"
    /\ LoopGoto("off") /\ UNCHANGED <<got, flags, sess>>

\* StopWg.Done(), whoever ended the loop
LoopDone ==
    /\ loop = "done"
    /\ StopWg' = StopWg - 1
    /\ LoopGoto("off") /\ UNCHANGED <<got, runState, CloseFlag, sess>>

-----------------------------------------------------------------------------
(* Start of the websocket acceptor, its handlers and its goroutine, which   *)
(* ends as tcpAccept does.                                                  *)

\* The listener is left open when a Stop has raised its flag meanwhile.
WsStart ==
    /\ kind = "ws" /\ Listen
    /\ IF CloseFlag THEN UNCHANGED <<loop, runState>>
                    ELSE loop' = "serve" /\ runState' = 1
    /\ UNCHANGED <<got, CloseFlag, StopWg, sess, stop, stops>>

SessGoto(c, pc) ==
    /\ sess' = [sess EXCEPT ![c] = pc]
    /\ UNCHANGED <<loop, got, listener, launches, flags, stop, stops>>

\* net/http accepts a connection and gives it to a handler.
HttpAccept(c) ==
    /\ loop = "serve" /\ listener = "open" /\ sess[c] = "none"
    /\ SessGoto(c, "handled")

\* The handler upgrades it and starts its session, whether or not the
\* acceptor is still running, or gives it up.
HandleFunc(c) == sess[c] = "handled" /\ \E pc \in {"open", "over"} : SessGoto(c, pc)

\* Serve returns when the listener is closed, or when Accept fails for good.
ServeReturns ==
    /\ loop = "serve" /\ (listener = "closed" \/ fatalErrors)
    /\ LoopGoto("exit") /\ UNCHANGED <<got, flags, sess>>

-----------------------------------------------------------------------------
(* Sessions, as their manager sees them.                                    *)

\* The application closes a session.
SessionClose(c) == sess[c] = "open" /\ SessGoto(c, "closing")

\* The peer leaves or a Close takes effect: the session is removed.  A web-
\* socket session only ends by a message it cannot decode (WebSocket).
SessionEnds(c) ==
    /\ sess[c] = "open" \/ (sess[c] = "closing" /\ kind = "tcp")
    /\ SessGoto(c, "over")

-----------------------------------------------------------------------------
(* Stop.                                                                    *)

StopGoto(t, pc) ==
    /\ stop' = [stop EXCEPT ![t] = pc]
    /\ UNCHANGED <<loop, got, launches, runState>>

\* Stop does nothing unless the acceptor is marked as running.
StopBegin(t) ==
    /\ stop[t] = "idle" /\ runState = 1 /\ stops[t] < MaxStops
    /\ stops' = [stops EXCEPT ![t] = @ + 1]
    /\ StopGoto(t, "add") /\ UNCHANGED <<listener, CloseFlag, StopWg, sess>>

StopAdd(t) ==
    /\ stop[t] = "add"
    /\ StopWg' = StopWg + 1
    /\ StopGoto(t, "flag") /\ UNCHANGED <<listener, CloseFlag, stops, sess>>

StopFlag(t) ==
    /\ stop[t] = "flag"
    /\ CloseFlag' = TRUE
    /\ StopGoto(t, "listener") /\ UNCHANGED <<listener, StopWg, stops, sess>>

\* Mutant: the listener is left open.
BugStopListener(t) ==
    /\ stop[t] = "listener"
    /\ StopGoto(t, "sessions") /\ UNCHANGED <<listener, CloseFlag, StopWg, stops, sess>>

\* a.listener.Close() closes whatever listener the field holds by now.
StopListener(t) ==
    /\ stop[t] = "listener"
    /\ listener' = "closed"
    /\ StopGoto(t, "sessions") /\ UNCHANGED <<CloseFlag, StopWg, stops, sess>>

\* The manager closes the sessions it knows by now; tcpAcceptor overrides
\* its method with an empty one.
CloseAllSession ==
    sess' = [c \in Conns |-> IF kind = "ws" /\ sess[c] = "open" THEN "closing"
                             ELSE sess[c]]

StopSessions(t) ==
    /\ stop[t] = "sessions"
    /\ CloseAllSession
    /\ StopGoto(t, "wait") /\ UNCHANGED <<listener, CloseFlag, StopWg, stops>>

\* StopWg.Wait() returned.
StopReturn(t) ==
    /\ stop[t] = "wait" /\ StopWg = 0
    /\ StopGoto(t, "idle") /\ UNCHANGED <<listener, CloseFlag, StopWg, stops, sess>>

-----------------------------------------------------------------------------
TcpAccept == AcceptBegin \/ Accept \/ Accepted \/ LoopExit \/ LoopUnflag \/ LoopDone

Stop(t) ==
    \/ StopBegin(t) \/ StopAdd(t) \/ StopFlag(t) \/ StopListener(t)
    \/ StopSessions(t) \/ StopReturn(t)

\* A negative WaitGroup panics in the accept goroutine: the process is gone.
Crashed == StopWg < 0

Next ==
    /\ ~Crashed
    /\ UNCHANGED env
    /\ \/ Start \/ WsStart
       \/ TcpAccept \/ ServeReturns
       \/ \E c \in Conns : \/ HttpAccept(c) \/ HandleFunc(c)
                            \/ SessionClose(c) \/ SessionEnds(c)
       \/ \E t \in Stoppers : Stop(t)

\* The scheduler runs the accept goroutine and a Stop under way; Accept
\* returns on a closed listener; a session that was closed ends.
Fairness ==
    /\ WF_vars(TcpAccept /\ UNCHANGED env /\ (loop = "accept" => listener = "closed"))
    /\ WF_vars(ServeReturns /\ UNCHANGED env /\ listener = "closed")
    /\ \A t \in Stoppers : WF_vars(Stop(t) /\ UNCHANGED env /\ stop[t] # "idle")
    /\ \A c \in Conns : WF_vars(SessionEnds(c) /\ UNCHANGED env /\ sess[c] = "closing")

Spec == Init /\ [][Next]_vars
FairSpec == Spec /\ Fairness

-----------------------------------------------------------------------------
(* Properties.                                                              *)

\* One Start or Stop at a time, and a listener that fails only when closed.
Calm == ~concurrentStart /\ ~fatalErrors

AcceptorTypeOK ==
    /\ kind \in {"tcp", "ws"}
    /\ concurrentStart \in BOOLEAN /\ fatalErrors \in BOOLEAN
    /\ loop \in LoopPC
    /\ got \in Conns \cup Errors
    /\ listener \in {"nil", "open", "closed"}
    /\ launches \in Nat
    /\ runState \in {0, 1} /\ CloseFlag \in BOOLEAN
    /\ StopWg \in -1..Cardinality(Stoppers)
    /\ sess \in [Conns -> SessPC]
    /\ stop \in [Stoppers -> StopPC]
    /\ stops \in [Stoppers -> Nat]

\* The close flag is only ever up while a Stop is under way: an acceptor that
\* is started again after a Stop does not find the flag of that Stop and
\* leave its loop at the first connection.
FlagBelongsToStop == Calm /\ CloseFlag => Stopping # {}

\* Every Done of the accept goroutine answers the Add of the Stop under way,
\* so that the counter is one while that Stop has something to wait for and
\* never negative.  It holds for one Stop at a time, a listener that only
\* fails when it is closed, and no Start before Stop has returned.
StopWgCounts ==
    /\ AcceptorTypeOK
    /\ Calm => StopWg = IF loop # "off" /\ \E t \in Stoppers : stop[t] \notin {"idle", "add"}
                        THEN 1 ELSE 0

\* When no Stop is under way the listener is open exactly while the accept
\* goroutine is there to serve it: Stop leaves neither a loop without a
\* listener nor a listener nobody accepts from.
ListenerServed ==
    Calm /\ Stopping = {} /\ launches > 0 => (listener = "open" <=> loop # "off")

\* Stop returns unless the process crashed: the accept goroutine leaves Accept
\* when the listener is closed or fails and reports its end, for which Stop
\* waits (acceptor.go:95), also when Start is called before Stop is through.
StopReturns ==
    \A t \in Stoppers : stop[t] = "add" ~> stop[t] = "idle" \/ Crashed
=============================================================================
