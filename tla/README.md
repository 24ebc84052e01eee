# A TLA+ model of rocommon

rocommon is a Go library for the processes of a game server: a process is made
of *nodes* (acceptors and connectors) whose *sessions* carry framed messages
between processes; what a session receives is posted as an event to the node's
*event queue*, a single goroutine that runs all game logic; processes find each
other through etcd.  The code has no tests.  What can go wrong in it goes wrong
between goroutines: three of them per session, two per node, the event loop and
whatever calls `Send`, `Close`, `Start` and `Stop`.

Paths below are relative to the repository (`src/`).

## 1. The parts, their state and their operations

| Part | State | Operations | Talks to |
|---|---|---|---|
| TCP session (`socket/tcp/session.go`) | connection, send channel, `closeInt`, `exitWg` | `Start`, `Send`, `Close`, `HeartBeat`; goroutines `RunRecv`, `RunSend` and the one that waits for both | manager (`Add`, `Remove`), event queue (`ProcEvent`), owner (`endCallback`) |
| TCP connector (`socket/tcp/connector.go`) | one session, `wg`, runtime tag | `Start`, `Stop`; goroutine `connect` | session, event queue |
| TCP acceptor (`socket/tcp/acceptor.go`) | listener, runtime tag | `Start`, `Stop`; goroutine `tcpAccept` | a session per connection |
| Runtime tag (`socket/runtimetag.go`) | `runState`, `CloseFlag`, `StopWg` | setters and getters | embedded in every node |
| Session manager (`socket/sessionmanager.go`) | id to session map, id generator, count | `Add`, `Remove`, `GetSession`, `SessionNum` | sessions |
| Event queue (`service/eventqueue.go`) | channel of callbacks, update module | `StartQueue`, `PostCb`, `StopQueue`, `Wait` | everybody posts |
| Time wheel (`util/timewheel.go`) | slots, key map, index, last time | `AddTask`, `RemoveTask`, `Update` | driven by the update module |
| Discovery (`service/etcdreg.go`, `etcddesc.go`, `multinode.go`) | keys in etcd, nodes by id | register, unregister, watch | starts and stops connectors |
| Framing and ciphers (`rpc/`) | the AES keys and limits of two sessions, the bytes under way | `SendMessage`, `ReadMessage` | sessions |
| Message registry (`codec.go`) | three maps: by id, type and name | `RegisterMessageInfo`, lookups | framing |
| websocket nodes (`socket/websocket/`) | as the TCP ones | as the TCP ones, with `WSMessageProcessor` as reader and writer | as the TCP ones |
| SQL builder (`socket/mysql/sqler.go`) | clauses put in so far | a call per clause, a call per kind of statement, `Reset` | `sql_api.go` |
| Timers (`util/timer.go`) | time stamp, duration, flags | `IsExpired`, `Cancel`, `Suspend`, `Resume`, `Reset`; calendar functions | game logic |
| Word filter (`util/dfa_filter.go`) | a trie | insert, `IsMatch`, `HandleWord` | game logic |
| Log files (`util/loghelper.go`) | the open file, its index | `InitLog`, `writeLog` | everybody |
| HTTP nodes, database drivers, configuration, helpers | see `PROJECT.json` | | |

The behaviours that are hard:

* *check, then act* without a lock: `Send` reads `closeInt` and the length and
  then pushes; `Stop` reads `runState` and then adds to a WaitGroup; the id
  generator reads and writes two fields;
* WaitGroups whose `Add` and `Done` are in different goroutines, with a flag
  that decides whether `Done` is called;
* one session object reused for every connection of a connector;
* a bounded channel whose consumer may be gone, or is the producer itself;
* callbacks that call back into the structure that is being walked;
* panics that are recovered half way;
* a lease that runs out behind a network failure, and events of the key it held
  that arrive late, twice or in the wrong order;
* errors that are logged and then set to nil;
* unsigned arithmetic and 16-bit lengths at their limits;
* objects used again with what an earlier use left in them.

`PROJECT.json` lists the hazards with their lines and the properties aimed at
them.

## 2. Modules

| Module | Models | Composes |
|---|---|---|
| `Session` | `tcpSession` and its goroutines | |
| `SessionProofs`, `ConnectorProofs`, `WebSocketProofs`, `AcceptorProofs`, `ManagerProofs`, `DiscoveryProofs` | theorems about one module each | `ConnectorProofs` and `WebSocketProofs` extend `SessionProofs` |
| `NodeProofs` | theorems about `Registry`, `EventQueue` and `Framing` | extends them |
| `UtilProofs` | theorems about `LogFile`, `Timer`, `TimeWheel`, `Sqler` and `WordFilter` | extends them |
| `Connector` | `tcpConnector` | extends `Session`: the steps of the owner are taken by `connect` |
| `Acceptor` | `tcpAcceptor`, and `tcpWebSocketAcceptor` as its second `kind` | |
| `WebSocket` | `wsConnector` and `wsSession` | extends `Session` |
| `Framing` | `SendMessage` and `ReadMessage` at the two ends of a stream | |
| `Discovery` | registration and discovery over etcd | |
| `SessionManager` | `NetSessionManager` | |
| `Executor` | what an event queue promises | |
| `EventQueue` | `eventQueue` | implements `Executor` |
| `TimeWheel` | `TimeWheel` | |
| `Selection` | the loop that keeps some elements of a sequence | |
| `Sqler`, `WordFilter`, `Registry`, `Timer`, `LogFile` | one file of the library each | the first two extend `Selection` |
| `Library` | | these five, `SessionManager` and `EventQueue`, side by side |
| `MC*` | constants for TLC | |

Every operator named `Bug...` is a deliberately wrong variant of the definition
that follows it; it is used by no specification.  It documents which mistake in
the code the properties would notice.

### Session

One action is one step of one goroutine between two points where another can
run: an atomic load or swap, a channel operation, a call on the connection, a
WaitGroup operation.  `recv`, `send` and `closer` say where `RunRecv`, `RunSend`
and the goroutine of `Start` are, `caller` and `close` where each caller of
`Send` and `Close` is.  A message is its sender; `Nil` is the nil that ends
`RunSend`.  `chan` distinguishes the nil channel before the first `Start`, an
open and a closed one: a push blocks for ever on the first and panics on the
last.

`SetConn`, `StartReset`, `StartSpawn` and `ClearConn` belong to the owner of the
session.  `Session` by itself lets an owner act whenever the previous
incarnation is over; `Connector` shows that `connect` does exactly that
(`OwnerReady`).  An acceptor's session is started once (`IsConnector = FALSE`).

`SendQueueMaxLen` is the package variable `Send` compares with, `OwnMaxLen` the
field that sizes the channel (2000 and 2000, or 2000 and 200 on a node named
"gate").

Not in the model: the contents of messages, the accessors of keys and options,
and the time the event queue needs (`ProcEvent` is one step, so a full event
queue is not seen from a session).

### Connector

`connect` is split at every read of the flag, every WaitGroup operation and at
the two steps of `Start` of the session; `Stop` at each of its four statements,
`sess.Close` in its two steps.  `Crashed` is a WaitGroup below zero: Go panics,
and nothing recovers a panic in these goroutines.  A connector is started again
only when its connect goroutine is gone.

### Acceptor

The same for `tcpAccept` and `Stop`.  `Accept` returns a connection, a temporary
error, a fatal one, or the error of a closed listener; the flag is looked at
afterwards.  A session is what its manager sees of it.

The websocket acceptor differs in its start (`WsStart`: a flag that is up leaves the
listener open and nobody serving it), in its handlers, which go on whether or not
the acceptor still runs (`HandleFunc`), and in `CloseAllSession`, which really closes
the sessions; its goroutine ends as `tcpAccept` does (`LoopExit` to `LoopDone`).

### WebSocket

The goroutines of `wsSession` are those of `tcpSession`, so `WebSocket` extends
`Session` and takes its steps; what differs is what a read and a write report.
`WSMessageProcessor.OnRecvMsg` turns a failed read into no message and no error
(`ReadFails`): `RunRecv` posts an event without a message and reads again, until
gorilla/websocket panics at the thousandth failed read (`FailLimit`) and the reader is
gone without a Done.  `OnSendMsg` writes only on a node named "wsclient" and drops the
error of the write (`WsWrite`).  `Stop` adds, closes and raises its flag in this order,
and nothing ever takes `StopWg` back: there is no action that returns from Stop.

### Framing

The stream is a sequence of cells, one per header and one per unit of a body; a cell
knows its message and its encryption.  A header gives the length modulo `W` (2^16)
because its field is two bytes wide, the body has its full length: that is how a
frame and its field can disagree.  A body cell taken for a header is any header of
`Garbage`.  `Decode` allows every outcome of bytes decrypted with the wrong key: an
error, a panic, nonsense.  `AESCtrEncrypt` calls `AESCbcEncrypt`, hence the padding, and
uses the key as IV, so that only keys of 16 bytes work (`BadKeys`).  `MsgId` is the id cut
to its two bytes, by which the message is encrypted and decoded.
`rekeying` says whether `SetAES` is called while messages are under way.

### Discovery

etcd is external: a store with leases, and a watch that reports every change after it
was opened, in order.  A process is identified by its zone; two processes may have
the same.  `RegisterWithTimeOut` has three outcomes, because a Put may succeed for etcd
and fail for its caller, who then starts no keepalive.  `Cut` and `Heal` are the
network, `Crash` the end of a process.  `deletes` counts the deletions a process's
`WatchSelf` has yet to handle.  `DiscoveryService` opens its watch, lists, creates a node
for everything listed and then handles events; a node to be replaced is taken out,
stopped (`dpc = "stop"` or `"relist"` while Stop waits) and created anew.  A description has
the second of its registration, the process (`host`, for its address) and the revision.
When the listing fails the loop dies of the answer it did not get (`ListFails`).
`GenDiscoveryServicePrefix` keeps what a prefix of decimal digits matches (`Leading`).

### Sqler

A statement is a record of its clauses, the empty sequence an error.  The builder has
the fields of the code; `calls` is history.  Conditions are kept as their relation, the
number of their arguments and whether they parse, because `parseWhere` decides on
those.  All calls of the builder and the page with total of `SqlSelectCount` are
actions.  `Selection` is the loop of `parseWhere`: it goes through a sequence and keeps
the elements at some places, in order.  It is a recursive function, and `With` puts two
records together, because the prover knows neither `SelectSeq` nor `@@` of `TLC`.

### WordFilter, Registry, Timer, LogFile

`WordFilter`: the trie is the set of its paths and the set of those that end a word;
`Turn` is one turn of the loop of `searcSentence`, `Loop` the state after so many turns, a
recursive function, and what `SearcSentence` returns is compared with `Occurs`.
`Registry`: the three maps, with a registration that stops, as the panic does, after
the map it fails on.  `Timer`: the fields of `baseTimer` in arithmetic modulo `W`, both
kinds of timer in one record, and the calendar in hours, with five o'clock as the
boundary of days and weeks; `GetLatestMonth5Hour` has two hours, because the code reads
the clock twice; `leftover` is history, what was left when a timer was suspended.  `LogFile`:
which file a line goes to, under the lock, and the write after it; a goroutine that
holds a logger whose file was closed loses its line; `newLogger` may panic with the lock
held (`NewLoggerPanics`), and a size may not be had (`StatFails`).

These, the session manager and the event queue share no state, so `Library` runs one of
them per behaviour (`part`).

### SessionManager

Ids are numbers with the field widths of the code (`Uid`).  `AddBegin`, `GenSeq`
and `GenUid` are the parts of `genSessionId` between which another goroutine can
run; `AddLoad` and `AddStore` the rest of `Add`; `RemoveSession` is `Remove`.  The clock counts seconds and
may be set back.

### EventQueue and Executor

`Executor` is the promise: callbacks finish one at a time in the order in which
they were accepted; a stop lets those before it finish and none after it.
`EventQueue` is the loop with its channel, ticker, throttled update and recovered
panics, and the startup time it waits for before it begins (`StartupTime`: stored, stored as
0, or never, when etcd fails).  The update module's call is one step that does not block.
`posted` is history, the callbacks accepted, in order.  `Exec` is the refinement mapping:
`pending` is `Waiting`, what was posted and has not finished.

### TimeWheel

`Update` is taken apart into its loop (`LoopTurn`, `LoopReturn`) and the walk over
one slot (`WalkCircle`, `WalkFire`, `CallbackEnd`, `WalkEnd`), because callbacks run
in the middle of it and may add and remove tasks, their own too.  An element has no
name of its own: the walk knows it by its place (`pos`), and a place of 0 says that its
own callback has removed it (`Unlinked`), after which `item.Next()` is nil.  `RemoveTask`
takes the first element of its slot with that key.  `readds` counts the times a callback
removed its own task and added it again; update then deletes the key from the map while
the task stays in a list.  `age` is history: how many turns and ms a task has been in the
wheel.

## 3. Runs

Each run takes two and a half minutes or less on two workers.  The type invariant of
a module other than `Session` is the first conjunct of one of its invariants.

| Run | Checks | Instance |
|---|---|---|
| `session` | `TypeOK`, `ClosedWhenUnused`, `RemovedIsOver`, `ConnWhileRunning`, `ClosedConnEnds`, `ReadErrorEnds` under `FairSpec` | a sender and a heartbeat that reach the limit and fill the channel, so that they and the nil of `RunRecv` block, a closer, two starts, panics |
| `connector` | `OwnerReady`, `EventsPaired`, `WaitedStopIsOver`, `NeverBlocks`, `StopReturns` under `LeavingSpec` | reconnecting, two launches, three connections, a heartbeat, a closer and a Stop, panics |
| `acceptor` | `FlagBelongsToStop`, `StopWgCounts`, `ListenerServed`, `StopReturns` under `FairSpec` | both kinds, two connections, two launches, two stops one after the other, with and without Start during Stop and fatal errors of Accept |
| `wheel` | `IndexAgrees`, `OnTime`, `NeverEarly`, `UpdateReturns` under `MCSpec` | two slots of 2 ms, a repeated task of a whole rotation, one shorter than an interval, one of an interval without a key; re-entrant callbacks, seven ms, a clock set back once, one task removed and added again by its own callback |
| `discovery` | `NeverForgotten`, `PutBack`, `Converged`, `OnlyForNewer` under `DiscoverySpec` | two processes of one identity in zone 10, the watcher of zone 1, leases of one second, four changes |
| `websocket` | `WsOwnerReady`, `NeverNoticed`, `SpinEnds` under `WsSpec` | reconnecting, two starts, a sender, a closer and a Stop, panics, three failed reads |
| `framing` | `InOrder`, `Intact`, `AllRead` under `FramingSpec` | three of eight messages, shorter, equal and longer than the limits, lengths and ids modulo 8, limits 4, 7 and 9, a key, one of the wrong length or none |
| `library` | `SaysWhatWasAsked`, `FilterAgrees`, `SentIsReceived`, `CalendarAgrees`, `SizeBounded`, `NeverReused`, `Findable`, `UpdateThrottled`, `IsExecutor`, `Ends`, `TimerOnTime` under `LibrarySpec` | three calls on a builder between two Resets; every sentence of four of three runes and a blank against any of five words that begin and end like each other; three types of which two share a name; three sessions, two seconds, two ids per second, two keys of which one does not fit, a clock that is set back; four callbacks in a channel of four, one posts another, two panic, two stops, five ticks; periods of 1, 3 and 30 on six ms of a clock modulo 64; eight days; two goroutines and six lines in files of two |
| `session_late_send`, `connector_done`, `discovery_host`, `timer_resume` | one property each, expected to be violated | see below |

Some variables are not the program's but say in which environment a behaviour
takes place, so that one run covers several and a property can name the one it
needs: `kind`, `concurrentStart` and `fatalErrors` of `Acceptor` are chosen at the start
(`Calm` is neither of the last two, and the counting properties are stated for it);
so are the limits and `rekeying` of `Framing` (`Compatible` names the limits that agree)
and `part` of `Library`; `setBack` of
`SessionManager` records that the clock went back; the fields of `age` in
`TimeWheel` record how a task got into the wheel and how often the walk of its
slot was cut short.

Bounds.  Two starts are enough for a session to meet the leftovers of an earlier
incarnation: a session that has ended looks like one that was never started except
for its closed channel, its `closeInt` and the callers still under way, all of
which survive one restart.  A limit of 1, 2 or 4 stands for
200 and 2000: what matters is its order with the capacity and that a sender can
send more than both.  Three sessions are one more than the ids of a second, and two can
have the id 0.  Two slots suffice for the wheel because positions are only
compared modulo the number of slots; the delays are less than an interval, an interval
and a whole rotation, and the time is enough for every task to fire, be put back and
fire again.  Discovery has one zone because
keys of different zones never meet; four changes are enough for a registration, its
loss, another one and its loss, which covers every order of listing and events.
Three messages put one before and one behind a frame that goes wrong.  The builder
keeps no counters, so that three calls put any two clauses, or one twice, before
any statement, and Reset carries what is left over into the next three.  Eight days
hold one end of a week and two first days of a month.

### Fairness

* `Session!Fairness`: the Go scheduler runs a goroutine that can run.  A read or a
  write is only sure to return when the connection is closed.  `DeadlineSpec`
  adds that writes return, which `SetSocketDeadline` makes true; `ReadErrorEnds` is stated under
  that condition (`WriteDeadline`).  Both liveness properties except a session one of
  whose goroutines panicked (`Dead`): it never calls Done and the session stays; and
  one whose reader waits for room in a full channel that the writer has left (`Stuck`).
* `Connector!PeersLeave`: in addition no peer keeps a connection for ever (a read
  deadline, or a peer that leaves).  It is needed: a Stop that comes between the
  check of the flag and the start of a new connection waits for that connection
  to end by itself, as the comment at `service/etcdreg.go:244-249` describes.
* `Acceptor!Fairness`: `Accept` returns when the listener is closed.
* `Library!LibraryFairness`, for the event queue: `select` between a ready channel and a ready ticker is a
  random choice, hence strong fairness of `Take`.  Callbacks return.  `Ends` names
  the one exception (`SelfBlocked`): a callback that posts into a full channel stops
  its own loop for ever.  It is stated for loops whose startup time is known.
* `WebSocket!WsFairness`: as for the session; `Dial` returns, and a read returns on a
  connection that is closed or has already failed.  A write always returns, because
  its error is dropped.
* `Framing!FramingFairness`: the reader reads what is there.
* `Discovery!DiscoveryFairness`: time goes on and a process handles the deletions it is
  told of.  Nothing is assumed of etcd or of the network.
* `TimeWheel!WheelFairness`: an `Update` under way goes on; callbacks return.

### Disagreements between the code and what it says

Four have a run that is expected to fail; `PROJECT.json` quotes the comment
concerned.

| Run | What happens |
|---|---|
| `session_late_send` | `Send` passes its check, the session ends and closes its channel, the push panics |
| `connector_done` | `connect` sees the flag before Stop has added to `StopWg`: negative WaitGroup |
| `discovery_host` | two processes of one id register in the same second: the discoverer stays with the address that was overwritten |
| `timer_resume` | what Suspend keeps wraps around: a resumed timer expires at the next poll, whatever was left |

`session_late_send` starts its session once.  The same panic between `StartReset` and
`StartSpawn`, where a reopened session still has its closed channel, is in the model but
is not what that run shows.

The modules show more of them, either with other constants or in states the
properties have to except:

* `Session` with `OwnMaxLen` below `SendQueueMaxLen`, as on a gate: `Send` fills a channel of
  201 under a limit of 2000; with the writer gone `RunRecv` waits for ever to queue its
  nil and SessionClosed is never posted, against `session.go:256` and `259`.
* `Session` with two senders (a heartbeat is a second one) and one place above the
  limit: both read the same length and take the place meant for the nil of `RunRecv`,
  with the same end (`session.go:145`).
* `Connector` with `Reconnect = FALSE`: `connect` ends between the check and the flag
  of Stop, which waits for ever although its connection is gone.
* `Connector`: a Stop before `connect` has set `runState` returns at once and leaves
  it dialling, against `etcdreg.go:225`.
* `Acceptor` with two `Stoppers`: both pass the check of `runState` and wait for two
  Dones; there is one.
* `Acceptor`: the call at `acceptor.go:94` goes to an empty `CloseAllSession` that
  hides the manager's, so Stop closes no session, against `acceptor.go:93`.
* `Acceptor` with `concurrentStart`: the accept goroutine may release a waiting Start
  while Stop has yet to close the listener; Stop then closes the new one and the new
  accept goroutine takes `StopWg` below zero.
* `SessionManager` with `Concurrent = TRUE`, or after the clock was set back: one id is
  built twice while its first session is alive, and Add panics.
* `SessionManager`: `Remove` counts down what `Add` no longer counts up
  (`sessionmanager.go:42` is commented out), so that SessionNum is never positive.
* `TimeWheel`: a callback that removes its own task ends the walk of its slot, and
  the tasks behind it fire a rotation late (`OnTime` allows exactly that).
* `TimeWheel`: a callback that removes its task and adds it again leaves it in the wheel
  without its key, because update deletes the key afterwards; RemoveTask does not find
  it, and it can be added a second time.  `IndexAgrees`, `OnTime` and `NeverEarly` say in full
  what holds until then (`readds = 0`).
* `TimeWheel` with a repeated task shorter than an interval, or two that add each other:
  each goes behind the end of the slot being walked, is met in the same walk, and Update
  never returns (`UpdateReturns` excepts exactly these and, after a task was added again as
  above, tasks of whole rotations, two elements of which share one count).
* `EventQueue`: when the startup time cannot be read, or is not a number and stored as 0, the
  loop waits for it for ever, and no StopQueue ends it.
* `WebSocket`: a connection that was closed or lost is never noticed (`NeverNoticed`
  states exactly that): no SessionClosed, no removal, no reconnection, and `connect`
  waits for ever.  Stop never returns, because the Done at `websocket/connector.go:118` is
  commented out.
* `Acceptor` of kind "ws": sessions closed by Stop are not removed, for the same reason.
* `Discovery`: the prefix of zone 1 finds zone 10 too; two processes of one identity can
  both register; a key deleted by `ETCDUnregister` is put back by the process's own
  `WatchSelf`; a Put that failed for its caller leaves a key that runs out, and one
  that runs out before the watch is opened is not written again (`pc = "lost"`).  A
  listing that fails is logged and its answer used: the process panics.
* `Framing` without `Compatible`: a frame longer than the reader's limit, or than 2^16, is
  logged, reported as no error, and its body read as headers.  A change of keys makes
  messages under way unreadable, and a reader without a key refuses them.
* `Sqler`: a condition of no or of more than three arguments is dropped without an error, and
  `UpdateBatch` drops all of them (`sqler.go:636-697`); `inc_fields` and `ignore` outlive Reset
  and, like the first aggregate, stay for later statements, so that a Sum after a Count
  selects the count again; rows of `InsertBatch` lose
  their columns (`sqler.go:309` asks whether a column is already there); an insert
  appends the conditions; `SqlSelectCount` with a builder that has a limit counts
  within that limit.
* `WordFilter`: words that begin inside the beginning of another, and words of one rune
  behind the first, are missed.
* `Registry`: a registration that fails on its type or its name has taken its id.
* `Timer`: `IsInSameWeek` (`timer.go:244`, not modelled) is true when the times are *not* in the
  same week; `GetLatestMonth5Hour`, called on the first just before five, answers five on
  the second when five passes between its two readings of the clock.
* `LogFile`: every line written to a file with an index leads back to the first file of
  the day, which grows without bound; a line whose logger is replaced between the
  unlock and the write is lost; a `newLogger` that panics leaves `logMu` locked, so that
  every later line waits for ever.

What the properties do not catch: that messages overtake SessionConnected (`EventsPaired`
allows it), a Stop that returns too early (`StopReturns` is about those that wait), limits
above 2^16 (`Compatible` excludes them), lines lost by the log, and the masked output of
the word filter.

## 4. Proofs

Theorems are about the specifications the runs check (of the parts of `Library`, each by
its own: `ManagerSpec`, `QueueSpec`, `RegistrySpec`, `LogSpec`, `TimerSpec`, `CalendarSpec`,
`SqlerSpec`, `FilterSpec`), without their bounds: any
number of goroutines, connections, messages, callbacks, tasks and processes, and any
capacity, limit, period and lease.  Each rests on an inductive invariant that says more
than the property; its conjuncts are named, and one lemma per action or goroutine shows
that it is kept.

| Module | Theorems | Inductive invariant |
|---|---|---|
| `SessionProofs` | `TypeOK`, `ClosedWhenUnused`, `RemovedIsOver`, `ConnWhileRunning`; `NeverBlocks` | `IInv`, and `Reserved` for the last |
| `ConnectorProofs` | the connector implements `Session`; `NeverBlocks`, `OwnerReady`, `EventsPaired`, `WaitedStopIsOver` | `ConnectorInv` |
| `WebSocketProofs` | `WsOwnerReady`, `NeverNoticed` | `WsInv` |
| `AcceptorProofs` | types, `FlagBelongsToStop`, `ListenerServed`, `StopWgCounts` | `AcceptorInv`, and `AloneInv` for the last |
| `ManagerProofs` | `Findable`, `NeverReused` | `FindInv`, `NameInv` |
| `DiscoveryProofs` | `NeverForgotten`, `Converged`, and the action property `OnlyForNewer` | `DiscoveryInv` |
| `NodeProofs` | `SentIsReceived`; `UpdateThrottled`, `EventQueue` implements `Executor`; `InOrder`, `Intact` | `RegistryInv`; `QueueInv`; `FramingInv` |
| `UtilProofs` | `SizeBounded`; the action property `TimerOnTime`; `CalendarAgrees`; `IndexAgrees`, `OnTime`, `NeverEarly`; `SaysWhatWasAsked`; `FilterAgrees` | `LogInv`; `TimerInv`; `CalendarInv`; `LooseInv`, `Regular`, `Timely`; `SqlerInv`; `FilterInv` |

**Session.**  `IInv` has the types; `WgCounts`, that `exitWg` counts the goroutines that
have not called Done (none of the properties says so, but without it the closing
goroutine could be past its wait while one still runs); `Stages`, which ties the
position of the closing goroutine to those of reader and writer, to the channel, the
connection and the registration; and `EventsOwed`, that every incarnation has posted
SessionClosed or will.  `Reserved`: the queue and the senders between the length check
and the push together never exceed the limit less one plus one per sender, and the nil
counts once; its proof counts a set of senders that grows and shrinks by one.

**Connector.**  Every step is a step of `Session` on the same variables or leaves them
alone (`ConnectorImplementsSession`), so that all of `SessionProofs` holds of a connector
too.  `LoopInv` adds where `connect` may be for every stage of its session
(`LoopWithSession`), what `wg` and `runState` are there (`LoopFlags`), and that `StopWg` is never
above the number of Stops that added to it, and equal to it as long as the first
`connect` runs (`StopCounts`).

**WebSocket.**  A read and a write report less than `Session` lets them, so this is no
implementation of `Session`; `IInv` is kept nevertheless.  `Failing`: once a read has failed
the reader reads on or is dead, and the goroutine that waits for it waits for ever.

**Acceptor.**  `Answered` counts Adds against the one Done; `FlagRaised` and
`ListenerOpen` tie the flag and the listener to the callers of Stop that are past
raising and closing.  All three hold for `Calm` environments, any number of callers of
Stop included; that StopWg is balanced when Stop returns needs a single one (`Alone`).

**SessionManager.**  `MapAgrees`: the map holds exactly the sessions between Add and
Remove, and one about to be stored found its id free.  `Growing`: every id was made of a
second and a number not later than the generator's, and one about to be made is new;
`UidParts` shows that an id determines both.

**Discovery.**  The watcher knows the store by three things, and `Known` says how
they add up at each stage: the last event queued for a zone is what the store has
(`QueueCurrent`); a registration nothing is queued for is among what is yet to be listed
or has its node (`Listing`), and in the loop has its node or is the one that waits for the
old one's Stop (`Watched`).  `Revisions` orders the events, without which a late one could
replace a newer node.

**Registry.**  Each of the three maps is a function, the one by type holds nothing that
is not in the one by id, and the one by name nothing that is not in the one by type.

**Event queue.**  `Only`, `Complete` and `Ordered`: the channel without its nils is what was
posted and not taken, in that order; `Stops`: the first nil stands between what was
posted before the first stop and what came later (`Fence`); `Throttle` counts updates
by whole periods.  The mapping takes
what was posted and has not finished for `pending`.

**Framing.**  A frame is where its reader looks for it because of something that is
not in the state: where each frame begins.  `FramingInv` says that there are positions
(`start`) and keys (`crypt`) by message, such that unread frames follow each other without
a gap (`Starts`), the cells between them are header and body of that message as far as
they were written (`Written`), and without rekeying the key is that of both sessions
(`Encrypted`).  `SendLays` extends the positions by one, `ReadLeaves` shifts them by what was
read, and a broken connection only shortens the stream.

**Log files.**  `Reached`: there is always an index left for the next line.  `Room`: what is
on its way to the file that is open is counted with its lines.  **Timer.**  `Stamped`: the time
stamp is when the period began; `Fits`: the clock and the period together do not wrap.  No
conjunct bounds what Suspend keeps, which does wrap; `timer_resume` shows what comes of
it.  **Calendar.**  The functions are compared with their definitions at every hour,
against every earlier one; for the month the earlier hour is the one the call began at and
the later one the second reading.

**Time wheel.**  `LooseInv` is what always holds: the walk's element stands at its place and
the slot the map names for a key has it.  `IndexInv` is more: a task is in one slot at
most, once, and where `timer` says, in every stage of a walk that callbacks change under
it; `TimeInv` adds `Beats`, that the turn in which a task will fire, by its position, circle
and the stage of the walk, is one it is due in, and `Slow`, that the wheel does not turn
faster than the clock.  Both are kept until a callback first adds its own removed task
again (`Regular` and `Timely` are the two under `readds = 0`).

**Loops over data.**  What a loop computes needs induction over its turns.  The
library's induction theorems take a predicate as a parameter, which the provers here
cannot instantiate; but a set of numbers can be one, and `LeastNumber` (well-foundedness
of `<`) gives `Induction` for sets.  `RecursionExists` puts the beginnings of a loop together
to a function on all numbers, so that a recursive definition is what it says
(`PositionsLoop`, `LoopTurns`).

**SQL builder.**  `Mirrors`: each field a clause is kept in holds the last argument, or all
arguments in order, of the calls for it since Reset.  `SaysAll`: the statements have the
clauses of the builder.  `Builders` and `Calls` are the types.  `GivenAppend` says that a call
adds itself to its own clause and to no other; `WhereAsked` that `parseWhere` keeps the same
places of the conditions as the property does of the calls.

**Word filter.**  `TrieInv`: each beginning of a path is a path and words end on paths.  The
invariant of the loop, `LoopInv`, holds after every turn: from `start` on the text is a path,
or `start` is the rune that did not fit; what was found lies before `start` and is right
(`Right`), and nothing before `start` was missed (`Complete`).  `AllDone` is the heart: when a
path ends, no word that begins at `start` goes on (`NoneBeyond`), so the longest so far is the
longest, and every place passed over is behind a path.

Assumptions, beyond finiteness and types of constants:

* `QueueFits` (`NeverBlocks`): `Cap >= SendQueueMaxLen + Cardinality(Senders)`, which holds for
  one sending goroutine on a node other than a gate;
* `~Concurrent` (`ManagerProofs`): one goroutine adds sessions; `Alone` (`StopWgCounts`): one
  goroutine stops an acceptor.  Section 3 says what happens without them;
* `SeqLimit <= 65535`, the width of its field, and `MaxTime < 1000` in `SessionManager`: the
  generator starts with a time in milliseconds, 1000 here, which no second reaches;
* `TimerAssumption`: the clock and a duration together do not reach 2^64, and there is a next
  month for every day;
* model values such as `None` and the names of errors differ from the values they are
  used beside.

Only model-checked: what needs fairness (`ClosedConnEnds`, `ReadErrorEnds`, both
`StopReturns`, `Ends`, `UpdateReturns`, `PutBack`, `SpinEnds`, `AllRead`).  Every invariant and
action property of the passing runs is proved.

## 5. Not modelled, and the plan

Modules to come:

1. `Node`: event queue and sessions of two processes together, with bounded event
   queues: who waits for whom; `syncrecv.go` as one of the two.
2. `SqlTx`: transactions that are committed, rolled back or closed twice
   (`sql_api_tx.go`, `sqlx_api_tx.go`) on connections of the pool.
3. `BitMap` against a reference definition.

Theorems to come: steps that only fairness hides now, as action properties (which
steps bring a Stop or a session nearer to its end).

Left out for good: ciphers and codecs as arithmetic on bytes, SQL as text, the
drivers and their pools, reading of configuration, HTTP handlers, helpers without
state, the second etcd of cross-zone servers (it repeats the steps of the first), and
platform socket options: they keep no state whose order matters.
