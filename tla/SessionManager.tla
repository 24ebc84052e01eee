--------------------------- MODULE SessionManager ---------------------------
(***************************************************************************)
(* NetSessionManager (src/socket/sessionmanager.go): the map from id to    *)
(* session, and the generator that builds an id from the second, a         *)
(* sequence number within the second and the key of the server.            *)
(*                                                                         *)
(* Nothing protects lastTimeStamp and sequence.  A TCP acceptor and a      *)
(* connector add their sessions from one goroutine; the websocket acceptor *)
(* adds them from the goroutines of its HTTP server (Concurrent).  Ids are *)
(* numbers built with the field widths of the code.  sync.Map operations   *)
(* are atomic.                                                             *)
(***************************************************************************)
EXTENDS Integers, FiniteSets

CONSTANTS
    Sessions,    \* sessions ever added
    Concurrent,  \* Add is called from several goroutines
    Keys,        \* keys SetUuidCreateKey may be called with
    SeqLimit,    \* ids per second: 0xffff in the code
    MaxSecond    \* bound: the clock, in seconds

ASSUME ManagerAssumption ==
    /\ IsFiniteSet(Sessions)
    /\ Concurrent \in BOOLEAN
    /\ Keys \subseteq Nat
    /\ SeqLimit \in Nat /\ 0 < SeqLimit /\ SeqLimit <= 65535
    /\ MaxSecond \in Nat /\ 0 < MaxSecond /\ MaxSecond < 1000

VARIABLES
    genKey,         \* key of this server in its ids
    second,         \* time.Now().Unix()
    setBack,        \* history: the clock was set back
    lastTimeStamp,  \* second of the last id
    sequence,       \* ids given in that second
    sessionMap,     \* the map, as pairs <<id, session>>
    count,          \* what SessionNum returns
    id,             \* the id of each session
    now,            \* the second the goroutine adding a session read
    add             \* how far each session is through Add and Remove

managervars == <<genKey, second, setBack, lastTimeStamp, sequence, sessionMap, count, id, now, add>>

AddPC == {"new", "seq", "uid", "load", "store", "in", "out", "panicked"}
Under == {"seq", "uid", "load", "store", "panicked"}

\* NewNetSessionManager takes the first stamp in milliseconds, so that it
\* differs from every second.
ManagerInit ==
    /\ genKey = 0 /\ second = 1 /\ setBack = FALSE
    /\ lastTimeStamp = 1000 * second /\ sequence = 0
    /\ sessionMap = {} /\ count = 0
    /\ id = [s \in Sessions |-> 0]
    /\ now = [s \in Sessions |-> 0]
    /\ add = [s \in Sessions |-> "new"]

\* lastTimeStamp<<24 | (sequence&0xffff)<<8 | genKey&0xff
Uid(ts, seq, key) == ts * 16777216 + (seq % 65536) * 256 + (key % 256)

-----------------------------------------------------------------------------
AddGoto(s, step) == add' = [add EXCEPT ![s] = step] /\ UNCHANGED <<genKey, second, setBack>>

\* genSessionId reads the clock.
AddBegin(s) ==
    /\ add[s] = "new"
    /\ Concurrent \/ \A r \in Sessions : add[r] \notin Under
    /\ now' = [now EXCEPT ![s] = second]
    /\ AddGoto(s, "seq")
    /\ UNCHANGED <<lastTimeStamp, sequence, sessionMap, count, id>>

\* Mutant: a sequence above the limit starts over.
BugGenSeqLimit(s) ==
    /\ add[s] = "seq"
    /\ IF lastTimeStamp = now[s]
       THEN /\ sequence' = IF sequence = SeqLimit THEN 1 ELSE sequence + 1
            /\ UNCHANGED lastTimeStamp
       ELSE sequence' = 1 /\ lastTimeStamp' = now[s]
    /\ AddGoto(s, "uid")
    /\ UNCHANGED <<sessionMap, count, id, now>>

\* A key that does not fit gives id 0, and so does a sequence above the limit
\* (a goroutine that runs past it sets the id at once); else the sequence
\* goes on within the second and starts at 1 in a new one.
GenSeq(s) ==
    /\ add[s] = "seq"
    /\ \/ /\ genKey > 255
          /\ AddGoto(s, "load") /\ UNCHANGED <<lastTimeStamp, sequence>>
       \/ /\ genKey <= 255 /\ lastTimeStamp = now[s]
          /\ sequence' = sequence + 1 /\ UNCHANGED lastTimeStamp
          /\ AddGoto(s, IF sequence + 1 > SeqLimit THEN "load" ELSE "uid")
       \/ /\ genKey <= 255 /\ lastTimeStamp # now[s]
          /\ lastTimeStamp' = now[s] /\ sequence' = 1
          /\ AddGoto(s, "uid")
    /\ UNCHANGED <<sessionMap, count, id, now>>

\* The id is put together from the fields, read again.
GenUid(s) ==
    /\ add[s] = "uid"
    /\ id' = [id EXCEPT ![s] = Uid(lastTimeStamp, sequence, genKey)]
    /\ AddGoto(s, "load")
    /\ UNCHANGED <<lastTimeStamp, sequence, sessionMap, count, now>>

\* The keys of the map.
MapIds == {p[1] : p \in sessionMap}

\* Mutant: the map is not searched first.
BugAddLoad(s) ==
    /\ add[s] = "load"
    /\ AddGoto(s, "store")
    /\ UNCHANGED <<lastTimeStamp, sequence, sessionMap, count, id, now>>

\* sessionMap.Load finds the id taken: panic.
AddLoad(s) ==
    /\ add[s] = "load"
    /\ AddGoto(s, IF id[s] \in MapIds THEN "panicked" ELSE "store")
    /\ UNCHANGED <<lastTimeStamp, sequence, sessionMap, count, id, now>>

\* sessionMap.Store
AddStore(s) ==
    /\ add[s] = "store"
    /\ sessionMap' = {p \in sessionMap : p[1] # id[s]} \cup {<<id[s], s>>}
    /\ AddGoto(s, "in")
    /\ UNCHANGED <<lastTimeStamp, sequence, count, id, now>>

\* sessionMap.Delete(s.ID()), the user context cleared, count - 1; Add never
\* counts up.
RemoveSession(s) ==
    /\ add[s] = "in"
    /\ sessionMap' = {p \in sessionMap : p[1] # id[s]}
    /\ count' = count - 1
    /\ AddGoto(s, "out")
    /\ UNCHANGED <<lastTimeStamp, sequence, id, now>>

\* The wall clock goes on, or is set back.
SecondPass ==
    /\ \/ second < MaxSecond /\ second' = second + 1 /\ UNCHANGED setBack
       \/ second > 1 /\ second' = second - 1 /\ setBack' = TRUE
    /\ UNCHANGED <<genKey, lastTimeStamp, sequence, sessionMap, count, id, now, add>>

\* SetUuidCreateKey stores the key of the server.
SetUuidCreateKey(k) ==
    /\ genKey' = k
    /\ UNCHANGED <<second, setBack, lastTimeStamp, sequence, sessionMap, count, id, now, add>>

-----------------------------------------------------------------------------
ManagerNext ==
    \/ SecondPass
    \/ \E k \in Keys : SetUuidCreateKey(k)
    \/ \E s \in Sessions :
          \/ AddBegin(s) \/ GenSeq(s) \/ GenUid(s) \/ AddLoad(s) \/ AddStore(s)
          \/ RemoveSession(s)

ManagerSpec == ManagerInit /\ [][ManagerNext]_managervars

-----------------------------------------------------------------------------
(* Properties.                                                              *)

ManagerTypeOK ==
    /\ genKey \in Nat /\ second \in 1..MaxSecond /\ setBack \in BOOLEAN
    /\ lastTimeStamp \in Nat /\ sequence \in Nat
    /\ sessionMap \in SUBSET (Nat \X Sessions)
    /\ count \in -Cardinality(Sessions)..0
    /\ id \in [Sessions -> Nat]
    /\ now \in [Sessions -> Nat]
    /\ add \in [Sessions -> AddPC]

\* Sessions that have their id.
Named == {s \in Sessions : add[s] \in {"load", "store", "in", "out", "panicked"}}

\* Two sessions never get the same id, not even after the first is removed;
\* only 0, which stands for "no id left in this second", is given again.
\* genSessionId promises it for one adding goroutine and a clock that is not
\* set back, also across seconds and at the limit of the sequence.
NeverReused ==
    ~setBack => \A r, s \in Named : r # s /\ id[r] = id[s] => id[r] = 0

\* GetSession finds every session between its Add and its Remove under its
\* own id: no Add replaces it and no Remove of another takes it away, also
\* when the clock is set back and an id is built again.
Findable ==
    /\ ManagerTypeOK
    /\ \A s \in Sessions : add[s] = "in" => <<id[s], s>> \in sessionMap
=============================================================================
