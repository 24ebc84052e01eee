------------------------------ MODULE Discovery ------------------------------
(***************************************************************************)
(* Registration and discovery through etcd (src/service/etcdreg.go): the   *)
(* processes that register themselves under a lease and watch their own    *)
(* key, and one process that watches the keys of a service and keeps a     *)
(* node, a connector to the registered address, for each of them.          *)
(*                                                                         *)
(* etcd itself is external.  A service id is abstracted to its zone: one   *)
(* service of the name that is looked for in every zone.  The value under  *)
(* a key is the RegTime and the address, which stands for the process,     *)
(* with the revision of the write.  Two processes may be configured with   *)
(* the same id.                                                            *)
(***************************************************************************)
EXTENDS Naturals, Sequences, FiniteSets

CONSTANTS
    Procs,        \* processes that register
    Zones,        \* zones, which stand for the service ids
    serviceZone,  \* the zone asked for, 0 for all
    None,         \* no value under a key, no node
    LeaseTTL,     \* seconds a lease outlives its last keepalive
    DebugMode,    \* the package variable of that name
    MaxTime,      \* bound: the clock
    MaxRev        \* bound: writes and deletions in the store

ASSUME DiscoveryAssumption ==
    /\ Zones \subseteq Nat \ {0} /\ serviceZone \in Nat
    /\ None \notin Procs \cup [reg : Nat, rev : Nat, host : Procs]
    /\ None \notin [zone : Zones, desc : [reg : Nat, rev : Nat, host : Procs]]
    /\ LeaseTTL \in Nat \ {0} /\ MaxTime \in Nat /\ MaxRev \in Nat
    /\ DebugMode \in BOOLEAN

VARIABLES
    now,       \* util.GetTimeSeconds
    idOf,      \* the configured id of each process
    store,     \* etcd: the value under the key of each id
    owner,     \* etcd: the process that keeps the lease of a key alive, if any
    until,     \* etcd: when the lease of a key ends, 0 while it is kept alive
    rev,       \* etcd: revision of the store
    pc,        \* where each process is in ETCDRegister and WatchSelf
    reg,       \* sd.RegTime of each process
    linked,    \* processes that reach etcd
    deletes,   \* DELETE events each WatchSelf has not handled yet
    events,    \* the watch channel of DiscoveryService
    dpc,       \* where DiscoveryService is
    listed,    \* the values its Get returned and that are not handled yet
    listRev,   \* the revision of that Get
    sd,        \* the description it handles while preNode.Stop runs
    node       \* multiNode: the description each node was created with

etcd == <<store, owner, until, rev>>
service == <<idOf, pc, reg, linked, deletes>>
discoverer == <<dpc, listed, listRev, sd, node>>
dvars == <<now, etcd, service, events, discoverer>>

ProcPC == {"off", "read", "free", "written", "failed", "up", "lost", "again",
           "down"}
DiscPC == {"off", "opened", "list", "relist", "loop", "stop", "dead"}
Desc == [reg : 0..MaxTime, rev : 1..MaxRev, host : Procs]

DiscoveryInit ==
    /\ now = 0 /\ idOf \in [Procs -> Zones]
    /\ store = [z \in Zones |-> None] /\ until = [z \in Zones |-> 0]
    /\ owner = [z \in Zones |-> None] /\ rev = 0
    /\ pc = [p \in Procs |-> "off"] /\ reg = [p \in Procs |-> 0]
    /\ linked = Procs /\ deletes = [p \in Procs |-> 0]
    /\ events = << >>
    /\ dpc = "off" /\ listed = {} /\ listRev = 0 /\ sd = None
    /\ node = [z \in Zones |-> None]

\* What the first digits of z can be.
Leading[z \in Nat] == {z} \cup IF z < 10 THEN {} ELSE Leading[z \div 10]

\* "server/name#zone" is compared as a prefix: it also matches every zone
\* whose decimal digits begin with those of the zone asked for.
GenDiscoveryServicePrefix(z) == serviceZone = 0 \/ serviceZone \in Leading[z]

-----------------------------------------------------------------------------
(* etcd.                                                                    *)

Tick ==
    /\ now < MaxTime
    /\ now' = now + 1
    /\ UNCHANGED <<etcd, service, events, discoverer>>

\* A change is queued for the watcher of the service, if it watches already.
Publish(z, d) ==
    events' = IF dpc # "off" /\ GenDiscoveryServicePrefix(z)
              THEN Append(events, [zone |-> z, desc |-> d])
              ELSE events

\* A write under a lease that is kept alive, or not.
Put(p, kept) ==
    LET z == idOf[p]
        d == [reg |-> reg[p], rev |-> rev + 1, host |-> p]
    IN  /\ rev < MaxRev /\ rev' = rev + 1
        /\ store' = [store EXCEPT ![z] = d]
        /\ owner' = [owner EXCEPT ![z] = IF kept THEN p ELSE None]
        /\ until' = [until EXCEPT ![z] = IF kept THEN 0 ELSE now + LeaseTTL]
        /\ Publish(z, d)

\* The processes WatchSelf of which watches this key.
Watching(z) == {p \in Procs : idOf[p] = z /\ pc[p] \in {"up", "lost", "again"}}

Delete(z) ==
    /\ store[z] # None
    /\ rev < MaxRev /\ rev' = rev + 1
    /\ store' = [store EXCEPT ![z] = None]
    /\ owner' = [owner EXCEPT ![z] = None]
    /\ until' = [until EXCEPT ![z] = 0]
    /\ deletes' = [p \in Procs |->
                     IF p \in Watching(z) THEN deletes[p] + 1 ELSE deletes[p]]
    /\ Publish(z, None)

\* A lease ran out.
Expire(z) ==
    /\ until[z] # 0 /\ until[z] <= now
    /\ Delete(z)
    /\ UNCHANGED <<now, idOf, pc, reg, linked, discoverer>>

\* The keepalives of p stop.
Unkept(p) ==
    until' = [z \in Zones |->
                IF owner[z] = p /\ until[z] = 0 THEN now + LeaseTTL
                ELSE until[z]]

\* The network between p and etcd fails while p is only watching; before
\* that a failure shows as a Put that fails or a panic ...
Cut(p) ==
    /\ p \in linked /\ pc[p] \in {"up", "lost", "again"}
    /\ linked' = linked \ {p}
    /\ Unkept(p)
    /\ UNCHANGED <<now, store, owner, rev, idOf, pc, reg, deletes, events, discoverer>>

\* ... and comes back; a lease that has not run out is kept alive again.
Heal(p) ==
    /\ p \in Procs \ linked
    /\ linked' = linked \cup {p}
    /\ until' = [z \in Zones |->
                   IF owner[z] = p THEN 0 ELSE until[z]]
    /\ UNCHANGED <<now, store, owner, rev, idOf, pc, reg, deletes, events, discoverer>>

-----------------------------------------------------------------------------
(* A process that registers.                                                *)

ProcGoto(p, to) ==
    /\ pc' = [pc EXCEPT ![p] = to]
    /\ UNCHANGED <<now, idOf, linked, discoverer>>

\* ETCDRegister builds the description.
RegisterBegin(p) ==
    /\ pc[p] = "off"
    /\ reg' = [reg EXCEPT ![p] = now]
    /\ ProcGoto(p, "read") /\ UNCHANGED <<etcd, deletes, events>>

\* EtcdKV.Get: a process with the same key panics.
RegisterGet(p) ==
    /\ pc[p] = "read"
    /\ ProcGoto(p, IF store[idOf[p]] = None THEN "free" ELSE "down")
    /\ UNCHANGED <<etcd, reg, deletes, events>>

\* RegisterWithTimeOut: Grant, Put and KeepAlive.  The Put may fail, or fail
\* for the caller alone, who then starts no keepalive.
RegisterWithTimeOut(p, ok, bad) ==
    /\ \/ Put(p, TRUE) /\ p \in linked /\ ProcGoto(p, ok)
       \/ Put(p, FALSE) /\ ProcGoto(p, ok)
       \/ ProcGoto(p, bad) /\ UNCHANGED <<etcd, events>>
    /\ UNCHANGED <<reg, deletes>>

RegisterPut(p) ==
    /\ pc[p] = "free"
    /\ RegisterWithTimeOut(p, "written", "failed")

\* WatchSelf sees what happens from now on, also when nothing was written.
WatchSelf(p) ==
    /\ pc[p] \in {"written", "failed"} /\ ~DebugMode
    /\ ProcGoto(p, IF store[idOf[p]] = None THEN "lost" ELSE "up")
    /\ UNCHANGED <<etcd, reg, deletes, events>>

\* Mutant: the new time is taken, the registration forgotten.
BugSelfDeleted(p) ==
    /\ deletes[p] > 0 /\ p \in linked /\ pc[p] \in {"up", "lost"}
    /\ deletes' = [deletes EXCEPT ![p] = @ - 1]
    /\ reg' = [reg EXCEPT ![p] = now]
    /\ ProcGoto(p, "up") /\ UNCHANGED <<etcd, events>>

\* WatchSelf is told that its key was deleted, by a lease that ran out, by
\* ETCDUnregister or by another process of the same id.
SelfDeleted(p) ==
    /\ deletes[p] > 0 /\ p \in linked /\ pc[p] \in {"up", "lost"}
    /\ deletes' = [deletes EXCEPT ![p] = @ - 1]
    /\ reg' = [reg EXCEPT ![p] = now]
    /\ ProcGoto(p, "again") /\ UNCHANGED <<etcd, events>>

RegisterAgain(p) ==
    /\ pc[p] = "again"
    /\ RegisterWithTimeOut(p, "up", "lost")

\* The process goes on running, and so does its WatchSelf.
ETCDUnregister(p) ==
    /\ pc[p] \in {"up", "lost"} /\ p \in linked
    /\ Delete(idOf[p])
    /\ UNCHANGED <<now, idOf, pc, reg, linked, discoverer>>

\* The process dies; its lease runs out later.  The process that takes its
\* place is another one with the same id.
Crash(p) ==
    /\ pc[p] \notin {"off", "down"}
    /\ deletes' = [deletes EXCEPT ![p] = 0]
    /\ reg' = [reg EXCEPT ![p] = 0]
    /\ linked' = linked \cup {p}
    /\ Unkept(p)
    /\ pc' = [pc EXCEPT ![p] = "down"]
    /\ UNCHANGED <<now, idOf, store, owner, rev, events, discoverer>>

-----------------------------------------------------------------------------
(* DiscoveryService.                                                        *)

DiscGoto(to) == dpc' = to /\ UNCHANGED <<now, etcd, service>>

\* EtcdCli.Watch, before the goroutine starts.
WatchOpen ==
    /\ dpc = "off"
    /\ DiscGoto("opened") /\ UNCHANGED <<events, listed, listRev, sd, node>>

Found == {z \in Zones : GenDiscoveryServicePrefix(z) /\ store[z] # None}

\* EtcdKV.Get of what is already there.
List ==
    /\ dpc = "opened"
    /\ listed' = {[zone |-> z, desc |-> store[z]] : z \in Found}
    /\ listRev' = rev
    /\ DiscGoto("list") /\ UNCHANGED <<events, sd, node>>

\* When that Get fails this is only logged; the answer is used nevertheless, and
\* the process panics.
ListFails ==
    /\ dpc = "opened"
    /\ DiscGoto("dead") /\ UNCHANGED <<events, listed, listRev, sd, node>>

\* nodeCreator adds a node for the description.
Create(z, d) == node' = [node EXCEPT ![z] = d]

\* The node is taken out, and stopped before the new one is created.
Replace(z, d) ==
    /\ node' = [node EXCEPT ![z] = None]
    /\ sd' = [zone |-> z, desc |-> d]

ListNext ==
    /\ dpc = "list"
    /\ IF listed = {} THEN DiscGoto("loop") /\ UNCHANGED <<listed, sd, node>>
       ELSE \E e \in listed :
              /\ listed' = listed \ {e}
              /\ IF node[e.zone] = None
                 THEN Create(e.zone, e.desc) /\ DiscGoto("list") /\ UNCHANGED sd
                 ELSE Replace(e.zone, e.desc) /\ DiscGoto("relist")
    /\ UNCHANGED <<events, listRev>>

\* Mutant: a registration that is already known replaces its node.
BugEventPut(z, d) ==
    IF node[z] = None THEN Create(z, d) /\ DiscGoto("loop") /\ UNCHANGED sd
    ELSE IF DebugMode THEN DiscGoto("loop") /\ UNCHANGED <<node, sd>>
    ELSE Replace(z, d) /\ DiscGoto("stop")

\* Mutant: an existing node is always kept.
BugEventPutKeep(z, d) ==
    /\ node' = IF node[z] = None THEN [node EXCEPT ![z] = d] ELSE node
    /\ DiscGoto("loop") /\ UNCHANGED sd

\* A registration of the same second as the one that is known changes nothing,
\* nor does any in debug mode; another one replaces the node.
EventPut(z, d) ==
    IF node[z] = None THEN Create(z, d) /\ DiscGoto("loop") /\ UNCHANGED sd
    ELSE IF DebugMode \/ node[z].reg = d.reg
         THEN DiscGoto("loop") /\ UNCHANGED <<node, sd>>
    ELSE Replace(z, d) /\ DiscGoto("stop")

\* A deletion is only logged: the node stays and reconnects.
EventDelete(z) == DiscGoto("loop") /\ UNCHANGED <<node, sd>>

Event ==
    /\ dpc = "loop" /\ events # << >>
    /\ LET e == Head(events)
       IN  IF e.desc = None THEN EventDelete(e.zone) ELSE EventPut(e.zone, e.desc)
    /\ events' = Tail(events)
    /\ UNCHANGED <<listed, listRev>>

\* preNode.Stop returned.
Stopped ==
    /\ dpc \in {"stop", "relist"}
    /\ Create(sd.zone, sd.desc) /\ sd' = None
    /\ DiscGoto(IF dpc = "stop" THEN "loop" ELSE "list")
    /\ UNCHANGED <<events, listed, listRev>>

-----------------------------------------------------------------------------
Process(p) ==
    \/ RegisterBegin(p) \/ RegisterGet(p) \/ RegisterPut(p) \/ WatchSelf(p)
    \/ SelfDeleted(p) \/ RegisterAgain(p)
DiscoveryService == WatchOpen \/ List \/ ListFails \/ ListNext \/ Event \/ Stopped

DiscoveryNext ==
    \/ Tick
    \/ \E z \in Zones : Expire(z)
    \/ \E p \in Procs :
         \/ Process(p)
         \/ ETCDUnregister(p) \/ Crash(p) \/ Cut(p) \/ Heal(p)
    \/ DiscoveryService

\* A process that runs is scheduled, and time goes on.
DiscoveryFairness ==
    /\ WF_dvars(Tick)
    /\ \A p \in Procs : WF_dvars(SelfDeleted(p)) /\ WF_dvars(RegisterAgain(p))

DiscoverySpec == DiscoveryInit /\ [][DiscoveryNext]_dvars /\ DiscoveryFairness

-----------------------------------------------------------------------------
(* Properties.                                                              *)

DiscoveryTypeOK ==
    /\ now \in 0..MaxTime /\ idOf \in [Procs -> Zones]
    /\ store \in [Zones -> Desc \cup {None}]
    /\ owner \in [Zones -> Procs \cup {None}]
    /\ until \in [Zones -> 0..MaxTime + LeaseTTL] /\ rev \in 0..MaxRev
    /\ pc \in [Procs -> ProcPC] /\ reg \in [Procs -> 0..MaxTime]
    /\ linked \subseteq Procs /\ deletes \in [Procs -> 0..MaxRev]
    /\ events \in Seq([zone : Zones, desc : Desc \cup {None}])
    /\ dpc \in DiscPC /\ listRev \in 0..MaxRev
    /\ listed \subseteq [zone : Zones, desc : Desc]
    /\ sd \in [zone : Zones, desc : Desc] \cup {None}
    /\ node \in [Zones -> Desc \cup {None}]

\* A process whose registration succeeded and whose WatchSelf was in time
\* never loses its key unnoticed: the key is there, or the deletion waits to
\* be handled.  Without this a lease that ran out in a network failure would
\* take the service away for good.
NeverForgotten ==
    \A p \in Procs :
        pc[p] = "up" => store[idOf[p]] # None \/ deletes[p] > 0

\* Such a process puts its key back, unless it dies, is cut off again or the
\* new registration fails too.  (The last conjunct of the left side only
\* leaves out the end of the bounded revisions.)
PutBack ==
    \A p \in Procs :
        pc[p] = "up" /\ store[idOf[p]] = None
          ~> \/ store[idOf[p]] # None \/ pc[p] \in {"lost", "down"}
             \/ p \notin linked \/ rev = MaxRev

\* When DiscoveryService has handled everything it was told, it has a node
\* for every registered service it looks for, made from a registration of the
\* very second of the present one, although it opens the watch before it lists
\* what is there and so hears of some registrations twice and in the wrong
\* order.  Whose registration it was is the question of SameHost.
Converged ==
    /\ DiscoveryTypeOK
    /\ dpc = "loop" /\ events = << >> =>
          \A z \in Found :
              /\ node[z] # None
              /\ DebugMode \/ node[z].reg = store[z].reg

\* The node is a connector to the address that is registered now.  This is what
\* the comment in the handler of PUT promises of a node that is kept: "保证节点
\* ip和端口不变的情况下，否则需要启用移除老连接启用新连接".  Only the second of the
\* registration is compared, and two processes of one id may register in the
\* same.
SameHost ==
    dpc = "loop" /\ events = << >> =>
        \A z \in Found : node[z] # None => node[z].host = store[z].host

\* A node is given up only for another registration, and only for a newer
\* one once the watch has caught up with the listing.
OnlyForNewer ==
    [][\A z \in Zones :
         node[z] # None /\ node'[z] # node[z] =>
            /\ sd' # None /\ sd'.zone = z
            /\ sd'.desc.reg # node[z].reg
            /\ sd'.desc.rev > node[z].rev \/ sd'.desc.rev <= listRev]_dvars
=============================================================================
