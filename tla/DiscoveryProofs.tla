--------------------------- MODULE DiscoveryProofs ---------------------------
(***************************************************************************)
(* Proofs about Discovery for any number of processes and zones, any lease *)
(* and either debug mode.  The parts of the invariant say what the watcher *)
(* knows of the store: by its nodes, by what it has listed and by what is  *)
(* still queued for it.                                                    *)
(***************************************************************************)
EXTENDS Discovery, TLAPS

-----------------------------------------------------------------------------
(* The queue of the watcher.                                                *)

Entry == [zone : Zones, desc : Desc \cup {None}]

\* Nothing is queued for z.
Quiet(q, z) == \A i \in 1..Len(q) : q[i].zone # z

\* What is queued last for z, if anything, is d.
LastIs(q, z, d) ==
    \A i \in 1..Len(q) :
       q[i].zone = z /\ (\A j \in 1..Len(q) : j > i => q[j].zone # z)
         => q[i].desc = d

-----------------------------------------------------------------------------
(* The inductive invariant.                                                 *)

\* No deletion is queued that was not counted.
DeletesBounded == \A p \in Procs : deletes[p] <= rev

\* Before the watch is opened nothing is queued; before the listing there is
\* no node.
BeforeList ==
    /\ dpc = "off" => events = << >>
    /\ dpc \in {"off", "opened"} => listed = {} /\ \A z \in Zones : node[z] = None

\* The queue ends with the present value of every key it tells of.
QueueCurrent ==
    \A z \in Zones : GenDiscoveryServicePrefix(z) => LastIs(events, z, store[z])

\* During the listing: one entry for a zone, which has no node yet, and a
\* registration nothing is queued for is among the entries or has its node.
Listing ==
    dpc = "list" =>
      /\ \A e \in listed : node[e.zone] = None /\ e.desc.rev <= listRev
      /\ \A e, f \in listed : e.zone = f.zone => e = f
      /\ \A z \in Zones : node[z] # None => node[z].rev <= listRev
      /\ \A z \in Found :
           Quiet(events, z) =>
             node[z] = store[z] \/ [zone |-> z, desc |-> store[z]] \in listed

\* In the loop a registration nothing is queued for has its node, or is the
\* one that waits for preNode.Stop.
Watched ==
    dpc \in {"loop", "stop"} =>
      \A z \in Found :
        Quiet(events, z) =>
          \/ node[z] # None /\ (DebugMode \/ node[z].reg = store[z].reg)
          \/ dpc = "stop" /\ sd.zone = z /\ sd.desc.reg = store[z].reg

\* While preNode.Stop runs the zone has no node.  The listing never stops one.
Stopping ==
    /\ dpc = "stop" => sd # None /\ node[sd.zone] = None
    /\ dpc # "relist"

\* Every revision known is at most the present one.
RevsBounded ==
    /\ listRev <= rev
    /\ \A z \in Zones : store[z] # None => store[z].rev <= rev
    /\ \A z \in Zones : node[z] # None => node[z].rev <= rev
    /\ dpc = "stop" => sd.desc.rev <= rev
    /\ \A i \in 1..Len(events) : events[i].desc # None => events[i].desc.rev <= rev

\* The queue is in the order of the revisions.
QueueOrdered ==
    \A i, j \in 1..Len(events) :
       i < j /\ events[i].desc # None /\ events[j].desc # None =>
          events[i].desc.rev < events[j].desc.rev

\* What is queued is newer than d, or was already there to be listed.
Newer(i, d) == d.rev < events[i].desc.rev \/ events[i].desc.rev <= listRev

\* So it is with the node, or the description it waits for, that it replaces.
QueueNewer ==
    \A i \in 1..Len(events) :
       events[i].desc # None =>
         /\ node[events[i].zone] # None => Newer(i, node[events[i].zone])
         /\ dpc = "stop" /\ sd.zone = events[i].zone => Newer(i, sd.desc)

Revisions == RevsBounded /\ QueueOrdered /\ QueueNewer

Known == BeforeList /\ QueueCurrent /\ Listing /\ Watched /\ Stopping /\ Revisions

DiscoveryInv == DiscoveryTypeOK /\ DeletesBounded /\ NeverForgotten /\ Known

-----------------------------------------------------------------------------
(* Sequences: what Append and Tail do to a queue.                           *)

\* A change of z is now what is queued last for z.
LEMMA AppendSame ==
    ASSUME NEW q \in Seq(Entry), NEW z \in Zones, NEW d \in Desc \cup {None}
    PROVE /\ LastIs(Append(q, [zone |-> z, desc |-> d]), z, d)
          /\ ~Quiet(Append(q, [zone |-> z, desc |-> d]), z)
  <1> DEFINE e == [zone |-> z, desc |-> d]
             r == Append(q, e)
  <1>1. e \in Entry
    BY DEF Entry
  <1>2. /\ Len(r) = Len(q) + 1 /\ Len(q) \in Nat /\ r[Len(q) + 1] = e
        /\ \A i \in 1..Len(q) : r[i] = q[i]
    BY <1>1
  <1> HIDE DEF r
  <1>3. r[Len(r)].zone = z /\ r[Len(r)].desc = d /\ Len(r) \in 1..Len(r)
    BY <1>2
  <1>4. LastIs(r, z, d)
    BY <1>2, <1>3 DEF LastIs
  <1>5. ~Quiet(r, z)
    BY <1>2, <1>3 DEF Quiet
  <1> QED BY <1>4, <1>5 DEF r

\* A change of another zone leaves what is queued for y.
LEMMA AppendOther ==
    ASSUME NEW q \in Seq(Entry), NEW e \in Entry, NEW y \in Zones, e.zone # y, NEW d
    PROVE /\ LastIs(q, y, d) => LastIs(Append(q, e), y, d)
          /\ Quiet(Append(q, e), y) => Quiet(q, y)
  <1> DEFINE r == Append(q, e)
  <1>1. /\ Len(r) = Len(q) + 1 /\ Len(q) \in Nat /\ r[Len(q) + 1] = e
        /\ \A i \in 1..Len(q) : r[i] = q[i]
    OBVIOUS
  <1> HIDE DEF r
  <1>2. LastIs(q, y, d) => LastIs(r, y, d)
    BY <1>1 DEF LastIs
  <1>3. Quiet(r, y) => Quiet(q, y)
    BY <1>1 DEF Quiet
  <1> QED BY <1>2, <1>3 DEF r

\* Taking the first of the queue: what is last for y stays last, and when
\* nothing is left for y, either it was the last or there was none.
LEMMA TailLast ==
    ASSUME NEW q \in Seq(Entry), q # << >>, NEW y \in Zones, NEW d, LastIs(q, y, d)
    PROVE /\ LastIs(Tail(q), y, d)
          /\ Quiet(Tail(q), y) /\ Head(q).zone = y => Head(q).desc = d
          /\ Quiet(Tail(q), y) /\ Head(q).zone # y => Quiet(q, y)
  <1> DEFINE r == Tail(q)
  <1>1. /\ Len(q) \in Nat /\ Len(q) >= 1 /\ Len(r) = Len(q) - 1 /\ Head(q) = q[1]
        /\ \A i \in 1..Len(r) : r[i] = q[i + 1]
    OBVIOUS
  <1>2. \A i \in 1..Len(q) : i # 1 => i - 1 \in 1..Len(r) /\ q[i] = r[i - 1]
    BY <1>1
  <1> HIDE DEF r
  <1>3. LastIs(r, y, d)
    <2> SUFFICES ASSUME NEW i \in 1..Len(r), r[i].zone = y,
                        \A j \in 1..Len(r) : j > i => r[j].zone # y
                 PROVE r[i].desc = d
      BY DEF LastIs
    <2>1. i + 1 \in 1..Len(q) /\ q[i + 1] = r[i]
      BY <1>1
    <2>2. ASSUME NEW j \in 1..Len(q), j > i + 1 PROVE q[j].zone # y
      <3>1. j - 1 \in 1..Len(r) /\ q[j] = r[j - 1] /\ j - 1 > i
        BY <1>1, <1>2, <2>2
      <3> QED BY <3>1
    <2> QED BY <2>1, <2>2 DEF LastIs
  <1>4. ASSUME Quiet(r, y) PROVE \A j \in 1..Len(q) : j > 1 => q[j].zone # y
    BY <1>1, <1>2, <1>4 DEF Quiet
  <1>5. ASSUME Quiet(r, y), q[1].zone = y PROVE q[1].desc = d
    <2>1. 1 \in 1..Len(q)
      BY <1>1
    <2> QED BY <1>4, <1>5, <2>1 DEF LastIs
  <1>6. ASSUME Quiet(r, y), q[1].zone # y PROVE Quiet(q, y)
    BY <1>1, <1>4, <1>6 DEF Quiet
  <1> QED BY <1>1, <1>3, <1>5, <1>6 DEF r

-----------------------------------------------------------------------------
(* What a change of the store and every other step leave of the watcher's   *)
(* knowledge.                                                               *)

\* A change of a key: one revision more, and the watcher is told.
Changed(z, d) ==
    /\ rev < MaxRev /\ rev' = rev + 1
    /\ store' = [store EXCEPT ![z] = d]
    /\ Publish(z, d)
    /\ UNCHANGED discoverer

\* What the parts of the state are in every state.
LEMMA Shapes ==
    ASSUME DiscoveryTypeOK, Stopping
    PROVE /\ rev \in Nat /\ listRev \in Nat
          /\ events \in Seq(Entry) /\ Len(events) \in Nat
          /\ \A i \in 1..Len(events) :
               /\ events[i] \in Entry /\ events[i].zone \in Zones
               /\ events[i].desc # None => events[i].desc \in Desc
          /\ \A z \in Zones : store[z] # None => store[z] \in Desc
          /\ \A z \in Zones : node[z] # None => node[z] \in Desc
          /\ dpc = "stop" => sd.zone \in Zones /\ sd.desc \in Desc
          /\ \A d \in Desc : d.rev \in Nat /\ d.reg \in Nat /\ d # None
  <1> USE DEF DiscoveryTypeOK, Stopping
  <1>1. \A d \in Desc : d.rev \in Nat /\ d.reg \in Nat /\ d # None
    <2> SUFFICES ASSUME NEW d \in Desc PROVE d.rev \in Nat /\ d.reg \in Nat /\ d # None
      OBVIOUS
    <2>1. d.rev \in Nat /\ d.reg \in Nat /\ d \in [reg : Nat, rev : Nat, host : Procs]
      BY DiscoveryAssumption DEF Desc
    <2> QED BY <2>1, DiscoveryAssumption
  <1>2. rev \in Nat /\ listRev \in Nat
    BY DiscoveryAssumption
  <1>3. events \in Seq(Entry)
    BY DEF Entry
  <1>4. \A i \in 1..Len(events) : events[i] \in Entry
    BY <1>3
  <1>5. \A e \in Entry : e.zone \in Zones /\ (e.desc # None => e.desc \in Desc)
    BY DEF Entry
  <1> QED BY <1>1, <1>2, <1>3, <1>4, <1>5

\* A change keeps the order of revisions.
LEMMA ChangedRevisions ==
    ASSUME DiscoveryTypeOK, Stopping, Revisions,
           NEW z \in Zones, NEW d \in Desc \cup {None},
           d # None => d.rev = rev + 1, Changed(z, d)
    PROVE Revisions'
  <1> DEFINE e == [zone |-> z, desc |-> d]
             E == [zone : Zones, desc : Desc \cup {None}]
  <1>0. /\ rev' = rev + 1 /\ store' = [store EXCEPT ![z] = d]
        /\ store \in [Zones -> Desc \cup {None}]
        /\ UNCHANGED <<dpc, listRev, sd, node>>
    BY DEF Changed, discoverer, DiscoveryTypeOK
  <1>1. /\ listRev' <= rev'
        /\ \A y \in Zones : store'[y] # None => store'[y].rev <= rev'
        /\ \A y \in Zones : node'[y] # None => node'[y].rev <= rev'
        /\ dpc' = "stop" => sd'.desc.rev <= rev'
    BY <1>0, Shapes DEF Revisions, RevsBounded
  <1>2. CASE events' = events
    <2>1. RevsBounded'
      BY <1>0, <1>1, <1>2, Shapes DEF Revisions, RevsBounded
    <2> QED BY <1>0, <1>2, <2>1 DEF Revisions, QueueOrdered, QueueNewer, Newer
  <1>3. CASE events' = Append(events, e)
    <2>1. events \in Seq(E) /\ e \in E
      BY DEF DiscoveryTypeOK
    <2>2. /\ Len(events') = Len(events) + 1 /\ Len(events) \in Nat
          /\ events'[Len(events) + 1] = e
          /\ \A i \in 1..Len(events) : events'[i] = events[i]
      BY <1>3, <2>1
    <2>3. \A i \in 1..Len(events') : i \in 1..Len(events) \/ i = Len(events) + 1
      BY <2>2
    <2>4. RevsBounded'
      <3>1. \A i \in 1..Len(events') :
               events'[i].desc # None => events'[i].desc.rev <= rev'
        BY <1>0, <2>2, <2>3, Shapes DEF Revisions, RevsBounded
      <3> QED BY <1>1, <3>1 DEF RevsBounded
    <2>5. QueueOrdered'
      <3> SUFFICES ASSUME NEW i \in 1..Len(events'), NEW j \in 1..Len(events'),
                          i < j, events'[i].desc # None, events'[j].desc # None
                   PROVE events'[i].desc.rev < events'[j].desc.rev
        BY DEF QueueOrdered
      <3>1. i \in 1..Len(events)
        BY <2>2
      <3>2. events[i].desc.rev <= rev /\ events[i].desc.rev \in Nat /\ rev \in Nat
        BY <2>2, <3>1, Shapes DEF Revisions, RevsBounded
      <3>3. CASE j \in 1..Len(events)
        BY <2>2, <3>1, <3>3 DEF Revisions, QueueOrdered
      <3>4. CASE j = Len(events) + 1
        <4>1. events'[j].desc.rev = rev + 1
          BY <2>2, <3>4
        <4> QED BY <2>2, <3>1, <3>2, <4>1
      <3> QED BY <2>3, <3>3, <3>4
    <2>6. QueueNewer'
      <3> SUFFICES ASSUME NEW i \in 1..Len(events'), events'[i].desc # None
                   PROVE /\ node'[events'[i].zone] # None => Newer(i, node[events[i].zone])'
                         /\ dpc' = "stop" /\ sd'.zone = events'[i].zone => Newer(i, sd.desc)'
        BY DEF QueueNewer
      <3>1. CASE i \in 1..Len(events)
        BY <1>0, <2>2, <3>1 DEF Revisions, QueueNewer, Newer
      <3>2. CASE i = Len(events) + 1
        BY <1>0, <2>2, <3>2, Shapes DEF Revisions, RevsBounded, Newer
      <3> QED BY <2>3, <3>1, <3>2
    <2> QED BY <2>4, <2>5, <2>6 DEF Revisions
  <1> QED BY <1>2, <1>3 DEF Changed, Publish

\* A change is queued behind the rest or, unheard of, is for a zone nobody
\* looks for or comes before the watch.
LEMMA ChangedKnown ==
    ASSUME DiscoveryTypeOK, Known, NEW z \in Zones, NEW d \in Desc \cup {None},
           d # None => d.rev = rev + 1, Changed(z, d)
    PROVE Known'
  <1> DEFINE e == [zone |-> z, desc |-> d]
  <1>0. /\ store' = [store EXCEPT ![z] = d] /\ store \in [Zones -> Desc \cup {None}]
        /\ UNCHANGED <<dpc, listed, listRev, sd, node>>
        /\ BeforeList /\ QueueCurrent /\ Listing /\ Watched /\ Stopping /\ Revisions
    BY DEF Changed, discoverer, DiscoveryTypeOK, Known
  <1>1. Revisions'
    BY <1>0, ChangedRevisions
  <1>2. BeforeList'
    BY <1>0 DEF BeforeList, Changed, Publish
  <1>3. Stopping'
    BY <1>0 DEF Stopping
  <1>4. /\ QueueCurrent'
        /\ \A y \in Zones :
             GenDiscoveryServicePrefix(y) /\ dpc # "off" /\ Quiet(events', y) =>
               y # z /\ store'[y] = store[y] /\ Quiet(events, y)
    <2>1. CASE dpc # "off" /\ GenDiscoveryServicePrefix(z)
      <3>1. events' = Append(events, e) /\ events \in Seq(Entry) /\ e \in Entry
        BY <1>0, <2>1, Shapes DEF Changed, Publish, Entry
      <3>2. ASSUME NEW y \in Zones, GenDiscoveryServicePrefix(y)
            PROVE /\ LastIs(events', y, store'[y])
                  /\ Quiet(events', y) => y # z /\ store'[y] = store[y] /\ Quiet(events, y)
        <4>1. CASE y = z
          BY <1>0, <3>1, <4>1, AppendSame
        <4>2. CASE y # z
          <5>1. store'[y] = store[y] /\ LastIs(events, y, store[y]) /\ e.zone # y
            BY <1>0, <3>2, <4>2 DEF QueueCurrent
          <5> QED BY <3>1, <4>2, <5>1, AppendOther
        <4> QED BY <4>1, <4>2
      <3> QED BY <3>2 DEF QueueCurrent, GenDiscoveryServicePrefix
    <2>2. CASE dpc = "off"
      <3>1. events = << >> /\ events' = << >>
        BY <1>0, <2>2 DEF BeforeList, Changed, Publish
      <3> QED BY <2>2, <3>1 DEF QueueCurrent, LastIs
    <2>3. CASE ~GenDiscoveryServicePrefix(z)
      <3>1. events' = events
        BY <2>3 DEF Changed, Publish
      <3>2. \A y \in Zones : GenDiscoveryServicePrefix(y) => y # z /\ store'[y] = store[y]
        BY <1>0, <2>3
      <3> QED BY <1>0, <3>1, <3>2 DEF QueueCurrent, GenDiscoveryServicePrefix
    <2> QED BY <2>1, <2>2, <2>3
  <1>5. \A y \in Found' : dpc # "off" /\ Quiet(events', y) =>
           y \in Found /\ store'[y] = store[y] /\ Quiet(events, y)
    BY <1>4 DEF Found, GenDiscoveryServicePrefix
  <1>6. Listing'
    BY <1>0, <1>5 DEF Listing
  <1>7. Watched'
    BY <1>0, <1>5 DEF Watched
  <1> QED BY <1>1, <1>2, <1>3, <1>4, <1>6, <1>7 DEF Known

\* A step that touches neither the store nor the watcher.
LEMMA UnchangedKnown ==
    ASSUME Known, UNCHANGED <<store, rev, events, discoverer>>
    PROVE Known'
  BY DEF Known, BeforeList, QueueCurrent, Listing, Watched, Stopping, Revisions,
         RevsBounded, QueueOrdered, QueueNewer, Newer, Found, discoverer,
         GenDiscoveryServicePrefix, LastIs, Quiet

-----------------------------------------------------------------------------
(* The steps of DiscoveryService.                                           *)

\* WatchOpen: from here on changes are queued.
LEMMA WatchOpenKnown ==
    ASSUME DiscoveryTypeOK, Known, WatchOpen PROVE Known'
  <1>1. /\ dpc = "off" /\ dpc' = "opened"
        /\ UNCHANGED <<store, rev, events, listed, listRev, sd, node>>
    BY DEF WatchOpen, DiscGoto, etcd
  <1> QED BY <1>1 DEF Known, BeforeList, QueueCurrent, Listing, Watched, Stopping, Revisions,
         RevsBounded, QueueOrdered, QueueNewer, Newer, GenDiscoveryServicePrefix, LastIs

\* List: what is registered now is among the entries.
LEMMA ListKnown ==
    ASSUME DiscoveryTypeOK, Known, List PROVE Known'
  <1>0. /\ dpc = "opened" /\ dpc' = "list" /\ listRev' = rev
        /\ listed' = {[zone |-> z, desc |-> store[z]] : z \in Found}
        /\ UNCHANGED <<store, rev, events, sd, node>>
        /\ BeforeList /\ QueueCurrent /\ Stopping /\ Revisions
    BY DEF List, DiscGoto, etcd, Known
  <1>1. \A z \in Zones : node[z] = None
    BY <1>0 DEF BeforeList
  <1>2. \A z \in Found : z \in Zones /\ store[z] # None
    BY DEF Found
  <1>3. Found' = Found
    BY <1>0 DEF Found, GenDiscoveryServicePrefix
  <1>4. \A f \in listed' : f.zone \in Found /\ f = [zone |-> f.zone, desc |-> store[f.zone]]
    BY <1>0
  <1>5. Listing'
    <2>1. \A f \in listed' : node'[f.zone] = None /\ f.desc.rev <= listRev'
      BY <1>0, <1>1, <1>2, <1>4 DEF Revisions, RevsBounded
    <2>2. \A f, g \in listed' : f.zone = g.zone => f = g
      BY <1>4
    <2>3. \A z \in Found : [zone |-> z, desc |-> store[z]] \in listed'
      BY <1>0
    <2> QED BY <1>0, <1>1, <1>3, <2>1, <2>2, <2>3 DEF Listing
  <1>6. Revisions'
    BY <1>0, <1>1, Shapes DEF Revisions, RevsBounded, QueueOrdered, QueueNewer, Newer
  <1>7. QueueCurrent'
    BY <1>0 DEF QueueCurrent, GenDiscoveryServicePrefix, LastIs
  <1> QED BY <1>0, <1>5, <1>6, <1>7 DEF Known, BeforeList, Watched, Stopping

\* ListFails: nothing more is handled.
LEMMA ListFailsKnown ==
    ASSUME DiscoveryTypeOK, Known, ListFails PROVE Known'
  <1>1. /\ dpc = "opened" /\ dpc' = "dead"
        /\ UNCHANGED <<store, rev, events, listed, listRev, sd, node>>
    BY DEF ListFails, DiscGoto, etcd
  <1> QED BY <1>1 DEF Known, BeforeList, QueueCurrent, Listing, Watched, Stopping, Revisions,
         RevsBounded, QueueOrdered, QueueNewer, Newer, GenDiscoveryServicePrefix, LastIs

\* The listing finds no node of its zone: one entry is of each, and nobody else
\* creates nodes.
LEMMA ListNextPlain ==
    ASSUME Listing, ListNext
    PROVE  /\ UNCHANGED <<now, etcd, service, events, listRev, sd>>
           /\ \/ listed = {} /\ dpc' = "loop" /\ UNCHANGED <<listed, node>>
              \/ \E f \in listed :
                    /\ listed' = listed \ {f} /\ dpc' = "list"
                    /\ node[f.zone] = None
                    /\ node' = [node EXCEPT ![f.zone] = f.desc]
  <1>1. dpc = "list" /\ UNCHANGED <<events, listRev>>
    BY DEF ListNext
  <1>2. CASE listed = {}
    BY <1>1, <1>2 DEF ListNext, DiscGoto
  <1>3. CASE listed # {}
    <2>1. PICK f \in listed : /\ listed' = listed \ {f}
                              /\ IF node[f.zone] = None
                                 THEN Create(f.zone, f.desc) /\ DiscGoto("list") /\ UNCHANGED sd
                                 ELSE Replace(f.zone, f.desc) /\ DiscGoto("relist")
      BY <1>3 DEF ListNext
    <2>2. node[f.zone] = None
      BY <1>1 DEF Listing
    <2> QED BY <1>1, <2>1, <2>2 DEF Create, DiscGoto
  <1> QED BY <1>2, <1>3

\* ListNext: the entry gets its node, the first of its zone.
LEMMA ListNextKnown ==
    ASSUME DiscoveryTypeOK, Known, ListNext PROVE Known'
  <1>0. /\ dpc = "list" /\ UNCHANGED <<store, rev, events, listRev, sd>>
        /\ BeforeList /\ QueueCurrent /\ Listing /\ Stopping /\ Revisions
        /\ node \in [Zones -> Desc \cup {None}]
        /\ listed \subseteq [zone : Zones, desc : Desc]
    BY ListNextPlain DEF ListNext, DiscGoto, etcd, Known, DiscoveryTypeOK
  <1>1. QueueCurrent'
    BY <1>0 DEF QueueCurrent, GenDiscoveryServicePrefix, LastIs
  <1>2. Found' = Found /\ \A z \in Found : z \in Zones /\ store[z] # None
    BY <1>0 DEF Found, GenDiscoveryServicePrefix
  <1>3. CASE listed = {}
    <2>1. dpc' = "loop" /\ UNCHANGED <<listed, node>>
      BY <1>3 DEF ListNext, DiscGoto
    <2>2. Watched'
      BY <1>0, <1>2, <1>3, <2>1 DEF Watched, Listing
    <2>3. Revisions'
      BY <1>0, <2>1 DEF Revisions, RevsBounded, QueueOrdered, QueueNewer, Newer
    <2> QED BY <1>0, <1>1, <2>1, <2>2, <2>3 DEF Known, BeforeList, Listing, Stopping
  <1>4. CASE listed # {}
    <2>1. PICK f \in listed : /\ listed' = listed \ {f} /\ dpc' = "list"
                              /\ node' = [node EXCEPT ![f.zone] = f.desc]
      BY <1>0, <1>4, ListNextPlain
    <2>2. /\ f.zone \in Zones /\ f.desc \in Desc /\ node[f.zone] = None
          /\ f.desc.rev <= listRev
          /\ node'[f.zone] = f.desc
          /\ \A z \in Zones : z # f.zone => node'[z] = node[z]
      BY <1>0, <2>1 DEF Listing
    <2>3. \A g \in listed' : g \in listed /\ g.zone # f.zone /\ g.zone \in Zones
      BY <1>0, <2>1 DEF Listing
    <2>4. Listing'
      <3>1. \A g \in listed' : node'[g.zone] = None /\ g.desc.rev <= listRev'
        BY <1>0, <2>2, <2>3 DEF Listing
      <3>2. \A g, h \in listed' : g.zone = h.zone => g = h
        BY <1>0, <2>3 DEF Listing
      <3>3. \A z \in Zones : node'[z] # None => node'[z].rev <= listRev'
        BY <1>0, <2>2 DEF Listing
      <3>4. ASSUME NEW z \in Found, Quiet(events, z)
            PROVE node'[z] = store[z] \/ [zone |-> z, desc |-> store[z]] \in listed'
        <4>1. CASE node[z] = store[z]
          BY <1>2, <2>2, <4>1
        <4>2. CASE [zone |-> z, desc |-> store[z]] \in listed
          BY <2>1, <2>2, <4>2
        <4> QED BY <1>0, <3>4, <4>1, <4>2 DEF Listing
      <3> QED BY <1>0, <1>2, <3>1, <3>2, <3>3, <3>4 DEF Listing
    <2>5. Revisions'
      <3>1. \A z \in Zones : node'[z] # None => node'[z].rev <= listRev /\ node'[z] \in Desc
        BY <1>0, <2>2, Shapes DEF Listing
      <3>2. \A z \in Zones : node'[z] # None => node'[z].rev <= rev
        BY <1>0, <3>1, Shapes DEF Revisions, RevsBounded
      <3>3. RevsBounded'
        BY <1>0, <2>1, <3>2 DEF Revisions, RevsBounded
      <3>4. QueueNewer'
        BY <1>0, <2>1, <3>1, Shapes DEF QueueNewer, Newer
      <3> QED BY <1>0, <3>3, <3>4 DEF Revisions, QueueOrdered
    <2> QED BY <1>0, <1>1, <2>1, <2>4, <2>5 DEF Known, BeforeList, Watched, Stopping
  <1> QED BY <1>3, <1>4

\* What handling the first of the queue, e, can come to: nothing, a node where
\* there was none, or the replacement of another registration.
Keeps(e) ==
    /\ dpc' = "loop" /\ UNCHANGED <<node, sd>>
    /\ e.desc # None => node[e.zone] # None /\ (DebugMode \/ node[e.zone].reg = e.desc.reg)
Creates(e) ==
    /\ dpc' = "loop" /\ e.desc # None /\ node[e.zone] = None
    /\ node' = [node EXCEPT ![e.zone] = e.desc] /\ UNCHANGED sd
Replaces(e) ==
    /\ dpc' = "stop" /\ e.desc # None /\ node[e.zone] # None /\ node[e.zone].reg # e.desc.reg
    /\ node' = [node EXCEPT ![e.zone] = None]
    /\ sd' = [zone |-> e.zone, desc |-> e.desc]

\* The branches of the handler are these three.
LEMMA EventCases ==
    ASSUME DiscoveryTypeOK, Stopping, Event
    PROVE /\ dpc = "loop" /\ events # << >> /\ events' = Tail(events)
          /\ UNCHANGED <<store, rev, listed, listRev>>
          /\ Head(events) = events[1] /\ 1 \in 1..Len(events) /\ Head(events) \in Entry
          /\ Keeps(Head(events)) \/ Creates(Head(events)) \/ Replaces(Head(events))
  <1>1. dpc = "loop" /\ events # << >> /\ events' = Tail(events)
        /\ UNCHANGED <<store, rev, listed, listRev>>
    BY DEF Event, EventDelete, EventPut, DiscGoto, etcd
  <1>2. Head(events) = events[1] /\ 1 \in 1..Len(events) /\ Head(events) \in Entry
    BY <1>1, Shapes
  <1> DEFINE e == Head(events)
  <1>3. CASE e.desc = None
    <2>1. EventDelete(e.zone)
      BY <1>3 DEF Event
    <2> QED BY <1>1, <1>2, <1>3, <2>1 DEF EventDelete, DiscGoto, Keeps
  <1>4. CASE e.desc # None
    <2>1. EventPut(e.zone, e.desc)
      BY <1>4 DEF Event
    <2>2. Keeps(e) \/ Creates(e) \/ Replaces(e)
      BY <1>4, <2>1 DEF EventPut, Create, Replace, DiscGoto, Keeps, Creates, Replaces
    <2> QED BY <1>1, <1>2, <2>2
  <1> QED BY <1>3, <1>4

\* Event: what was known of the first of the queue is now the node's.
LEMMA EventKnown ==
    ASSUME DiscoveryTypeOK, Known, Event PROVE Known'
  <1> DEFINE e == Head(events)
  <1>0. BeforeList /\ QueueCurrent /\ Watched /\ Stopping /\ Revisions
        /\ node \in [Zones -> Desc \cup {None}]
    BY DEF Known, DiscoveryTypeOK
  <1>1. /\ dpc = "loop" /\ events # << >> /\ events' = Tail(events)
        /\ UNCHANGED <<store, rev, listed, listRev>>
        /\ e = events[1] /\ 1 \in 1..Len(events) /\ e \in Entry
        /\ Keeps(e) \/ Creates(e) \/ Replaces(e)
    BY <1>0, EventCases
  <1>2. /\ dpc' \in {"loop", "stop"} /\ e.zone \in Zones
        /\ \A z \in Zones : z # e.zone => node'[z] = node[z]
    BY <1>0, <1>1 DEF Keeps, Creates, Replaces, Entry
  <1>3. \A i \in 1..Len(events') :
           i + 1 \in 1..Len(events) /\ 1 < i + 1 /\ events'[i] = events[i + 1]
    BY <1>1, Shapes, <1>0
  <1>4. \A z \in Zones : GenDiscoveryServicePrefix(z) =>
           /\ LastIs(events', z, store[z])
           /\ Quiet(events', z) /\ e.zone = z => e.desc = store[z]
           /\ Quiet(events', z) /\ e.zone # z => Quiet(events, z)
    BY <1>0, <1>1, Shapes, TailLast DEF QueueCurrent
  <1>5. QueueCurrent'
    BY <1>1, <1>4 DEF QueueCurrent, GenDiscoveryServicePrefix
  <1>6. Watched'
    <2> SUFFICES ASSUME NEW z \in Found, Quiet(events', z)
                 PROVE \/ node'[z] # None /\ (DebugMode \/ node'[z].reg = store'[z].reg)
                       \/ dpc' = "stop" /\ sd'.zone = z /\ sd'.desc.reg = store'[z].reg
      BY <1>1 DEF Watched, Found, GenDiscoveryServicePrefix
    <2>1. z \in Zones /\ store[z] # None /\ GenDiscoveryServicePrefix(z)
      BY DEF Found
    <2>2. CASE e.zone # z
      <3>1. node[z] # None /\ (DebugMode \/ node[z].reg = store[z].reg)
        BY <1>0, <1>1, <1>4, <2>1, <2>2 DEF Watched
      <3> QED BY <1>1, <1>2, <2>1, <2>2, <3>1
    <2>3. CASE e.zone = z
      <3>1. e.desc = store[z]
        BY <1>4, <2>1, <2>3
      <3> QED BY <1>0, <1>1, <2>1, <2>3, <3>1 DEF Keeps, Creates, Replaces
    <2> QED BY <2>2, <2>3
  <1>7. Stopping'
    <2> SUFFICES ASSUME Replaces(e) PROVE sd' # None /\ node'[sd'.zone] = None
      BY <1>1, <1>2 DEF Stopping, Keeps, Creates
    <2>1. e.desc \in [reg : Nat, rev : Nat, host : Procs]
      BY <1>1, DiscoveryAssumption DEF Replaces, Entry, Desc
    <2>2. sd' \in [zone : Zones, desc : [reg : Nat, rev : Nat, host : Procs]]
      BY <1>2, <2>1 DEF Replaces
    <2> QED BY <1>0, <1>2, <2>2, DiscoveryAssumption DEF Replaces
  <1>8. RevsBounded'
    <2>1. e.desc # None => e.desc.rev <= rev
      BY <1>0, <1>1 DEF Revisions, RevsBounded
    <2>2. \A z \in Zones : node'[z] # None => node'[z].rev <= rev
      BY <1>0, <1>1, <1>2, <2>1 DEF Keeps, Creates, Replaces, Revisions, RevsBounded
    <2>3. dpc' = "stop" => sd'.desc.rev <= rev
      BY <1>1, <2>1 DEF Keeps, Creates, Replaces
    <2>4. \A i \in 1..Len(events') : events'[i].desc # None => events'[i].desc.rev <= rev
      BY <1>0, <1>3 DEF Revisions, RevsBounded
    <2> QED BY <1>0, <1>1, <2>2, <2>3, <2>4 DEF Revisions, RevsBounded
  <1>9. QueueOrdered'
    <2> SUFFICES ASSUME NEW i \in 1..Len(events'), NEW j \in 1..Len(events'),
                        i < j, events'[i].desc # None, events'[j].desc # None
                 PROVE events'[i].desc.rev < events'[j].desc.rev
      BY DEF QueueOrdered
    <2>1. i + 1 < j + 1
      OBVIOUS
    <2> QED BY <1>0, <1>3, <2>1 DEF Revisions, QueueOrdered
  <1>10. QueueNewer'
    <2> SUFFICES ASSUME NEW i \in 1..Len(events'), events'[i].desc # None
                 PROVE /\ node'[events'[i].zone] # None => Newer(i, node[events[i].zone])'
                       /\ dpc' = "stop" /\ sd'.zone = events'[i].zone => Newer(i, sd.desc)'
      BY DEF QueueNewer
    <2>1. i + 1 \in 1..Len(events) /\ events'[i] = events[i + 1] /\ events[i + 1].desc # None
          /\ events[i + 1].zone \in Zones
      BY <1>0, <1>3, Shapes
    <2>2. e.desc # None => e.desc.rev < events[i + 1].desc.rev
      BY <1>0, <1>1, <1>3, <2>1 DEF Revisions, QueueOrdered
    <2>3. node[events[i + 1].zone] # None => Newer(i + 1, node[events[i + 1].zone])
      BY <1>0, <2>1 DEF Revisions, QueueNewer
    <2>4. CASE Keeps(e)
      BY <1>1, <2>1, <2>3, <2>4 DEF Keeps, Newer
    <2>5. CASE Creates(e)
      BY <1>0, <1>1, <1>2, <2>1, <2>2, <2>3, <2>5 DEF Creates, Newer
    <2>6. CASE Replaces(e)
      BY <1>0, <1>1, <1>2, <2>1, <2>2, <2>3, <2>6 DEF Replaces, Newer
    <2> QED BY <1>1, <2>4, <2>5, <2>6
  <1>11. BeforeList' /\ Listing'
    BY <1>2 DEF BeforeList, Listing
  <1> QED BY <1>5, <1>6, <1>7, <1>8, <1>9, <1>10, <1>11 DEF Known, Revisions

\* Stopped: the description that waited gets its node.
LEMMA StoppedKnown ==
    ASSUME DiscoveryTypeOK, Known, Stopped PROVE Known'
  <1>0. /\ dpc = "stop" /\ dpc' = "loop" /\ node' = [node EXCEPT ![sd.zone] = sd.desc]
        /\ UNCHANGED <<store, rev, events, listed, listRev>>
        /\ QueueCurrent /\ Watched /\ Stopping /\ Revisions
        /\ node \in [Zones -> Desc \cup {None}]
    BY DEF Stopped, Create, DiscGoto, etcd, Known, DiscoveryTypeOK, Stopping
  <1>1. /\ sd.zone \in Zones /\ sd.desc \in Desc /\ sd.desc # None
        /\ node'[sd.zone] = sd.desc
        /\ \A z \in Zones : z # sd.zone => node'[z] = node[z]
    BY <1>0, Shapes
  <1>2. QueueCurrent'
    BY <1>0 DEF QueueCurrent, GenDiscoveryServicePrefix, LastIs
  <1>3. Watched'
    <2> SUFFICES ASSUME NEW z \in Found, Quiet(events, z)
                 PROVE node'[z] # None /\ (DebugMode \/ node'[z].reg = store[z].reg)
      BY <1>0 DEF Watched, Found, GenDiscoveryServicePrefix
    <2>1. z \in Zones
      BY DEF Found
    <2>2. \/ node[z] # None /\ (DebugMode \/ node[z].reg = store[z].reg)
          \/ sd.zone = z /\ sd.desc.reg = store[z].reg
      BY <1>0 DEF Watched
    <2> QED BY <1>0, <1>1, <2>1, <2>2 DEF Stopping
  <1>4. RevsBounded'
    BY <1>0, <1>1 DEF Revisions, RevsBounded
  <1>5. QueueNewer'
    <2> SUFFICES ASSUME NEW i \in 1..Len(events), events[i].desc # None,
                        node'[events[i].zone] # None
                 PROVE Newer(i, node[events[i].zone])'
      BY <1>0 DEF QueueNewer
    <2>1. events[i].zone \in Zones
      BY <1>0, Shapes
    <2> QED BY <1>0, <1>1, <2>1 DEF Revisions, QueueNewer, Newer
  <1>6. QueueOrdered'
    BY <1>0 DEF Revisions, QueueOrdered
  <1> QED BY <1>0, <1>2, <1>3, <1>4, <1>5, <1>6
       DEF Known, BeforeList, Listing, Stopping, Revisions

-----------------------------------------------------------------------------
(* The store, and the processes that register.                              *)

\* The types of what etcd keeps and of the queue it fills.
EtcdTypes ==
    /\ store \in [Zones -> Desc \cup {None}]
    /\ owner \in [Zones -> Procs \cup {None}]
    /\ until \in [Zones -> 0..MaxTime + LeaseTTL] /\ rev \in 0..MaxRev
    /\ events \in Seq([zone : Zones, desc : Desc \cup {None}])

\* A change that is queued, or not, leaves a queue of changes.
LEMMA PublishType ==
    ASSUME DiscoveryTypeOK, NEW z \in Zones, NEW d \in Desc \cup {None}, Publish(z, d)
    PROVE events' \in Seq([zone : Zones, desc : Desc \cup {None}])
  <1> DEFINE S == [zone : Zones, desc : Desc \cup {None}]
             e == [zone |-> z, desc |-> d]
  <1>1. e \in S /\ events \in Seq(S)
    BY DEF DiscoveryTypeOK
  <1>2. events' = events \/ events' = Append(events, e)
    BY DEF Publish
  <1> HIDE DEF S, e
  <1>3. events' \in Seq(S)
    BY <1>1, <1>2
  <1> QED BY <1>3 DEF S

\* A Put is a change to a registration of the next revision.
LEMMA PutFacts ==
    ASSUME DiscoveryTypeOK, NEW p \in Procs, NEW kept \in BOOLEAN, Put(p, kept)
    PROVE /\ EtcdTypes'
          /\ idOf[p] \in Zones /\ rev' = rev + 1
          /\ \E d \in Desc : /\ d # None /\ d.rev = rev + 1
                             /\ store' = [store EXCEPT ![idOf[p]] = d]
                             /\ UNCHANGED discoverer => Changed(idOf[p], d)
  <1> DEFINE d == [reg |-> reg[p], rev |-> rev + 1, host |-> p]
  <1>1. idOf[p] \in Zones /\ rev < MaxRev /\ rev' = rev + 1
    BY DEF Put, DiscoveryTypeOK
  <1>2. d \in Desc /\ d.rev = rev + 1
    BY <1>1, DiscoveryAssumption DEF DiscoveryTypeOK, Desc
  <1>3. d # None
    <2>1. d \in [reg : Nat, rev : Nat, host : Procs]
      BY <1>2, DiscoveryAssumption DEF Desc
    <2> QED BY <2>1, DiscoveryAssumption
  <1>4. store' = [store EXCEPT ![idOf[p]] = d] /\ Publish(idOf[p], d)
    BY DEF Put
  <1>5. UNCHANGED discoverer => Changed(idOf[p], d)
    BY <1>1, <1>4 DEF Changed
  <1>6. events' \in Seq([zone : Zones, desc : Desc \cup {None}])
    BY <1>1, <1>2, <1>4, PublishType
  <1>7. rev' \in 0..MaxRev /\ store' \in [Zones -> Desc \cup {None}]
    BY <1>1, <1>2, <1>4, DiscoveryAssumption DEF DiscoveryTypeOK
  <1>8. owner' \in [Zones -> Procs \cup {None}]
    BY DEF Put, DiscoveryTypeOK
  <1>9. until' \in [Zones -> 0..MaxTime + LeaseTTL]
    <2>1. now + LeaseTTL \in 0..MaxTime + LeaseTTL /\ 0 \in 0..MaxTime + LeaseTTL
      BY DiscoveryAssumption DEF DiscoveryTypeOK
    <2> QED BY <2>1 DEF Put, DiscoveryTypeOK
  <1> QED BY <1>1, <1>2, <1>3, <1>4, <1>5, <1>6, <1>7, <1>8, <1>9 DEF EtcdTypes

\* A Delete is a change to None, told to every WatchSelf of that key.
LEMMA DeleteFacts ==
    ASSUME DiscoveryTypeOK, DeletesBounded, NEW z \in Zones, Delete(z)
    PROVE /\ EtcdTypes'
          /\ store' = [store EXCEPT ![z] = None]
          /\ UNCHANGED discoverer => Changed(z, None)
          /\ deletes' \in [Procs -> 0..MaxRev]
          /\ \A p \in Procs : /\ deletes'[p] <= rev' /\ deletes'[p] >= deletes[p]
                              /\ p \in Watching(z) => deletes'[p] > 0
  <1>1. /\ rev < MaxRev /\ rev' = rev + 1 /\ rev \in Nat /\ Publish(z, None)
        /\ store' = [store EXCEPT ![z] = None]
    BY DiscoveryAssumption DEF Delete, DiscoveryTypeOK
  <1>2. UNCHANGED discoverer => Changed(z, None)
    BY <1>1 DEF Changed
  <1>3. \A p \in Procs : /\ deletes'[p] \in {deletes[p], deletes[p] + 1}
                         /\ p \in Watching(z) => deletes'[p] = deletes[p] + 1
                         /\ deletes[p] \in Nat /\ deletes[p] <= rev
    BY DiscoveryAssumption DEF Delete, DiscoveryTypeOK, DeletesBounded
  <1>4. \A p \in Procs : /\ deletes'[p] <= rev' /\ deletes'[p] >= deletes[p]
                         /\ deletes'[p] \in 0..MaxRev
                         /\ p \in Watching(z) => deletes'[p] > 0
    BY <1>1, <1>3, DiscoveryAssumption
  <1>5. deletes' \in [Procs -> 0..MaxRev]
    BY <1>4 DEF Delete
  <1>6. events' \in Seq([zone : Zones, desc : Desc \cup {None}])
    BY <1>1, PublishType
  <1>7. /\ rev' \in 0..MaxRev /\ store' \in [Zones -> Desc \cup {None}]
        /\ owner' \in [Zones -> Procs \cup {None}]
    BY <1>1, DiscoveryAssumption DEF Delete, DiscoveryTypeOK
  <1>8. until' \in [Zones -> 0..MaxTime + LeaseTTL]
    <2>1. 0 \in 0..MaxTime + LeaseTTL
      BY DiscoveryAssumption
    <2> QED BY <2>1 DEF Delete, DiscoveryTypeOK
  <1> QED BY <1>1, <1>2, <1>4, <1>5, <1>6, <1>7, <1>8 DEF EtcdTypes

\* When the keepalives of a process stop, its leases end after their time.
LEMMA UnkeptType ==
    ASSUME DiscoveryTypeOK, NEW p \in Procs, Unkept(p)
    PROVE until' \in [Zones -> 0..MaxTime + LeaseTTL]
  <1>1. now + LeaseTTL \in 0..MaxTime + LeaseTTL
    BY DiscoveryAssumption DEF DiscoveryTypeOK
  <1> QED BY <1>1 DEF Unkept, DiscoveryTypeOK

-----------------------------------------------------------------------------
(* Every step, and the theorems.                                            *)

\* A registration succeeds and the key is there, or nothing is written.
LEMMA RegisterKeeps ==
    ASSUME DiscoveryInv, NEW p \in Procs, NEW ok \in ProcPC, NEW bad \in ProcPC,
           bad # "up", RegisterWithTimeOut(p, ok, bad)
    PROVE DiscoveryInv'
  <1> DEFINE Written == \E kept \in BOOLEAN : Put(p, kept) /\ ProcGoto(p, ok)
             Failed == ProcGoto(p, bad) /\ UNCHANGED <<etcd, events>>
  <1>0. /\ DiscoveryTypeOK /\ DeletesBounded /\ NeverForgotten /\ Known
        /\ UNCHANGED <<reg, deletes, now, idOf, linked, discoverer>>
        /\ pc' = [pc EXCEPT ![p] = ok] \/ pc' = [pc EXCEPT ![p] = bad]
    BY DEF DiscoveryInv, RegisterWithTimeOut, ProcGoto
  <1>1. Written \/ Failed
    BY DEF RegisterWithTimeOut
  <1>2. CASE Written
    <2>1. PICK kept \in BOOLEAN : Put(p, kept) /\ ProcGoto(p, ok)
      BY <1>2
    <2>2. PICK d \in Desc : /\ d # None /\ d.rev = rev + 1
                            /\ store' = [store EXCEPT ![idOf[p]] = d]
                            /\ Changed(idOf[p], d)
      BY <1>0, <2>1, PutFacts
    <2>3. EtcdTypes' /\ idOf[p] \in Zones /\ rev' = rev + 1
      BY <1>0, <2>1, PutFacts
    <2>4. Known'
      BY <1>0, <2>2, <2>3, ChangedKnown
    <2>5. DiscoveryTypeOK'
      BY <1>0, <2>3 DEF EtcdTypes, DiscoveryTypeOK, discoverer
    <2>6. DeletesBounded'
      BY <1>0, <2>3, DiscoveryAssumption DEF DeletesBounded, DiscoveryTypeOK
    <2>7. NeverForgotten'
      <3>1. \A z \in Zones : store[z] # None => store'[z] # None
        BY <1>0, <2>2 DEF DiscoveryTypeOK
      <3>2. store'[idOf[p]] # None
        BY <1>0, <2>2, <2>3 DEF DiscoveryTypeOK
      <3> QED BY <1>0, <3>1, <3>2 DEF NeverForgotten, DiscoveryTypeOK
    <2> QED BY <2>4, <2>5, <2>6, <2>7 DEF DiscoveryInv
  <1>3. CASE Failed
    <2>1. UNCHANGED <<etcd, events>> /\ pc' = [pc EXCEPT ![p] = bad]
      BY <1>3 DEF ProcGoto
    <2>2. Known'
      BY <1>0, <2>1, UnchangedKnown DEF etcd
    <2>3. DiscoveryTypeOK' /\ DeletesBounded'
      BY <1>0, <2>1 DEF DiscoveryTypeOK, DeletesBounded, etcd, discoverer
    <2>4. NeverForgotten'
      BY <1>0, <2>1 DEF NeverForgotten, DiscoveryTypeOK, etcd
    <2> QED BY <2>2, <2>3, <2>4 DEF DiscoveryInv
  <1> QED BY <1>1, <1>2, <1>3

\* A key is deleted and whoever watches it is told.
LEMMA DeleteKeeps ==
    ASSUME DiscoveryInv, NEW z \in Zones, Delete(z),
           UNCHANGED <<now, idOf, pc, reg, linked, discoverer>>
    PROVE DiscoveryInv'
  <1>0. DiscoveryTypeOK /\ DeletesBounded /\ NeverForgotten /\ Known
    BY DEF DiscoveryInv
  <1>1. /\ EtcdTypes' /\ store' = [store EXCEPT ![z] = None] /\ Changed(z, None)
        /\ deletes' \in [Procs -> 0..MaxRev]
        /\ \A p \in Procs : /\ deletes'[p] <= rev' /\ deletes'[p] >= deletes[p]
                            /\ p \in Watching(z) => deletes'[p] > 0
    BY <1>0, DeleteFacts
  <1>2. Known'
    BY <1>0, <1>1, ChangedKnown
  <1>3. DiscoveryTypeOK'
    BY <1>0, <1>1 DEF EtcdTypes, DiscoveryTypeOK, discoverer
  <1>4. DeletesBounded'
    BY <1>1 DEF DeletesBounded
  <1>5. NeverForgotten'
    <2> SUFFICES ASSUME NEW p \in Procs, pc[p] = "up"
                 PROVE store'[idOf[p]] # None \/ deletes'[p] > 0
      BY DEF NeverForgotten
    <2>1. CASE idOf[p] = z
      BY <1>1, <2>1 DEF Watching
    <2>2. CASE idOf[p] # z
      <3>1. store'[idOf[p]] = store[idOf[p]] /\ deletes[p] \in Nat /\ deletes'[p] \in Nat
        BY <1>0, <1>1, <2>2, DiscoveryAssumption DEF DiscoveryTypeOK
      <3> QED BY <1>0, <1>1, <3>1 DEF NeverForgotten
    <2> QED BY <2>1, <2>2
  <1> QED BY <1>2, <1>3, <1>4, <1>5 DEF DiscoveryInv

\* A step of one process that leaves the store and the watcher alone, and
\* after which it is not "up" unless its key is there.
LEMMA ProcessKeeps ==
    ASSUME DiscoveryInv, NEW p \in Procs, NEW to \in ProcPC,
           pc' = [pc EXCEPT ![p] = to], to = "up" => store[idOf[p]] # None,
           UNCHANGED <<now, idOf, store, owner, rev, events, discoverer>>,
           until' \in [Zones -> 0..MaxTime + LeaseTTL],
           linked' \subseteq Procs, reg' \in [Procs -> 0..MaxTime],
           deletes' \in [Procs -> 0..MaxRev],
           \A q \in Procs : deletes'[q] <= deletes[q] /\ (q # p => deletes'[q] = deletes[q])
    PROVE DiscoveryInv'
  <1>0. DiscoveryTypeOK /\ DeletesBounded /\ NeverForgotten /\ Known
    BY DEF DiscoveryInv
  <1>1. Known'
    BY <1>0, UnchangedKnown
  <1>2. DiscoveryTypeOK'
    BY <1>0 DEF DiscoveryTypeOK, discoverer
  <1>3. DeletesBounded'
    BY <1>0, DiscoveryAssumption DEF DeletesBounded, DiscoveryTypeOK
  <1>4. NeverForgotten'
    BY <1>0 DEF NeverForgotten, DiscoveryTypeOK
  <1> QED BY <1>1, <1>2, <1>3, <1>4 DEF DiscoveryInv

\* A step of the watcher.
LEMMA WatcherKeeps ==
    ASSUME DiscoveryInv, DiscoveryService PROVE DiscoveryInv'
  <1>0. DiscoveryTypeOK /\ DeletesBounded /\ NeverForgotten /\ Known
    BY DEF DiscoveryInv
  <1>1. UNCHANGED <<now, etcd, service>>
    <2>1. CASE ListNext
      BY <1>0, <2>1, ListNextPlain DEF Known
    <2>2. CASE ~ListNext
      BY <2>2 DEF DiscoveryService, WatchOpen, List, ListFails, Event, Stopped, EventDelete,
             EventPut, DiscGoto
    <2> QED BY <2>1, <2>2
  <1>2. Known'
    BY <1>0, WatchOpenKnown, ListKnown, ListFailsKnown, ListNextKnown, EventKnown, StoppedKnown
       DEF DiscoveryService
  <1>3. DeletesBounded' /\ NeverForgotten'
    BY <1>0, <1>1 DEF DeletesBounded, NeverForgotten, etcd, service
  <1>4. DiscoveryTypeOK'
    <2> DEFINE DTypes == /\ events \in Seq([zone : Zones, desc : Desc \cup {None}])
                         /\ dpc \in DiscPC /\ listRev \in 0..MaxRev
                         /\ listed \subseteq [zone : Zones, desc : Desc]
                         /\ sd \in [zone : Zones, desc : Desc] \cup {None}
                         /\ node \in [Zones -> Desc \cup {None}]
    <2> SUFFICES DTypes'
      BY <1>0, <1>1 DEF DiscoveryTypeOK, etcd, service
    <2>0. DTypes
      BY <1>0 DEF DiscoveryTypeOK
    <2>1. CASE WatchOpen
      BY <2>0, <2>1 DEF WatchOpen, DiscGoto, DiscPC
    <2>2. CASE List
      <3>1. \A z \in Found : z \in Zones /\ store[z] \in Desc
        BY <1>0 DEF Found, DiscoveryTypeOK
      <3>2. listed' \subseteq [zone : Zones, desc : Desc]
        BY <2>2, <3>1 DEF List
      <3>3. listRev' \in 0..MaxRev
        BY <1>0, <2>2 DEF List, DiscoveryTypeOK
      <3> QED BY <2>0, <2>2, <3>2, <3>3 DEF List, DiscGoto, DiscPC
    <2>6. CASE ListFails
      BY <2>0, <2>6 DEF ListFails, DiscGoto, DiscPC
    <2>3. CASE ListNext
      <3>1. UNCHANGED <<events, listRev, sd>> /\ dpc' \in {"list", "loop"}
        BY <1>0, <2>3, ListNextPlain DEF Known
      <3>2. listed' \subseteq listed /\ node' \in [Zones -> Desc \cup {None}]
        BY <1>0, <2>0, <2>3, ListNextPlain DEF Known
      <3> QED BY <2>0, <3>1, <3>2 DEF DiscPC
    <2>4. CASE Event
      <3>0. /\ events # << >> /\ events' = Tail(events) /\ UNCHANGED <<listed, listRev>>
            /\ Head(events) \in Entry
            /\ Keeps(Head(events)) \/ Creates(Head(events)) \/ Replaces(Head(events))
        BY <1>0, <2>4, EventCases DEF Known
      <3>1. events' \in Seq([zone : Zones, desc : Desc \cup {None}])
        <4> DEFINE S == [zone : Zones, desc : Desc \cup {None}]
        <4>1. events \in Seq(S)
          BY <2>0
        <4> HIDE DEF S
        <4>2. Tail(events) \in Seq(S)
          BY <3>0, <4>1
        <4> QED BY <3>0, <4>2 DEF S
      <3>2. node' \in [Zones -> Desc \cup {None}]
        BY <2>0, <3>0 DEF Keeps, Creates, Replaces, Entry
      <3>3. sd' \in [zone : Zones, desc : Desc] \cup {None}
        BY <2>0, <3>0 DEF Keeps, Creates, Replaces, Entry
      <3> QED BY <2>0, <3>0, <3>1, <3>2, <3>3 DEF Keeps, Creates, Replaces, DiscPC
    <2>5. CASE Stopped
      <3>1. sd.zone \in Zones /\ sd.desc \in Desc
        BY <1>0, <2>5, Shapes DEF Stopped, Known, Stopping
      <3>2. node' \in [Zones -> Desc \cup {None}]
        BY <2>0, <2>5, <3>1 DEF Stopped, Create
      <3> QED BY <2>0, <2>5, <3>2 DEF Stopped, DiscGoto, DiscPC
    <2> QED BY <2>1, <2>2, <2>3, <2>4, <2>5, <2>6 DEF DiscoveryService
  <1> QED BY <1>2, <1>3, <1>4 DEF DiscoveryInv

\* The first state.
LEMMA InitInv == DiscoveryInit => DiscoveryInv
  <1> SUFFICES ASSUME DiscoveryInit PROVE DiscoveryInv
    OBVIOUS
  <1> USE DEF DiscoveryInit
  <1>1. DiscoveryTypeOK
    <2>1. 0 \in 0..MaxTime /\ 0 \in 0..MaxRev /\ 0 \in 0..MaxTime + LeaseTTL
      BY DiscoveryAssumption
    <2>2. << >> \in Seq([zone : Zones, desc : Desc \cup {None}])
      OBVIOUS
    <2> QED BY <2>1, <2>2 DEF DiscoveryTypeOK, ProcPC, DiscPC
  <1>2. DeletesBounded /\ NeverForgotten
    BY DEF DeletesBounded, NeverForgotten
  <1>3. Len(events) = 0
    OBVIOUS
  <1>4. Known
    BY <1>3 DEF Known, BeforeList, QueueCurrent, LastIs, Listing, Watched, Stopping, Revisions,
                RevsBounded, QueueOrdered, QueueNewer
  <1> QED BY <1>1, <1>2, <1>4 DEF DiscoveryInv

\* Every step.
LEMMA NextInv == DiscoveryInv /\ [DiscoveryNext]_dvars => DiscoveryInv'
  <1> SUFFICES ASSUME DiscoveryInv, [DiscoveryNext]_dvars PROVE DiscoveryInv'
    OBVIOUS
  <1>0. DiscoveryTypeOK /\ DeletesBounded /\ NeverForgotten /\ Known
    BY DEF DiscoveryInv
  <1>1. CASE Tick
    <2>1. now' \in 0..MaxTime /\ UNCHANGED <<etcd, service, events, discoverer>>
      BY <1>0, <1>1, DiscoveryAssumption DEF Tick, DiscoveryTypeOK
    <2>2. Known'
      BY <1>0, <2>1, UnchangedKnown DEF etcd
    <2> QED BY <1>0, <2>1, <2>2 DEF DiscoveryInv, DiscoveryTypeOK, DeletesBounded,
                                    NeverForgotten, etcd, service, discoverer
  <1>2. ASSUME NEW z \in Zones, Expire(z) PROVE DiscoveryInv'
    BY <1>2, DeleteKeeps DEF Expire
  <1>3. ASSUME NEW p \in Procs, ETCDUnregister(p) PROVE DiscoveryInv'
    <2>1. idOf[p] \in Zones
      BY <1>0 DEF DiscoveryTypeOK
    <2> QED BY <1>3, <2>1, DeleteKeeps DEF ETCDUnregister
  <1>4. ASSUME NEW p \in Procs, RegisterPut(p) PROVE DiscoveryInv'
    BY <1>4, RegisterKeeps DEF RegisterPut, ProcPC
  <1>5. ASSUME NEW p \in Procs, RegisterAgain(p) PROVE DiscoveryInv'
    BY <1>5, RegisterKeeps DEF RegisterAgain, ProcPC
  <1>6. ASSUME NEW p \in Procs, RegisterBegin(p) PROVE DiscoveryInv'
    <2>1. PICK to \in ProcPC : to # "up" /\ pc' = [pc EXCEPT ![p] = to]
      BY <1>6 DEF RegisterBegin, ProcGoto, ProcPC
    <2>2. /\ reg' \in [Procs -> 0..MaxTime] /\ deletes' \in [Procs -> 0..MaxRev]
          /\ linked' \subseteq Procs /\ until' \in [Zones -> 0..MaxTime + LeaseTTL]
      BY <1>0, <1>6 DEF RegisterBegin, ProcGoto, DiscoveryTypeOK, etcd
    <2>3. \A q \in Procs : deletes'[q] <= deletes[q] /\ deletes'[q] = deletes[q]
      BY <1>0, <1>6, DiscoveryAssumption DEF RegisterBegin, DiscoveryTypeOK
    <2>4. UNCHANGED <<now, idOf, store, owner, rev, events, discoverer>>
      BY <1>6 DEF RegisterBegin, ProcGoto, etcd
    <2> QED BY <2>1, <2>2, <2>3, <2>4, ProcessKeeps
  <1>7. ASSUME NEW p \in Procs, RegisterGet(p) PROVE DiscoveryInv'
    <2>1. PICK to \in ProcPC : to # "up" /\ pc' = [pc EXCEPT ![p] = to]
      BY <1>7 DEF RegisterGet, ProcGoto, ProcPC
    <2>2. /\ reg' \in [Procs -> 0..MaxTime] /\ deletes' \in [Procs -> 0..MaxRev]
          /\ linked' \subseteq Procs /\ until' \in [Zones -> 0..MaxTime + LeaseTTL]
      BY <1>0, <1>7 DEF RegisterGet, ProcGoto, DiscoveryTypeOK, etcd
    <2>3. \A q \in Procs : deletes'[q] <= deletes[q] /\ deletes'[q] = deletes[q]
      BY <1>0, <1>7, DiscoveryAssumption DEF RegisterGet, DiscoveryTypeOK
    <2>4. UNCHANGED <<now, idOf, store, owner, rev, events, discoverer>>
      BY <1>7 DEF RegisterGet, ProcGoto, etcd
    <2> QED BY <2>1, <2>2, <2>3, <2>4, ProcessKeeps
  <1>8. ASSUME NEW p \in Procs, WatchSelf(p) PROVE DiscoveryInv'
    <2>1. PICK to \in ProcPC :
             (to = "up" => store[idOf[p]] # None) /\ pc' = [pc EXCEPT ![p] = to]
      BY <1>8 DEF WatchSelf, ProcGoto, ProcPC
    <2>2. /\ reg' \in [Procs -> 0..MaxTime] /\ deletes' \in [Procs -> 0..MaxRev]
          /\ linked' \subseteq Procs /\ until' \in [Zones -> 0..MaxTime + LeaseTTL]
      BY <1>0, <1>8 DEF WatchSelf, ProcGoto, DiscoveryTypeOK, etcd
    <2>3. \A q \in Procs : deletes'[q] <= deletes[q] /\ deletes'[q] = deletes[q]
      BY <1>0, <1>8, DiscoveryAssumption DEF WatchSelf, DiscoveryTypeOK
    <2>4. UNCHANGED <<now, idOf, store, owner, rev, events, discoverer>>
      BY <1>8 DEF WatchSelf, ProcGoto, etcd
    <2> QED BY <2>1, <2>2, <2>3, <2>4, ProcessKeeps
  <1>9. ASSUME NEW p \in Procs, SelfDeleted(p) PROVE DiscoveryInv'
    <2>1. "again" \in ProcPC /\ pc' = [pc EXCEPT ![p] = "again"]
      BY <1>9 DEF SelfDeleted, ProcGoto, ProcPC
    <2>2. /\ deletes' \in [Procs -> 0..MaxRev]
          /\ \A q \in Procs : deletes'[q] <= deletes[q] /\ (q # p => deletes'[q] = deletes[q])
      <3>1. /\ deletes \in [Procs -> 0..MaxRev] /\ deletes[p] > 0
            /\ deletes' = [deletes EXCEPT ![p] = @ - 1]
        BY <1>0, <1>9 DEF SelfDeleted, DiscoveryTypeOK
      <3>2. deletes[p] - 1 \in 0..MaxRev /\ \A q \in Procs : deletes[q] \in Nat
        BY <3>1, DiscoveryAssumption
      <3> QED BY <3>1, <3>2
    <2>3. reg' \in [Procs -> 0..MaxTime] /\ linked' \subseteq Procs
          /\ until' \in [Zones -> 0..MaxTime + LeaseTTL]
      BY <1>0, <1>9 DEF SelfDeleted, ProcGoto, DiscoveryTypeOK, etcd
    <2>4. UNCHANGED <<now, idOf, store, owner, rev, events, discoverer>>
      BY <1>9 DEF SelfDeleted, ProcGoto, etcd
    <2> QED BY <2>1, <2>2, <2>3, <2>4, ProcessKeeps
  <1>10. ASSUME NEW p \in Procs, Crash(p) PROVE DiscoveryInv'
    <2>1. "down" \in ProcPC /\ pc' = [pc EXCEPT ![p] = "down"]
      BY <1>10 DEF Crash, ProcPC
    <2>2. /\ deletes' \in [Procs -> 0..MaxRev]
          /\ \A q \in Procs : deletes'[q] <= deletes[q] /\ (q # p => deletes'[q] = deletes[q])
      BY <1>0, <1>10, DiscoveryAssumption DEF Crash, DiscoveryTypeOK
    <2>3. reg' \in [Procs -> 0..MaxTime] /\ linked' \subseteq Procs
      BY <1>0, <1>10, DiscoveryAssumption DEF Crash, DiscoveryTypeOK
    <2>4. until' \in [Zones -> 0..MaxTime + LeaseTTL]
      BY <1>0, <1>10, UnkeptType DEF Crash
    <2>5. UNCHANGED <<now, idOf, store, owner, rev, events, discoverer>>
      BY <1>10 DEF Crash
    <2> QED BY <2>1, <2>2, <2>3, <2>4, <2>5, ProcessKeeps
  <1>11. ASSUME NEW p \in Procs, Cut(p) \/ Heal(p) PROVE DiscoveryInv'
    <2>1. until' \in [Zones -> 0..MaxTime + LeaseTTL]
      <3>1. CASE Cut(p)
        BY <1>0, <3>1, UnkeptType DEF Cut
      <3>2. CASE Heal(p)
        <4>1. 0 \in 0..MaxTime + LeaseTTL
          BY DiscoveryAssumption
        <4> QED BY <1>0, <3>2, <4>1 DEF Heal, DiscoveryTypeOK
      <3> QED BY <1>11, <3>1, <3>2
    <2>2. UNCHANGED <<now, store, owner, rev, idOf, pc, reg, deletes, events, discoverer>>
          /\ linked' \subseteq Procs
      BY <1>0, <1>11 DEF Cut, Heal, DiscoveryTypeOK
    <2>3. Known'
      BY <1>0, <2>2, UnchangedKnown
    <2> QED BY <1>0, <2>1, <2>2, <2>3 DEF DiscoveryInv, DiscoveryTypeOK, DeletesBounded,
                                          NeverForgotten, discoverer
  <1>12. CASE DiscoveryService
    BY <1>12, WatcherKeeps
  <1>13. CASE UNCHANGED dvars
    <2>1. UNCHANGED <<now, etcd, service, events, discoverer>>
      BY <1>13 DEF dvars
    <2>2. Known'
      BY <1>0, <2>1, UnchangedKnown DEF etcd
    <2> QED BY <1>0, <2>1, <2>2 DEF DiscoveryInv, DiscoveryTypeOK, DeletesBounded,
                                    NeverForgotten, etcd, service, discoverer
  <1> QED BY <1>1, <1>2, <1>3, <1>4, <1>5, <1>6, <1>7, <1>8, <1>9, <1>10, <1>11, <1>12, <1>13
       DEF DiscoveryNext, Process

\* What the watcher knows agrees with the store in every state.
THEOREM AlwaysDiscoveryInv == DiscoverySpec => []DiscoveryInv
  BY InitInv, NextInv, PTL DEF DiscoverySpec

\* A process that registered and watches its key never loses it unnoticed.
THEOREM DiscoveryNeverForgotten == DiscoverySpec => []NeverForgotten
  <1>1. DiscoveryInv => NeverForgotten
    BY DEF DiscoveryInv
  <1> QED BY <1>1, AlwaysDiscoveryInv, PTL

\* When everything queued is handled, every registered service that is looked
\* for has a node, made from a registration of the very second of the present
\* one, however the watch and the listing overlapped.
THEOREM DiscoveryConverged == DiscoverySpec => []Converged
  <1>1. DiscoveryInv => Converged
    <2> SUFFICES ASSUME DiscoveryInv, dpc = "loop", events = << >>, NEW z \in Found
                 PROVE node[z] # None /\ (DebugMode \/ node[z].reg = store[z].reg)
      BY DEF DiscoveryInv, Converged
    <2>1. Quiet(events, z)
      BY DEF Quiet
    <2> QED BY <2>1 DEF DiscoveryInv, Known, Watched
  <1> QED BY <1>1, AlwaysDiscoveryInv, PTL

\* A node is given up only for another registration, and for a newer one
\* unless the registration was already there to be listed.
THEOREM DiscoveryOnlyForNewer == DiscoverySpec => OnlyForNewer
  <1> DEFINE Sound == \A z \in Zones :
               node[z] # None /\ node'[z] # node[z] =>
                  /\ sd' # None /\ sd'.zone = z
                  /\ sd'.desc.reg # node[z].reg
                  /\ sd'.desc.rev > node[z].rev \/ sd'.desc.rev <= listRev
  <1>1. DiscoveryInv /\ DiscoveryInv' /\ [DiscoveryNext]_dvars => [Sound]_dvars
    <2> SUFFICES ASSUME DiscoveryInv, DiscoveryInv', DiscoveryNext,
                        NEW z \in Zones, node[z] # None, node'[z] # node[z]
                 PROVE /\ sd' # None /\ sd'.zone = z
                       /\ sd'.desc.reg # node[z].reg
                       /\ sd'.desc.rev > node[z].rev \/ sd'.desc.rev <= listRev
      OBVIOUS
    <2>0. /\ DiscoveryTypeOK /\ Known /\ Stopping /\ Stopping' /\ Listing /\ QueueNewer
          /\ node \in [Zones -> Desc \cup {None}]
      BY DEF DiscoveryInv, Known, Revisions, DiscoveryTypeOK
    <2>1. Event
      <3>1. ListNext \/ Event \/ Stopped
        BY DEF DiscoveryNext, Tick, Expire, Process, RegisterBegin, RegisterGet, RegisterPut,
               RegisterWithTimeOut, WatchSelf, SelfDeleted, RegisterAgain, ETCDUnregister,
               Crash, Cut, Heal, ProcGoto, DiscoveryService, WatchOpen, List, ListFails, discoverer
      <3>2. ~ListNext
        BY <2>0, ListNextPlain DEF Listing
      <3>3. ~Stopped
        BY <2>0 DEF Stopped, Create, Stopping
      <3> QED BY <3>1, <3>2, <3>3
    <2>2. 1 \in 1..Len(events) /\ Head(events) = events[1] /\ Head(events) \in Entry
          /\ Replaces(Head(events)) /\ Head(events).zone = z
      BY <2>0, <2>1, EventCases DEF Keeps, Creates, Replaces, Entry
    <2>3. Newer(1, node[z])
      BY <2>0, <2>2 DEF QueueNewer, Replaces
    <2>4. events[1].desc \in Desc /\ node[z] \in Desc
      BY <2>0, <2>2 DEF Replaces, Entry
    <2>5. events[1].desc.rev \in Nat /\ node[z].rev \in Nat
      BY <2>0, <2>4, Shapes
    <2> QED BY <2>0, <2>2, <2>3, <2>5 DEF Replaces, Newer, Stopping
  <1>2. DiscoverySpec => [][Sound]_dvars
    BY <1>1, AlwaysDiscoveryInv, PTL DEF DiscoverySpec
  <1> QED BY <1>2 DEF OnlyForNewer
=============================================================================
