----------------------------- MODULE NodeProofs -----------------------------
(***************************************************************************)
(* Proofs about what every node has: the registry of its messages, its     *)
(* event queue, which implements Executor for any callbacks, any capacity  *)
(* of the channel, any period and any number of stops, and the frames its  *)
(* sessions write and read, for any messages, limits and keys.             *)
(***************************************************************************)
EXTENDS Registry, EventQueue, Framing, FiniteSetTheorems, SequenceTheorems, TLAPS

-----------------------------------------------------------------------------
(* The message registry.                                                    *)

\* A set whose elements are all the same has at most one.
LEMMA AtMostOne ==
    ASSUME NEW S, \A x, y \in S : x = y
    PROVE  Cardinality(S) <= 1
<1>1. CASE S = {}
  BY <1>1, FS_EmptySet
<1>2. CASE S # {}
  <2>1. PICK x : x \in S
    BY <1>2
  <2>2. S = {x}
    BY <2>1
  <2>3. QED
    BY <2>2, FS_Singleton
<1>3. QED
  BY <1>1, <1>2

Infos == [ID : Ids, Type : MessageTypes]

\* No two infos of the map have the same key.
OneByID == \A a, b \in messageByID : a.ID = b.ID => a = b
OneByType == \A a, b \in messageByType : a.Type = b.Type => a = b
OneByName == \A a, b \in messageByName : NameOf[a.Type] = NameOf[b.Type] => a = b

\* The maps are written in this order, so each holds what the next one does.
RegistryInv ==
    /\ messageByID \subseteq Infos
    /\ messageByType \subseteq messageByID /\ messageByName \subseteq messageByType
    /\ OneByID /\ OneByType /\ OneByName

\* Whatever RegisterMessageInfo panics at, the maps stay within each other and
\* keep one entry per key: each is written after its own check and the checks
\* before it have passed.
LEMMA RegisterKeepsInv ==
    ASSUME RegistryInv, NEW id \in Ids, NEW type \in MessageTypes,
           RegisterMessageInfo(id, type)
    PROVE  RegistryInv'
<1> DEFINE info == [ID |-> id, Type |-> type]
<1>1. /\ info \in Infos /\ info.ID = id /\ info.Type = type
  BY DEF Infos
<1> HIDE DEF info
<1>2. \/ /\ UNCHANGED registry
      \/ /\ ~TakenID(id) /\ messageByID' = messageByID \cup {info}
         /\ UNCHANGED <<messageByType, messageByName>>
      \/ /\ ~TakenID(id) /\ ~TakenType(type)
         /\ messageByID' = messageByID \cup {info}
         /\ messageByType' = messageByType \cup {info} /\ UNCHANGED messageByName
      \/ /\ ~TakenID(id) /\ ~TakenType(type) /\ ~TakenName(type)
         /\ messageByID' = messageByID \cup {info}
         /\ messageByType' = messageByType \cup {info}
         /\ messageByName' = messageByName \cup {info}
  BY DEF RegisterMessageInfo, registry, info
<1>3. /\ messageByID' \subseteq Infos
      /\ messageByType' \subseteq messageByID' /\ messageByName' \subseteq messageByType'
  BY <1>1, <1>2 DEF RegistryInv, registry
<1>4. OneByID'
  BY <1>1, <1>2 DEF RegistryInv, registry, OneByID, TakenID
<1>5. OneByType'
  BY <1>1, <1>2 DEF RegistryInv, registry, OneByType, TakenType
<1>6. OneByName'
  BY <1>1, <1>2 DEF RegistryInv, registry, OneByName, TakenName
<1>7. QED
  BY <1>3, <1>4, <1>5, <1>6 DEF RegistryInv

\* What RegistryInv says of the maps is what the lookups need.
LEMMA RegistryInvIsEnough ==
    RegistryInv => SentIsReceived
<1> SUFFICES ASSUME RegistryInv
             PROVE  SentIsReceived
  OBVIOUS
<1>1. \A id \in Ids : Cardinality(MessageInfoByID(id)) <= 1
  BY AtMostOne DEF RegistryInv, OneByID, MessageInfoByID
<1>2. ASSUME NEW type \in MessageTypes
      PROVE  /\ Cardinality(MessageInfoByMsg(type)) <= 1
             /\ Cardinality(MessageInfoByName(NameOf[type])) <= 1
  BY AtMostOne DEF RegistryInv, OneByType, OneByName, MessageInfoByMsg, MessageInfoByName
<1>3. ASSUME NEW type \in MessageTypes, NEW info \in MessageInfoByMsg(type)
      PROVE  /\ info \in MessageInfoByID(info.ID)
             /\ \A other \in MessageInfoByID(info.ID) : other.Type = type
  BY <1>3 DEF RegistryInv, OneByID, MessageInfoByMsg, MessageInfoByID
<1>4. ASSUME NEW type \in MessageTypes
      PROVE  MessageInfoByName(NameOf[type]) \subseteq messageByType
  BY DEF RegistryInv, MessageInfoByName
<1>5. QED
  BY <1>1, <1>2, <1>3, <1>4 DEF SentIsReceived

\* RegistryInv holds however often RegisterMessageInfo is called or panics.
LEMMA AlwaysRegistryInv ==
    RegistrySpec => []RegistryInv
<1>1. RegistryInit => RegistryInv
  BY DEF RegistryInit, RegistryInv, OneByID, OneByType, OneByName
<1>2. RegistryInv /\ [RegistryNext]_registry => RegistryInv'
  <2> SUFFICES ASSUME RegistryInv, [RegistryNext]_registry
               PROVE  RegistryInv'
    OBVIOUS
  <2>1. CASE RegistryNext
    BY <2>1, RegisterKeepsInv DEF RegistryNext
  <2>2. CASE UNCHANGED registry
    BY <2>2 DEF registry, RegistryInv, OneByID, OneByType, OneByName
  <2>3. QED
    BY <2>1, <2>2
<1>3. QED
  BY <1>1, <1>2, PTL DEF RegistrySpec

\* A message that can be sent is received as what it is, for any types, names
\* and ids, and after any conflicts that RegisterMessageInfo panicked at.
THEOREM RegistrySentIsReceived ==
    RegistrySpec => []SentIsReceived
  BY AlwaysRegistryInv, RegistryInvIsEnough, PTL

-----------------------------------------------------------------------------
(* The event queue: the inductive invariant.                                *)

\* Callbacks the loop took from the channel, the running one included.
Taken == Len(executed) + (IF cur = Nil THEN 0 ELSE 1)

\* The loop holds a callback while it runs it, and the WaitGroup while it lives.
Phases ==
    /\ cur # Nil <=> loop = "call"
    /\ wg = IF loop \in {"off", "exited"} THEN 0 ELSE 1

\* No callback is posted twice, and those that were taken were posted.
Once ==
    /\ \A a, b \in 1..Len(posted) : posted[a] = posted[b] => a = b
    /\ Taken <= Len(posted)
    /\ cur # Nil => posted[Taken] = cur

\* The channel holds exactly the callbacks posted and not taken, in order.
Only ==
    \A i \in 1..Len(queList) :
       queList[i] # Nil => \E a \in Taken + 1..Len(posted) : queList[i] = posted[a]
Complete ==
    \A a \in Taken + 1..Len(posted) : \E i \in 1..Len(queList) : queList[i] = posted[a]
Ordered ==
    \A i, j \in 1..Len(queList) : \A a, b \in 1..Len(posted) :
       i < j /\ queList[i] = posted[a] /\ queList[j] = posted[b] => a < b

\* The first nil stands at k, behind what was posted before the first stop and
\* before everything posted later.
Fence(k) ==
    /\ queList[k] = Nil
    /\ \A j \in 1..Len(queList) :
         /\ j < k => queList[j] # Nil
         /\ \A a \in 1..Len(posted) : queList[j] = posted[a] => (j < k <=> a <= cutoff)

Stops ==
    /\ cutoff = NoLimit => loop # "exited" /\ \A i \in 1..Len(queList) : queList[i] # Nil
    /\ cutoff # NoLimit => cutoff <= Len(posted)
    /\ cutoff # NoLimit /\ loop # "exited" =>
         Taken <= cutoff /\ \E k \in 1..Len(queList) : Fence(k)

\* One update at the start, then at most one for every period gone by.
Throttle ==
    IF loop \in {"off", "startup"} THEN updates = 0
    ELSE updates <= 1 + (nowTime1 \div Period)

QueueInv ==
    /\ QueueTypeOK /\ Phases
    /\ Once /\ Only /\ Complete /\ Ordered
    /\ Stops /\ Throttle

-----------------------------------------------------------------------------
(* Division.                                                                *)

\* What a quotient says of its dividend.
LEMMA Quotient ==
    ASSUME NEW a \in Nat, NEW d \in Nat \ {0}
    PROVE a \div d \in Nat /\ d * (a \div d) <= a /\ a < d * (a \div d) + d
  OBVIOUS

\* A product grows with its factor.
LEMMA ProductGrows ==
    ASSUME NEW d \in Nat, NEW q \in Nat, NEW r \in Nat, r <= q
    PROVE d * r <= d * q /\ d * r \in Nat /\ d * q \in Nat
  <1>1. q - r \in Nat /\ q = r + (q - r)
    OBVIOUS
  <1>2. d * q = d * r + d * (q - r)
    BY <1>1
  <1>3. d * r \in Nat /\ d * (q - r) \in Nat
    BY <1>1
  <1> QED BY <1>2, <1>3

\* A period later there is one update more to give; otherwise no less.
LEMMA PeriodsGrow ==
    ASSUME NEW a \in Nat, NEW b \in Nat, NEW d \in Nat \ {0}
    PROVE /\ a <= b => a \div d <= b \div d
          /\ a + d <= b => (a \div d) + 1 <= b \div d
  <1> DEFINE q == a \div d
             r == b \div d
  <1>1. q \in Nat /\ d * q <= a /\ r \in Nat /\ b < d * r + d
    BY Quotient
  <1>2. d * r + d = d * (r + 1) /\ d * q + d = d * (q + 1)
    BY <1>1
  <1> HIDE DEF q, r
  <1>3. ASSUME a <= b, ~(q <= r) PROVE FALSE
    <2>1. d * (r + 1) <= d * q /\ d * (r + 1) \in Nat /\ d * q \in Nat
      BY <1>1, <1>3, ProductGrows
    <2> QED BY <1>1, <1>2, <1>3, <2>1
  <1>4. ASSUME a + d <= b, ~(q + 1 <= r) PROVE FALSE
    <2>1. d * r <= d * q /\ d * r \in Nat /\ d * q \in Nat
      BY <1>1, <1>4, ProductGrows
    <2> QED BY <1>1, <1>2, <1>4, <2>1
  <1> QED BY <1>1, <1>3, <1>4 DEF q, r

-----------------------------------------------------------------------------
(* The channel.                                                             *)

QueueOK == Once /\ Only /\ Complete /\ Ordered

\* What the parts of the state are in every state.
LEMMA QueueShapes ==
    ASSUME QueueTypeOK
    PROVE /\ Len(queList) \in Nat /\ Len(posted) \in Nat /\ Len(executed) \in Nat
          /\ Taken \in Nat
          /\ \A i \in 1..Len(queList) : queList[i] \in Callbacks \cup {Nil}
          /\ \A a \in 1..Len(posted) : posted[a] \in Callbacks /\ posted[a] # Nil
  <1>1. \A a \in 1..Len(posted) : posted[a] \in Callbacks
    BY DEF QueueTypeOK
  <1>2. /\ Len(queList) \in Nat /\ Len(posted) \in Nat /\ Len(executed) \in Nat
        /\ \A i \in 1..Len(queList) : queList[i] \in Callbacks \cup {Nil}
    BY DEF QueueTypeOK
  <1>3. Taken \in Nat
    BY <1>2 DEF Taken
  <1> QED BY <1>1, <1>2, <1>3, QueueAssumption

\* PostCb returned, to another goroutine or to a callback.
Enqueued(c) ==
    /\ queList' = Append(queList, c) /\ posted' = Append(posted, c)
    /\ UNCHANGED <<cur, executed, loop, cutoff>>

\* It puts a new callback behind the rest, behind the fence if there is one.
LEMMA Enqueue ==
    ASSUME QueueTypeOK, QueueOK, Stops, NEW c \in Callbacks, c \notin Posted, Enqueued(c)
    PROVE QueueOK' /\ Stops'
  <1> DEFINE m == Len(queList) + 1
             n == Len(posted) + 1
  <1>1. /\ Len(queList') = m /\ queList'[m] = c /\ m \in 1..Len(queList')
        /\ \A i \in 1..Len(queList) : queList'[i] = queList[i] /\ i \in 1..Len(queList')
        /\ \A i \in 1..Len(queList') : i \in 1..Len(queList) \/ i = m
    BY DEF QueueTypeOK, Enqueued
  <1>2. /\ Len(posted') = n /\ posted'[n] = c /\ n \in 1..Len(posted')
        /\ \A a \in 1..Len(posted) : posted'[a] = posted[a] /\ a \in 1..Len(posted')
        /\ \A a \in 1..Len(posted') : a \in 1..Len(posted) \/ a = n
    BY DEF QueueTypeOK, Enqueued
  <1>3. /\ Taken' = Taken /\ Taken \in Nat /\ Taken <= Len(posted)
        /\ Len(posted) \in Nat /\ Len(queList) \in Nat
        /\ c # Nil /\ \A a \in 1..Len(posted) : posted[a] # c
        /\ UNCHANGED <<cur, loop, cutoff>>
    BY QueueShapes, QueueAssumption
       DEF Taken, QueueOK, Once, Posted, QueueTypeOK, Enqueued
  <1>4. \A i \in 1..Len(queList) : queList[i] # c
    <2> SUFFICES ASSUME NEW i \in 1..Len(queList), queList[i] = c PROVE FALSE
      OBVIOUS
    <2>1. PICK a \in Taken + 1..Len(posted) : queList[i] = posted[a]
      BY <1>3 DEF QueueOK, Only
    <2> QED BY <1>3, <2>1
  <1> HIDE DEF m, n
  <1>5. Once'
    <2>1. cur # Nil => Taken \in 1..Len(posted)
      BY <1>3, QueueShapes DEF Taken
    <2> QED BY <1>2, <1>3, <2>1 DEF QueueOK, Once, n
  <1>6. Only'
    <2> SUFFICES ASSUME NEW i \in 1..Len(queList'), queList'[i] # Nil
                 PROVE \E a \in Taken + 1..Len(posted') : queList'[i] = posted'[a]
      BY <1>3 DEF Only
    <2>1. CASE i \in 1..Len(queList)
      <3>1. PICK a \in Taken + 1..Len(posted) : queList[i] = posted[a]
        BY <1>1, <2>1 DEF QueueOK, Only
      <3>2. a \in 1..Len(posted) /\ a \in Taken + 1..Len(posted')
        BY <1>2, <1>3, <3>1 DEF n
      <3> QED BY <1>1, <1>2, <2>1, <3>1, <3>2
    <2>2. CASE i = m
      <3>1. n \in Taken + 1..Len(posted')
        BY <1>2, <1>3 DEF n
      <3> QED BY <1>1, <1>2, <2>2, <3>1
    <2> QED BY <1>1, <2>1, <2>2
  <1>7. Complete'
    <2> SUFFICES ASSUME NEW a \in Taken + 1..Len(posted')
                 PROVE \E i \in 1..Len(queList') : queList'[i] = posted'[a]
      BY <1>3 DEF Complete
    <2>1. CASE a = n
      BY <1>1, <1>2, <2>1
    <2>2. CASE a # n
      <3>1. a \in Taken + 1..Len(posted) /\ a \in 1..Len(posted)
        BY <1>2, <1>3, <2>2 DEF n
      <3>2. PICK i \in 1..Len(queList) : queList[i] = posted[a]
        BY <3>1 DEF QueueOK, Complete
      <3> QED BY <1>1, <1>2, <3>1, <3>2
    <2> QED BY <2>1, <2>2
  <1>8. Ordered'
    <2> SUFFICES ASSUME NEW i \in 1..Len(queList'), NEW j \in 1..Len(queList'),
                        NEW a \in 1..Len(posted'), NEW b \in 1..Len(posted'),
                        i < j, queList'[i] = posted'[a], queList'[j] = posted'[b]
                 PROVE a < b
      BY DEF Ordered
    <2>1. i \in 1..Len(queList)
      BY <1>1, <1>3 DEF m
    <2>2. a \in 1..Len(posted)
      BY <1>1, <1>2, <1>4, <2>1
    <2>3. CASE b = n
      BY <1>3, <2>2, <2>3 DEF n
    <2>4. CASE b \in 1..Len(posted)
      <3>1. j \in 1..Len(queList)
        BY <1>1, <1>2, <1>3, <2>4
      <3> QED BY <1>1, <1>2, <2>1, <2>2, <2>4, <3>1 DEF QueueOK, Ordered
    <2> QED BY <1>2, <2>3, <2>4
  <1>9. Stops'
    <2>1. cutoff = NoLimit => loop # "exited" /\ \A i \in 1..Len(queList') : queList'[i] # Nil
      BY <1>1, <1>3 DEF Stops
    <2>2. cutoff # NoLimit => cutoff <= Len(posted) /\ cutoff <= Len(posted') /\ cutoff \in Nat
      BY <1>2, <1>3 DEF Stops, n, QueueTypeOK
    <2>3. ASSUME cutoff # NoLimit, loop # "exited"
          PROVE \E k \in 1..Len(queList') : Fence(k)'
      <3>1. PICK k \in 1..Len(queList) : Fence(k)
        BY <2>3 DEF Stops
      <3>2. queList'[k] = Nil /\ k \in 1..Len(queList')
        BY <1>1, <3>1 DEF Fence
      <3>3. ASSUME NEW j \in 1..Len(queList')
            PROVE /\ j < k => queList'[j] # Nil
                  /\ \A a \in 1..Len(posted') :
                        queList'[j] = posted'[a] => (j < k <=> a <= cutoff)
        <4>1. CASE j \in 1..Len(queList)
          <5>1. \A a \in 1..Len(posted') : queList'[j] = posted'[a] => a \in 1..Len(posted)
            BY <1>1, <1>2, <1>4, <4>1
          <5> QED BY <1>1, <1>2, <3>1, <4>1, <5>1 DEF Fence
        <4>2. CASE j = m
          <5>1. ~(j < k)
            BY <1>3, <4>2 DEF m
          <5>2. \A a \in 1..Len(posted') : queList'[j] = posted'[a] => a = n
            BY <1>1, <1>2, <1>3, <4>2
          <5>3. ~(n <= cutoff)
            BY <1>3, <2>2, <2>3 DEF n
          <5> QED BY <5>1, <5>2, <5>3
        <4> QED BY <1>1, <4>1, <4>2
      <3>4. Fence(k)'
        BY <1>3, <3>2, <3>3 DEF Fence
      <3> QED BY <3>2, <3>4
    <2> QED BY <1>3, <2>1, <2>2, <2>3 DEF Stops
  <1> QED BY <1>5, <1>6, <1>7, <1>8, <1>9 DEF QueueOK

\* StopQueue: the first nil is the fence.
LEMMA Fenced ==
    ASSUME QueueTypeOK, QueueOK, Phases, Stops, StopQueue
    PROVE QueueOK' /\ Stops'
  <1> DEFINE m == Len(queList) + 1
  <1>1. /\ Len(queList') = m /\ queList'[m] = Nil /\ m \in 1..Len(queList')
        /\ \A i \in 1..Len(queList) : queList'[i] = queList[i] /\ i \in 1..Len(queList')
        /\ \A i \in 1..Len(queList') : i \in 1..Len(queList) \/ i = m
    BY DEF QueueTypeOK, StopQueue
  <1>2. UNCHANGED <<posted, executed, cur, loop>>
    BY DEF StopQueue, callbacks
  <1>3. /\ Taken' = Taken /\ Taken \in Nat /\ Taken <= Len(posted)
        /\ Len(posted) \in Nat /\ Len(queList) \in Nat
        /\ \A a \in 1..Len(posted) : posted[a] # Nil
    BY <1>2, QueueShapes DEF Taken, QueueOK, Once
  <1> HIDE DEF m
  <1>4. Once' /\ Only' /\ Complete'
    <2>1. Once'
      BY <1>1, <1>2, <1>3 DEF QueueOK, Once
    <2>2. Only'
      BY <1>1, <1>2, <1>3 DEF QueueOK, Only
    <2>3. Complete'
      BY <1>1, <1>2, <1>3 DEF QueueOK, Complete
    <2> QED BY <2>1, <2>2, <2>3
  <1>5. Ordered'
    <2>1. SUFFICES ASSUME NEW i \in 1..Len(queList'), NEW j \in 1..Len(queList'),
                          NEW a \in 1..Len(posted), NEW b \in 1..Len(posted),
                          i < j, queList'[i] = posted[a], queList'[j] = posted[b]
                   PROVE  a < b
      BY <1>2 DEF Ordered
    <2>2. i # m /\ j # m
      BY <1>1, <1>3, <2>1
    <2>3. /\ i \in 1..Len(queList) /\ j \in 1..Len(queList)
          /\ queList[i] = posted[a] /\ queList[j] = posted[b]
      BY <1>1, <2>1, <2>2
    <2> QED BY <2>1, <2>3 DEF QueueOK, Ordered
  <1>6. CASE cutoff = NoLimit
    <2>1. cutoff' = Len(posted) /\ cutoff' # NoLimit
      BY <1>3, <1>6 DEF StopQueue, NoLimit
    <2>2. \A i \in 1..Len(queList) : queList[i] # Nil
      BY <1>6 DEF Stops
    <2>3. ASSUME NEW k \in 1..Len(queList'), k = m PROVE Fence(k)'
      <3>1. ASSUME NEW j \in 1..Len(queList')
            PROVE /\ j < k => queList'[j] # Nil
                  /\ \A a \in 1..Len(posted) :
                        queList'[j] = posted[a] => (j < k <=> a <= cutoff')
        <4>1. CASE j = m
          BY <1>1, <1>3, <4>1 DEF m
        <4>2. CASE j \in 1..Len(queList)
          <5>1. j < k
            BY <1>3, <2>3, <4>2 DEF m
          <5>2. \A a \in 1..Len(posted) : a <= cutoff'
            BY <1>3, <2>1
          <5> QED BY <1>1, <2>2, <4>2, <5>1, <5>2
        <4> QED BY <1>1, <4>1, <4>2
      <3> QED BY <1>1, <1>2, <2>3, <3>1 DEF Fence
    <2>4. \E k \in 1..Len(queList') : Fence(k)'
      BY <1>1, <2>3
    <2>5. Stops'
      BY <1>2, <1>3, <2>1, <2>4 DEF Stops
    <2> QED BY <1>4, <1>5, <2>5 DEF QueueOK
  <1>7. CASE cutoff # NoLimit
    <2>1. cutoff' = cutoff
      BY <1>7 DEF StopQueue
    <2>2. ASSUME loop # "exited" PROVE \E k \in 1..Len(queList') : Fence(k)'
      <3>1. PICK k \in 1..Len(queList) : Fence(k)
        BY <1>7, <2>2 DEF Stops
      <3>2. ~(m < k) /\ k \in 1..Len(queList')
        BY <1>1, <1>3 DEF m
      <3>3. Fence(k)'
        BY <1>1, <1>2, <1>3, <2>1, <3>1, <3>2 DEF Fence
      <3> QED BY <3>2, <3>3
    <2> QED BY <1>2, <1>3, <1>4, <1>5, <1>7, <2>1, <2>2 DEF QueueOK, Stops
  <1> QED BY <1>6, <1>7

\* A nil is taken only when everything before the stop has run ...
LEMMA NilIsLast ==
    ASSUME QueueTypeOK, QueueOK, Phases, Stops, loop = "select", queList # << >>,
           Head(queList) = Nil
    PROVE cutoff # NoLimit /\ Len(executed) = cutoff
  <1>1. 1 \in 1..Len(queList) /\ queList[1] = Nil
    BY DEF QueueTypeOK
  <1>2. cutoff # NoLimit /\ cutoff \in Nat
    BY <1>1 DEF Stops, QueueTypeOK
  <1>3. PICK k \in 1..Len(queList) : Fence(k)
    BY <1>2 DEF Stops
  <1>4. k = 1
    BY <1>1, <1>3, QueueShapes DEF Fence
  <1>5. Taken = Len(executed) /\ Taken <= cutoff /\ cutoff <= Len(posted)
        /\ Taken \in Nat /\ Len(posted) \in Nat
    BY <1>2, QueueShapes DEF Phases, Taken, Stops
  <1>6. ASSUME Taken < cutoff PROVE FALSE
    <2>1. Taken + 1 \in Taken + 1..Len(posted) /\ Taken + 1 \in 1..Len(posted)
      BY <1>2, <1>5, <1>6
    <2>2. PICK i \in 1..Len(queList) : queList[i] = posted[Taken + 1]
      BY <2>1 DEF QueueOK, Complete
    <2>3. i < 1
      BY <1>2, <1>3, <1>4, <1>5, <1>6, <2>1, <2>2 DEF Fence
    <2> QED BY <2>3, QueueShapes
  <1> QED BY <1>2, <1>5, <1>6

\* ... and a callback taken is the next of those posted, and not one after the
\* stop.
LEMMA CallbackIsNext ==
    ASSUME QueueTypeOK, QueueOK, Phases, Stops, loop = "select", queList # << >>,
           Head(queList) # Nil
    PROVE /\ Taken + 1 \in 1..Len(posted) /\ Head(queList) = posted[Taken + 1]
          /\ cutoff # NoLimit => Taken + 1 <= cutoff
  <1>1. 1 \in 1..Len(queList) /\ queList[1] = Head(queList)
    BY DEF QueueTypeOK
  <1>2. PICK a \in Taken + 1..Len(posted) : queList[1] = posted[a]
    BY <1>1 DEF QueueOK, Only
  <1>3. /\ Taken + 1 \in Taken + 1..Len(posted) /\ Taken + 1 \in 1..Len(posted)
        /\ a \in 1..Len(posted) /\ Taken \in Nat
    BY <1>2, QueueShapes
  <1>4. PICK i \in 1..Len(queList) : queList[i] = posted[Taken + 1]
    BY <1>3 DEF QueueOK, Complete
  <1>5. i = 1
    <2> SUFFICES ASSUME i # 1 PROVE FALSE
      OBVIOUS
    <2>1. 1 < i
      BY QueueShapes
    <2>2. a < Taken + 1
      BY <1>1, <1>2, <1>3, <1>4, <2>1 DEF QueueOK, Ordered
    <2> QED BY <1>2, <1>3, <2>2
  <1>6. ASSUME cutoff # NoLimit PROVE Taken + 1 <= cutoff
    <2>1. PICK k \in 1..Len(queList) : Fence(k)
      BY <1>6 DEF Stops
    <2>2. 1 < k
      BY <1>1, <2>1, QueueShapes DEF Fence
    <2> QED BY <1>1, <1>3, <1>4, <1>5, <2>1, <2>2 DEF Fence
  <1> QED BY <1>1, <1>3, <1>4, <1>5, <1>6

\* What is left of the channel after its first is taken.
LEMMA TailFacts ==
    ASSUME QueueTypeOK, queList # << >>, queList' = Tail(queList)
    PROVE /\ Len(queList) \in Nat /\ 1 \in 1..Len(queList) /\ Head(queList) = queList[1]
          /\ Len(queList') = Len(queList) - 1
          /\ queList' \in Seq(Callbacks \cup {Nil}) /\ Len(queList') <= Cap
          /\ \A i \in 1..Len(queList') :
                i + 1 \in 1..Len(queList) /\ i + 1 > 1 /\ queList'[i] = queList[i + 1]
          /\ \A i \in 1..Len(queList) :
                i # 1 => i - 1 \in 1..Len(queList') /\ queList'[i - 1] = queList[i]
  <1>1. queList' \in Seq(Callbacks \cup {Nil})
    BY DEF QueueTypeOK
  <1>2. /\ Len(queList) \in Nat /\ 1 \in 1..Len(queList) /\ Head(queList) = queList[1]
        /\ Len(queList') = Len(queList) - 1
        /\ \A i \in 1..Len(queList') :
              i + 1 \in 1..Len(queList) /\ i + 1 > 1 /\ queList'[i] = queList[i + 1]
    BY DEF QueueTypeOK
  <1>3. \A i \in 1..Len(queList) :
           i # 1 => i - 1 \in 1..Len(queList') /\ queList'[i - 1] = queList[i]
    BY <1>2
  <1>4. Len(queList') <= Cap
    BY <1>2, QueueAssumption DEF QueueTypeOK
  <1> QED BY <1>1, <1>2, <1>3, <1>4

\* Take keeps the channel in agreement with what was posted.
LEMMA Dequeue ==
    ASSUME QueueTypeOK, QueueOK, Phases, Stops, Take
    PROVE QueueOK' /\ Stops'
  <1>0. /\ loop = "select" /\ queList # << >> /\ queList' = Tail(queList) /\ cur = Nil
        /\ UNCHANGED <<posted, executed, cutoff>>
        /\ Taken = Len(executed)
    BY DEF Take, LoopGoto, Phases, Taken
  <1> DEFINE Q == Len(queList)
             R == Len(queList')
  <1>1. /\ Q \in Nat /\ 1 \in 1..Q /\ Head(queList) = queList[1] /\ R = Q - 1
        /\ \A i \in 1..R : i + 1 \in 1..Q /\ i + 1 > 1 /\ queList'[i] = queList[i + 1]
        /\ \A i \in 1..Q : i # 1 => i - 1 \in 1..R /\ queList'[i - 1] = queList[i]
    BY <1>0, TailFacts
  <1>2. /\ Taken \in Nat /\ Len(posted) \in Nat
        /\ \A a \in 1..Len(posted) : posted[a] # Nil /\ posted[a] \in Callbacks
    BY QueueShapes
  <1>3. Ordered'
    <2>0. posted' = posted
      BY <1>0
    <2> SUFFICES ASSUME NEW i \in 1..R, NEW j \in 1..R,
                        NEW a \in 1..Len(posted), NEW b \in 1..Len(posted),
                        i < j, queList'[i] = posted[a], queList'[j] = posted[b]
                 PROVE a < b
      BY <2>0, Zenon DEF Ordered
    <2>1. i + 1 < j + 1
      BY <1>1
    <2> QED BY <1>1, <2>1 DEF QueueOK, Ordered
  <1>4. CASE queList[1] = Nil
    <2>1. loop' = "exited" /\ UNCHANGED cur
      BY <1>1, <1>4 DEF Take, LoopGoto
    <2>2. Taken' = Taken
      BY <1>0, <2>1 DEF Taken
    <2>3. Once' /\ Only'
      BY <1>0, <1>1, <2>1, <2>2 DEF QueueOK, Once, Only
    <2>4. Complete'
      <3> SUFFICES ASSUME NEW a \in Taken + 1..Len(posted)
                   PROVE \E i \in 1..R : queList'[i] = posted[a]
        BY <1>0, <2>2 DEF Complete
      <3>1. PICK i \in 1..Q : queList[i] = posted[a]
        BY DEF QueueOK, Complete
      <3>2. i # 1
        BY <1>2, <1>4, <3>1
      <3> QED BY <1>1, <3>1, <3>2
    <2>5. Stops'
      <3>1. cutoff # NoLimit
        BY <1>0, <1>1, <1>4, NilIsLast
      <3> QED BY <1>0, <2>1, <3>1 DEF Stops
    <2> QED BY <1>3, <2>3, <2>4, <2>5 DEF QueueOK
  <1>5. CASE queList[1] # Nil
    <2>1. loop' = "call" /\ cur' = queList[1]
      BY <1>1, <1>5 DEF Take, LoopGoto
    <2>2. Taken' = Taken + 1
      BY <1>0, <1>5, <2>1 DEF Taken
    <2>3. /\ Taken + 1 \in 1..Len(posted) /\ queList[1] = posted[Taken + 1]
          /\ cutoff # NoLimit => Taken + 1 <= cutoff
      BY <1>0, <1>1, <1>5, CallbackIsNext
    <2>4. Once'
      BY <1>0, <1>2, <2>1, <2>2, <2>3 DEF QueueOK, Once
    <2>5. Only'
      <3> SUFFICES ASSUME NEW i \in 1..R, queList'[i] # Nil
                   PROVE \E a \in Taken + 2..Len(posted) : queList'[i] = posted[a]
        BY <1>0, <1>2, <2>2 DEF Only
      <3>1. PICK a \in Taken + 1..Len(posted) : queList[i + 1] = posted[a]
        BY <1>1 DEF QueueOK, Only
      <3>2. a \in 1..Len(posted)
        BY <1>2
      <3>3. Taken + 1 < a
        BY <1>1, <2>3, <3>1, <3>2 DEF QueueOK, Ordered
      <3> QED BY <1>1, <1>2, <3>1, <3>3
    <2>6. Complete'
      <3> SUFFICES ASSUME NEW a \in Taken + 2..Len(posted)
                   PROVE \E i \in 1..R : queList'[i] = posted[a]
        BY <1>0, <1>2, <2>2 DEF Complete
      <3>1. a \in Taken + 1..Len(posted) /\ a \in 1..Len(posted) /\ a # Taken + 1
        BY <1>2
      <3>2. PICK i \in 1..Q : queList[i] = posted[a]
        BY <3>1 DEF QueueOK, Complete
      <3>3. i # 1
        BY <2>3, <3>1, <3>2 DEF QueueOK, Once
      <3> QED BY <1>1, <3>2, <3>3
    <2>7. Stops'
      <3>1. cutoff = NoLimit => \A i \in 1..R : queList'[i] # Nil
        BY <1>1 DEF Stops
      <3>2. ASSUME cutoff # NoLimit PROVE \E k \in 1..R : Fence(k)'
        <4>1. PICK k \in 1..Q : Fence(k)
          BY <1>0, <3>2 DEF Stops
        <4>2. k # 1
          BY <1>5, <4>1 DEF Fence
        <4>3. PICK l \in 1..R : l = k - 1 /\ queList'[l] = queList[k]
          BY <1>1, <4>2
        <4>4. \A j \in 1..R : j < l <=> j + 1 < k
          BY <1>1, <4>3
        <4>5. Fence(l)'
          BY <1>0, <1>1, <4>1, <4>3, <4>4 DEF Fence
        <4> QED BY <4>5
      <3> QED BY <1>0, <2>1, <2>2, <2>3, <3>1, <3>2 DEF Stops
    <2> QED BY <1>3, <2>4, <2>5, <2>6, <2>7 DEF QueueOK
  <1> QED BY <1>4, <1>5

\* A step that neither posts nor takes.
LEMMA SameQueue ==
    ASSUME QueueOK, Stops, UNCHANGED <<queList, posted, cutoff>>, Taken' = Taken,
           cur' = cur \/ cur' = Nil, loop # "exited", loop' # "exited"
    PROVE QueueOK' /\ Stops'
  <1>1. Once'
    BY DEF QueueOK, Once
  <1>2. Only' /\ Complete' /\ Ordered'
    BY DEF QueueOK, Only, Complete, Ordered
  <1>3. Stops'
    BY DEF Stops, Fence
  <1> QED BY <1>1, <1>2, <1>3 DEF QueueOK

-----------------------------------------------------------------------------
(* Every step.                                                              *)

\* The time of the last update and their number stay, and so does whether
\* there was one.
LEMMA SameThrottle ==
    ASSUME Throttle, UNCHANGED <<nowTime1, updates>>,
           loop' \in {"off", "startup"} <=> loop \in {"off", "startup"}
    PROVE Throttle'
  BY DEF Throttle

\* The first state.
LEMMA InitQueue == QueueInit => QueueInv
  <1> SUFFICES ASSUME QueueInit PROVE QueueInv
    OBVIOUS
  <1>1. Len(queList) = 0 /\ Len(posted) = 0 /\ Len(executed) = 0
    BY DEF QueueInit
  <1>2. QueueTypeOK
    <2>1. startup \in Startups
      BY DEF QueueInit, Startups
    <2>2. cutoff \in Nat \cup {NoLimit}
      BY DEF QueueInit
    <2> QED BY <1>1, <2>1, <2>2, QueueAssumption DEF QueueInit, QueueTypeOK, LoopPC
  <1>3. Taken = 0
    BY <1>1 DEF QueueInit, Taken
  <1>4. Once /\ Only /\ Complete /\ Ordered
    BY <1>1, <1>3 DEF QueueInit, Once, Only, Complete, Ordered
  <1> QED BY <1>1, <1>2, <1>4 DEF QueueInit, QueueInv, Phases, Stops, Throttle

\* A post by another goroutine or by a callback.
LEMMA EnqueueKeeps ==
    ASSUME QueueInv, NEW c \in Callbacks, c \notin Posted, Len(queList) < Cap, Enqueued(c),
           UNCHANGED <<wg, stops, startup, ticks, nowTime1, updates>>,
           todo' \in Children \cup {Nil}
    PROVE QueueInv'
  <1>0. QueueTypeOK /\ Phases /\ QueueOK /\ Stops /\ Throttle
    BY DEF QueueInv, QueueOK
  <1>1. UNCHANGED <<cur, executed, loop, cutoff>>
    BY DEF Enqueued
  <1>2. QueueOK' /\ Stops'
    BY <1>0, Enqueue
  <1>3. posted' \in Seq(Callbacks)
    BY <1>0 DEF Enqueued, QueueTypeOK
  <1>4. queList' \in Seq(Callbacks \cup {Nil}) /\ Len(queList') <= Cap
    BY <1>0, QueueAssumption DEF Enqueued, QueueTypeOK
  <1>5. QueueTypeOK'
    BY <1>0, <1>1, <1>3, <1>4 DEF QueueTypeOK
  <1>6. Phases'
    BY <1>0, <1>1 DEF Phases
  <1>7. Throttle'
    BY <1>0, <1>1, SameThrottle
  <1> QED BY <1>2, <1>5, <1>6, <1>7 DEF QueueInv, QueueOK

\* Every step keeps the invariant.
LEMMA NextQueue == QueueInv /\ [QueueNext]_queuevars => QueueInv'
  <1> SUFFICES ASSUME QueueInv, [QueueNext]_queuevars PROVE QueueInv'
    OBVIOUS
  <1>0. QueueTypeOK /\ Phases /\ QueueOK /\ Stops /\ Throttle
    BY DEF QueueInv, QueueOK
  <1> SUFFICES QueueTypeOK' /\ Phases' /\ QueueOK' /\ Stops' /\ Throttle'
    BY DEF QueueInv, QueueOK
  <1> USE DEF callbacks, time
  <1>1. CASE StartQueue
    <2>1. /\ UNCHANGED <<queList, cur, todo, posted, executed, stops, cutoff, startup, ticks,
                         nowTime1, updates>>
          /\ loop = "off" /\ loop' = "startup" /\ wg = 0 /\ wg' = 1
      BY <1>0, <1>1 DEF StartQueue, Phases
    <2>2. QueueOK' /\ Stops'
      BY <1>0, <2>1, SameQueue DEF Taken
    <2> QED BY <1>0, <2>1, <2>2, SameThrottle DEF QueueTypeOK, Phases, LoopPC
  <1>2. CASE StopQueue
    <2>1. /\ UNCHANGED <<cur, todo, posted, executed, loop, wg, startup, ticks,
                         nowTime1, updates>>
          /\ queList' = Append(queList, Nil) /\ Len(queList) < Cap
          /\ stops' \in 0..MaxStops /\ cutoff' \in {cutoff, Len(posted)}
      BY <1>0, <1>2, QueueAssumption DEF StopQueue, QueueTypeOK
    <2>2. QueueOK' /\ Stops'
      BY <1>0, <1>2, Fenced
    <2>3. queList' \in Seq(Callbacks \cup {Nil}) /\ Len(queList') <= Cap
      BY <1>0, <2>1, QueueAssumption DEF QueueTypeOK
    <2>4. cutoff' \in Nat \cup {NoLimit}
      BY <1>0, <2>1, QueueShapes DEF QueueTypeOK
    <2> QED BY <1>0, <2>1, <2>2, <2>3, <2>4, SameThrottle DEF QueueTypeOK, Phases
  <1>3. CASE StartupTime
    <2>1. /\ UNCHANGED <<queList, cur, todo, posted, executed, stops, cutoff, wg, loop, ticks,
                         nowTime1, updates>>
          /\ startup' \in Startups
      BY <1>3 DEF StartupTime, Startups
    <2> QED BY <1>0, <2>1 DEF QueueTypeOK, Phases, QueueOK, Once, Only, Complete, Ordered,
                              Stops, Fence, Throttle, Taken
  <1>4. CASE TickerPass
    <2>1. /\ UNCHANGED <<queList, cur, todo, posted, executed, stops, cutoff, wg, loop, startup,
                         nowTime1, updates>>
          /\ ticks' \in 0..MaxTicks /\ nowTime1 \in 0..ticks'
      BY <1>0, <1>4, QueueAssumption DEF TickerPass, QueueTypeOK
    <2> QED BY <1>0, <2>1 DEF QueueTypeOK, Phases, QueueOK, Once, Only, Complete, Ordered,
                              Stops, Fence, Throttle, Taken
  <1>5. ASSUME NEW c \in Roots, PostCb(c) PROVE QueueInv'
    <2>1. c \in Callbacks /\ c \notin Posted /\ Len(queList) < Cap /\ Enqueued(c)
      BY <1>5 DEF PostCb, Enqueued, Callbacks
    <2>2. UNCHANGED <<wg, stops, startup, ticks, nowTime1, updates>>
          /\ todo' \in Children \cup {Nil}
      BY <1>0, <1>5 DEF PostCb, QueueTypeOK
    <2> QED BY <2>1, <2>2, EnqueueKeeps
  <1>6. CASE LoopBegin
    <2>1. /\ UNCHANGED <<queList, cur, todo, posted, executed, stops, cutoff, wg, startup, ticks>>
          /\ loop = "startup" /\ loop' = "select"
          /\ nowTime1' = ticks /\ updates' = updates + 1
      BY <1>6 DEF LoopBegin, LoopGoto
    <2>2. QueueOK' /\ Stops'
      BY <1>0, <2>1, SameQueue DEF Taken
    <2>3. nowTime1' \in Nat /\ nowTime1' \in 0..ticks /\ updates' = 1
      BY <1>0, <2>1, QueueAssumption DEF QueueTypeOK, Throttle
    <2>4. nowTime1' \div Period \in Nat
      BY <2>3, QueueAssumption, Quotient
    <2>5. Throttle'
      BY <2>1, <2>3, <2>4 DEF Throttle
    <2> QED BY <1>0, <2>1, <2>2, <2>3, <2>5 DEF QueueTypeOK, Phases, LoopPC
  <1>7. CASE Take
    <2>1. /\ UNCHANGED <<posted, executed, stops, cutoff, startup, ticks, nowTime1, updates>>
          /\ loop = "select" /\ queList # << >> /\ queList' = Tail(queList)
      BY <1>7 DEF Take, LoopGoto
    <2>2. QueueOK' /\ Stops'
      BY <1>0, <1>7, Dequeue
    <2>3. queList' \in Seq(Callbacks \cup {Nil}) /\ Len(queList') <= Cap
          /\ Head(queList) \in Callbacks \cup {Nil}
      BY <1>0, <2>1, TailFacts DEF QueueTypeOK
    <2>4. CASE Head(queList) = Nil
      <3>1. loop' = "exited" /\ wg' = wg - 1 /\ UNCHANGED <<cur, todo>>
        BY <1>7, <2>4 DEF Take, LoopGoto
      <3>2. wg' = 0
        BY <1>0, <2>1, <3>1 DEF Phases
      <3> QED BY <1>0, <2>1, <2>2, <2>3, <3>1, <3>2, SameThrottle DEF QueueTypeOK, Phases, LoopPC
    <2>5. CASE Head(queList) # Nil
      <3>1. loop' = "call" /\ UNCHANGED wg
            /\ cur' = Head(queList) /\ todo' = Posts[Head(queList)]
        BY <1>7, <2>5 DEF Take, LoopGoto
      <3>2. cur' \in Callbacks /\ todo' \in Children \cup {Nil}
        BY <2>3, <2>5, <3>1, QueueAssumption
      <3> QED BY <1>0, <2>1, <2>2, <2>3, <2>5, <3>1, <3>2, SameThrottle
           DEF QueueTypeOK, Phases, LoopPC
    <2> QED BY <2>4, <2>5
  <1>8. CASE CallPost
    <2>1. todo \in Callbacks /\ todo \notin Posted /\ Len(queList) < Cap /\ Enqueued(todo)
      BY <1>0, <1>8 DEF CallPost, LoopGoto, Enqueued, QueueTypeOK, Callbacks
    <2>2. UNCHANGED <<wg, stops, startup, ticks, nowTime1, updates>>
          /\ todo' \in Children \cup {Nil}
      BY <1>8 DEF CallPost, LoopGoto
    <2>3. QueueInv'
      BY <2>1, <2>2, EnqueueKeeps
    <2> QED BY <2>3 DEF QueueInv, QueueOK
  <1>9. CASE CallEnd
    <2>1. /\ UNCHANGED <<queList, posted, stops, cutoff, wg, startup, ticks, nowTime1, updates>>
          /\ loop = "call" /\ loop' = "after" /\ executed' = Append(executed, cur)
          /\ cur' = Nil /\ todo' = Nil
      BY <1>9 DEF CallEnd, LoopGoto
    <2>2. cur \in Callbacks /\ cur # Nil
      BY <1>0, <2>1 DEF Phases, QueueTypeOK
    <2>3. executed' \in Seq(Callbacks) /\ Len(executed') = Len(executed) + 1
      BY <1>0, <2>1, <2>2 DEF QueueTypeOK
    <2>4. Taken' = Taken
      BY <1>0, <2>1, <2>2, <2>3, QueueShapes DEF Taken
    <2>5. QueueOK' /\ Stops'
      BY <1>0, <2>1, <2>4, SameQueue
    <2> QED BY <1>0, <2>1, <2>3, <2>5, SameThrottle DEF QueueTypeOK, Phases, LoopPC
  <1>10. CASE Ticker
    <2>1. /\ UNCHANGED <<queList, cur, todo, posted, executed, stops, cutoff, wg, startup, ticks,
                         nowTime1, updates>>
          /\ loop = "select" /\ loop' = "after"
      BY <1>10 DEF Ticker, LoopGoto
    <2>2. QueueOK' /\ Stops'
      BY <1>0, <2>1, SameQueue DEF Taken
    <2> QED BY <1>0, <2>1, <2>2, SameThrottle DEF QueueTypeOK, Phases, LoopPC
  <1>11. CASE After
    <2>1. /\ UNCHANGED <<queList, cur, todo, posted, executed, stops, cutoff, wg, startup, ticks>>
          /\ loop = "after" /\ loop' = "select"
      BY <1>11 DEF After, LoopGoto
    <2>2. QueueOK' /\ Stops'
      BY <1>0, <2>1, SameQueue DEF Taken
    <2>3. ticks \in Nat /\ nowTime1 \in Nat /\ updates \in Nat
      BY <1>0, QueueAssumption DEF QueueTypeOK
    <2>4. nowTime1' \in 0..ticks /\ updates' \in Nat /\ Throttle'
      <3>1. CASE nowTime1 + Period <= ticks
        <4>1. nowTime1' = ticks /\ updates' = updates + 1
          BY <1>11, <3>1 DEF After
        <4>2. (nowTime1 \div Period) + 1 <= ticks \div Period
          BY <2>3, <3>1, QueueAssumption, PeriodsGrow
        <4>3. nowTime1 \div Period \in Nat /\ ticks \div Period \in Nat
          BY <2>3, QueueAssumption, Quotient
        <4>4. updates <= 1 + (nowTime1 \div Period)
          BY <1>0, <2>1 DEF Throttle
        <4>5. updates' <= 1 + (nowTime1' \div Period)
          BY <2>3, <4>1, <4>2, <4>3, <4>4
        <4> QED BY <2>1, <2>3, <4>1, <4>5 DEF Throttle
      <3>2. CASE ~(nowTime1 + Period <= ticks)
        <4>1. UNCHANGED <<nowTime1, updates>>
          BY <1>11, <3>2 DEF After
        <4> QED BY <1>0, <2>1, <4>1, SameThrottle DEF QueueTypeOK
      <3> QED BY <3>1, <3>2
    <2> QED BY <1>0, <2>1, <2>2, <2>4 DEF QueueTypeOK, Phases, LoopPC
  <1>12. CASE UNCHANGED queuevars
    BY <1>0, <1>12 DEF queuevars, QueueTypeOK, Phases, QueueOK, Once, Only, Complete, Ordered,
                       Stops, Fence, Throttle, Taken
  <1> QED BY <1>1, <1>2, <1>3, <1>4, <1>5, <1>6, <1>7, <1>8, <1>9, <1>10, <1>11, <1>12
       DEF QueueNext, LoopRuns, QueueInv, QueueOK

\* The channel agrees with what was posted and taken in every state.
THEOREM AlwaysQueueInv == QueueSpec => []QueueInv
  BY InitQueue, NextQueue, PTL DEF QueueSpec

\* However many callbacks the loop works off, the update module is called at
\* most once in a period after the first time.
THEOREM QueueUpdateThrottled == QueueSpec => []UpdateThrottled
  <1>1. QueueInv => UpdateThrottled
    <2> SUFFICES ASSUME QueueInv PROVE UpdateThrottled
      OBVIOUS
    <2>1. ticks \in Nat /\ nowTime1 \in Nat /\ nowTime1 <= ticks /\ updates \in Nat
      BY QueueAssumption DEF QueueInv, QueueTypeOK
    <2>2. /\ nowTime1 \div Period <= ticks \div Period
          /\ nowTime1 \div Period \in Nat /\ ticks \div Period \in Nat
      BY <2>1, QueueAssumption, PeriodsGrow, Quotient
    <2>3. updates <= 1 + (ticks \div Period)
      BY <2>1, <2>2 DEF QueueInv, Throttle
    <2> QED BY <2>3 DEF QueueInv, UpdateThrottled
  <1> QED BY <1>1, AlwaysQueueInv, PTL

-----------------------------------------------------------------------------
(* The event queue implements Executor.                                     *)

\* What waits is what was posted after the callbacks that finished.
LEMMA WaitingFacts ==
    ASSUME QueueTypeOK, Once
    PROVE /\ Len(executed) \in 0..Len(posted) /\ posted \in Seq(Callbacks)
          /\ Waiting \in Seq(Callbacks) /\ Len(Waiting) = Len(posted) - Len(executed)
          /\ \A i \in 1..Len(Waiting) : Waiting[i] = posted[Len(executed) + i]
  <1>1. Len(executed) \in 0..Len(posted) /\ Len(posted) \in Nat /\ posted \in Seq(Callbacks)
    BY QueueShapes DEF Once, Taken, QueueTypeOK
  <1>2. \A i \in Len(executed) + 1..Len(posted) : posted[i] \in Callbacks
    BY <1>1
  <1>3. /\ Waiting \in Seq(Callbacks)
        /\ Len(Waiting) = IF Len(executed) + 1 <= Len(posted)
                          THEN Len(posted) - (Len(executed) + 1) + 1 ELSE 0
        /\ \A i \in 1..Len(posted) - (Len(executed) + 1) + 1 :
              Waiting[i] = posted[(Len(executed) + 1) + i - 1]
    BY <1>1, <1>2, SubSeqProperties DEF Waiting
  <1>4. Len(Waiting) = Len(posted) - Len(executed)
    BY <1>1, <1>3
  <1>5. ASSUME NEW i \in 1..Len(Waiting) PROVE Waiting[i] = posted[Len(executed) + i]
    <2>1. /\ i \in 1..Len(posted) - (Len(executed) + 1) + 1
          /\ (Len(executed) + 1) + i - 1 = Len(executed) + i
      BY <1>1, <1>4
    <2> QED BY <1>3, <2>1
  <1> QED BY <1>1, <1>3, <1>4, <1>5

\* A post is accepted behind what waits.
LEMMA PostAccepts ==
    ASSUME QueueTypeOK, QueueOK, QueueTypeOK', QueueOK', NEW c \in Callbacks, Enqueued(c)
    PROVE Waiting' = Append(Waiting, c)
  <1> DEFINE e == Len(executed)
             rest == Append(Waiting, c)
  <1>1. /\ e \in 0..Len(posted) /\ Waiting \in Seq(Callbacks) /\ Len(Waiting) = Len(posted) - e
        /\ \A i \in 1..Len(Waiting) : Waiting[i] = posted[e + i]
        /\ Len(posted) \in Nat /\ posted \in Seq(Callbacks)
    BY WaitingFacts, QueueShapes DEF QueueOK
  <1>2. /\ Len(executed') = e
        /\ Waiting' \in Seq(Callbacks) /\ Len(Waiting') = Len(posted') - e
        /\ \A i \in 1..Len(Waiting') : Waiting'[i] = posted'[e + i]
    <2>1. executed' = executed
      BY DEF Enqueued
    <2>2. (/\ Len(executed) \in 0..Len(posted) /\ posted \in Seq(Callbacks)
           /\ Waiting \in Seq(Callbacks) /\ Len(Waiting) = Len(posted) - Len(executed)
           /\ \A i \in 1..Len(Waiting) : Waiting[i] = posted[Len(executed) + i])'
      BY WaitingFacts, PTL DEF QueueOK
    <2> QED BY <2>1, <2>2
  <1>3. /\ Len(posted') = Len(posted) + 1 /\ posted'[Len(posted) + 1] = c
        /\ \A i \in 1..Len(posted) : posted'[i] = posted[i]
    BY <1>1 DEF Enqueued
  <1>4. /\ rest \in Seq(Callbacks) /\ Len(rest) = Len(Waiting) + 1 /\ rest[Len(Waiting) + 1] = c
        /\ \A i \in 1..Len(Waiting) : rest[i] = Waiting[i]
    BY <1>1, AppendProperties
  <1>5. Len(rest) = Len(Waiting')
    BY <1>1, <1>2, <1>3, <1>4
  <1> HIDE DEF rest, e
  <1>6. ASSUME NEW i \in 1..Len(Waiting') PROVE Waiting'[i] = rest[i]
    <2>1. CASE i \in 1..Len(Waiting)
      <3>1. e + i \in 1..Len(posted)
        BY <1>1, <2>1
      <3> QED BY <1>1, <1>2, <1>3, <1>4, <1>6, <2>1, <3>1
    <2>2. CASE i = Len(Waiting) + 1
      <3>1. e + i = Len(posted) + 1
        BY <1>1, <2>2
      <3> QED BY <1>2, <1>3, <1>4, <1>6, <2>2, <3>1
    <2>3. Len(Waiting) \in Nat /\ Len(Waiting') = Len(Waiting) + 1
      BY <1>1, <1>4, <1>5
    <2>4. i \in 1..Len(Waiting) \/ i = Len(Waiting) + 1
      BY <2>3
    <2> QED BY <2>1, <2>2, <2>4
  <1> QED BY <1>2, <1>4, <1>5, <1>6, SeqEqual DEF rest

\* The state the event queue starts in is one of the executor.
LEMMA InitExecutor == QueueInit => Exec!Init
  <1> SUFFICES ASSUME QueueInit PROVE Exec!Init
    OBVIOUS
  <1>1. posted = << >> /\ executed = << >> /\ loop # "exited" /\ cutoff = NoLimit
    BY DEF QueueInit
  <1>2. Waiting = << >>
    BY <1>1, SubSeqEmpty DEF Waiting
  <1> QED BY <1>1, <1>2 DEF Exec!Init, Exec!NoLimit, NoLimit

\* Every step of the event queue is a step of the executor, or none.
LEMMA NextExecutor == QueueInv /\ QueueInv' /\ [QueueNext]_queuevars => [Exec!Next]_(Exec!vars)
  <1> SUFFICES ASSUME QueueInv, QueueInv', [QueueNext]_queuevars PROVE [Exec!Next]_(Exec!vars)
    OBVIOUS
  <1>0. /\ QueueTypeOK /\ Phases /\ QueueOK /\ Once /\ Stops
        /\ QueueTypeOK' /\ QueueOK'
    BY DEF QueueInv, QueueOK
  <1> USE DEF callbacks, time
  <1>1. ASSUME UNCHANGED <<posted, executed, cutoff>>, loop # "exited", loop' # "exited"
        PROVE [Exec!Next]_(Exec!vars)
    BY <1>1 DEF Exec!vars, Waiting
  <1>2. ASSUME NEW c \in Callbacks, Enqueued(c) PROVE [Exec!Next]_(Exec!vars)
    <2>1. Waiting' = Append(Waiting, c) /\ UNCHANGED <<executed, cutoff, loop>>
      BY <1>0, <1>2, PostAccepts DEF Enqueued
    <2>2. Exec!Accept(c)
      BY <2>1 DEF Exec!Accept
    <2> QED BY <2>2 DEF Exec!Next
  <1>3. CASE StopQueue
    <2>1. UNCHANGED <<posted, executed, loop>> /\ Waiting' = Waiting
      BY <1>3 DEF StopQueue, Waiting
    <2>2. CASE cutoff = NoLimit
      <3>1. cutoff' = Len(executed) + Len(Waiting)
        BY <1>0, <1>3, <2>2, WaitingFacts, QueueShapes DEF StopQueue
      <3> QED BY <2>1, <2>2, <3>1 DEF Exec!Next, Exec!Stop, Exec!NoLimit, NoLimit
    <2>3. CASE cutoff # NoLimit
      <3>1. cutoff' = cutoff
        BY <1>3, <2>3 DEF StopQueue
      <3> QED BY <2>1, <3>1 DEF Exec!vars
    <2> QED BY <2>2, <2>3
  <1>4. CASE Take
    <2>1. /\ UNCHANGED <<posted, executed, cutoff>> /\ loop = "select" /\ queList # << >>
      BY <1>4 DEF Take, LoopGoto
    <2>2. CASE Head(queList) # Nil
      <3>1. loop' = "call"
        BY <1>4, <2>2 DEF Take, LoopGoto
      <3> QED BY <1>1, <2>1, <3>1
    <2>3. CASE Head(queList) = Nil
      <3>1. loop' = "exited" /\ Waiting' = Waiting
        BY <1>4, <2>1, <2>3 DEF Take, LoopGoto, Waiting
      <3>2. cutoff # NoLimit /\ Len(executed) = cutoff
        BY <1>0, <2>1, <2>3, NilIsLast
      <3> QED BY <2>1, <3>1, <3>2 DEF Exec!Next, Exec!End, Exec!NoLimit, NoLimit
    <2> QED BY <2>2, <2>3
  <1>5. CASE CallEnd
    <2>1. /\ UNCHANGED <<posted, cutoff>> /\ loop = "call" /\ loop' = "after"
          /\ executed' = Append(executed, cur)
      BY <1>5 DEF CallEnd, LoopGoto
    <2>2. Taken = Len(executed) + 1 /\ cur = posted[Taken] /\ cur \in Callbacks
          /\ Taken \in 1..Len(posted) /\ Len(posted) \in Len(executed) + 1..Len(posted)
      BY <1>0, <2>1, QueueShapes DEF Phases, Once, Taken, QueueTypeOK
    <2>3. cutoff # NoLimit => Len(executed) < cutoff
      BY <1>0, <2>1, <2>2, QueueShapes DEF Stops, QueueTypeOK
    <2>4. Head(Waiting) = cur /\ Tail(Waiting) = SubSeq(posted, Len(executed) + 2, Len(posted))
      <3>1. posted \in Seq(Callbacks) /\ Len(executed) + 1 \in 1..Len(posted)
        BY <1>0, <2>2 DEF QueueTypeOK
      <3>2. /\ Head(Waiting) = posted[Len(executed) + 1]
            /\ Tail(Waiting) = SubSeq(posted, (Len(executed) + 1) + 1, Len(posted))
        BY <2>2, <3>1, HeadTailOfSubSeq DEF Waiting
      <3>3. (Len(executed) + 1) + 1 = Len(executed) + 2
        BY <1>0, QueueShapes
      <3> QED BY <2>2, <3>2, <3>3
    <2>5. Waiting' = Tail(Waiting)
      <3>1. Len(executed') + 1 = Len(executed) + 2
        BY <1>0, <2>1, <2>2 DEF QueueTypeOK
      <3> QED BY <2>1, <2>4, <3>1 DEF Waiting
    <2>6. Waiting # << >>
      <3>1. Len(Waiting) > 0
        BY <1>0, <2>2, WaitingFacts, QueueShapes
      <3> QED BY <3>1
    <2> QED BY <2>1, <2>3, <2>4, <2>5, <2>6 DEF Exec!Next, Exec!Finish, Exec!NoLimit, NoLimit
  <1>6. ASSUME NEW c \in Roots, PostCb(c) PROVE [Exec!Next]_(Exec!vars)
    <2>1. c \in Callbacks /\ Enqueued(c)
      BY <1>6 DEF PostCb, Enqueued, Callbacks
    <2> QED BY <1>2, <2>1
  <1>7. CASE CallPost
    <2>1. todo \in Callbacks /\ Enqueued(todo)
      BY <1>0, <1>7 DEF CallPost, LoopGoto, Enqueued, QueueTypeOK, Callbacks
    <2> QED BY <1>2, <2>1
  <1>8. CASE StartQueue \/ LoopBegin \/ Ticker \/ After
    BY <1>1, <1>8 DEF StartQueue, LoopBegin, Ticker, After, LoopGoto
  <1>9. CASE StartupTime \/ TickerPass \/ UNCHANGED queuevars
    <2>1. UNCHANGED <<posted, executed, cutoff, loop>>
      BY <1>9 DEF StartupTime, TickerPass, queuevars
    <2> QED BY <2>1 DEF Exec!vars, Waiting
  <1> QED BY <1>3, <1>4, <1>5, <1>6, <1>7, <1>8, <1>9 DEF QueueNext, LoopRuns

\* The event queue is a sequential executor: callbacks finish one by one in
\* the order of their PostCb, whatever panics and whoever posts, and the loop
\* ends when exactly those posted before the first StopQueue have run.
THEOREM QueueImplementsExecutor == QueueSpec => IsExecutor
  <1>1. QueueSpec => Exec!Init /\ [][Exec!Next]_(Exec!vars)
    BY InitExecutor, NextExecutor, AlwaysQueueInv, PTL DEF QueueSpec
  <1> QED BY <1>1 DEF IsExecutor, Exec!Spec

-----------------------------------------------------------------------------
(* Frames: where they are in the stream.                                    *)

Crypts == Keys \cup {NoKey, RSA}

\* The next frame to be read, and the last one.
First == Len(received) + 1
Final == Len(sent)

\* Where frames begin: that of the i-th message sent stands behind start[i]
\* cells of the stream, its body in the cells up to start[i + 1], encrypted with
\* crypt[i].  The header that is read already stood behind -1.
HeaderOf(i, start, crypt) ==
    [len |-> start[i + 1] - start[i] - 1, id |-> sent[i].id, seqId |-> sent[i].seqId,
     flag |-> FlagOf(crypt[i])]

PartOf(i, crypt) == [part |-> sent[i].part, crypt |-> crypt[i]]

\* The frames that are not read follow each other without a gap ...
Starts(start) ==
    /\ start[First] = IF hdr = << >> THEN 0 ELSE -1
    /\ \A i \in First..Final : start[i + 1] - start[i] - 1 \in 0..sendMax
    /\ \A i, j \in First..(Final + 1) : i < j => start[i] < start[j]
    /\ IF broken THEN Len(stream) <= start[Final + 1] ELSE Len(stream) = start[Final + 1]

\* ... and what of them has been written is in the stream.
Written(start, crypt) ==
    \A i \in First..Final :
      /\ start[i] + 1 \in 1..Len(stream) => stream[start[i] + 1] = HeaderOf(i, start, crypt)
      /\ \A p \in (start[i] + 2)..start[i + 1] : p \in 1..Len(stream) =>
           stream[p] = PartOf(i, crypt)

Encrypted(crypt) ==
    \A i \in First..Final :
      crypt[i] \in Crypts \ BadKeys /\ (~rekeying => crypt[i] \in {RSA, NoKey, sendKey})

Laid(start, crypt) ==
    /\ start \in [Nat -> Int] /\ crypt \in [Nat -> Crypts]
    /\ Starts(start) /\ Written(start, crypt) /\ Encrypted(crypt)
    /\ hdr = << >> \/ (First <= Final /\ hdr = <<HeaderOf(First, start, crypt)>>)

-----------------------------------------------------------------------------
(* Frames: the inductive invariant.                                         *)

SentTypes ==
    /\ sendMax \in Nat /\ recvMax \in Nat /\ rekeying \in BOOLEAN
    /\ sendKey \in Keys \cup {NoKey} /\ recvKey \in Keys \cup {NoKey}
    /\ (~rekeying => recvKey = sendKey)
    /\ broken \in BOOLEAN /\ ended \in BOOLEAN
    /\ calls \in 0..MaxMsgs /\ Len(sent) <= calls
    /\ sent \in Seq([part : Nat, id : Nat, seqId : Nat])
    /\ Len(hdr) <= 1

ReceivedOK ==
    /\ received \in Seq([id : Nat, seqId : Nat, intact : BOOLEAN, part : Nat])
    /\ Len(received) <= Len(sent)
    /\ \A i \in 1..Len(received) :
         received[i].id = sent[i].id /\ received[i].seqId = sent[i].seqId
    /\ ~rekeying =>
         /\ \A i \in 1..Len(received) :
              received[i].intact /\ received[i].part \in {0, sent[i].part}
         /\ ended /\ ~broken => First <= Final /\ sent[First].id \notin Known

Cells == [len : Nat, id : Nat, seqId : Nat, flag : Nat] \cup [part : Nat, crypt : Crypts]

FramingInv ==
    /\ SentTypes
    /\ Compatible =>
         /\ stream \in Seq(Cells)
         /\ ReceivedOK
         /\ ~ended => \E start, crypt : Laid(start, crypt)

-----------------------------------------------------------------------------
(* SendMessage.                                                             *)

\* What a frame is made of: a header, and a body as long as the text that was
\* encrypted.
LEMMA FrameIs ==
    ASSUME SentTypes, NEW m \in Messages
    PROVE  /\ CryptLen(m) \in Nat /\ CryptOf(m) \in Crypts
           /\ CryptOf(m) \in {RSA, NoKey, sendKey}
           /\ Frame(m) \in Seq(Cells) /\ Len(Frame(m)) = CryptLen(m) + 1
           /\ Frame(m)[1] = [len |-> CryptLen(m) % W, id |-> MsgId(m),
                             seqId |-> IF m.transmit THEN m.seqId ELSE 0,
                             flag |-> FlagOf(CryptOf(m))]
           /\ \A i \in 2..(CryptLen(m) + 1) :
                Frame(m)[i] = [part |-> calls + 1, crypt |-> CryptOf(m)]
           /\ MsgId(m) \in Nat /\ (IF m.transmit THEN m.seqId ELSE 0) \in Nat
<1> USE FramingAssumption
<1>1. m.id \in Nat /\ m.seqId \in Nat /\ m.len \in Nat
  OBVIOUS
<1>0. MsgId(m) \in Nat
  BY <1>1 DEF MsgId
<1>2. CryptOf(m) \in Crypts /\ CryptOf(m) \in {RSA, NoKey, sendKey}
  BY DEF CryptOf, SentTypes, Crypts
<1>3. CryptLen(m) \in Nat
  <2>1. m.len % Block \in 0..(Block - 1)
    BY <1>1
  <2>2. PKCS5Padding(m.len) \in Nat
    BY <1>1, <2>1 DEF PKCS5Padding
  <2>3. QED
    BY <1>1, <2>2 DEF CryptLen
<1> DEFINE k == CryptLen(m)
           h == [len |-> k % W, id |-> MsgId(m), seqId |-> IF m.transmit THEN m.seqId ELSE 0,
                 flag |-> FlagOf(CryptOf(m))]
           d == [part |-> calls + 1, crypt |-> CryptOf(m)]
           body == [i \in 1..k |-> d]
<1>4. Frame(m) = <<h>> \o body
  BY DEF Frame
<1>5. h \in Cells
  <2>1. k % W \in Nat /\ FlagOf(CryptOf(m)) \in Nat
    BY <1>3 DEF FlagOf
  <2>2. QED
    BY <1>0, <1>1, <2>1 DEF Cells
<1>6. d \in Cells
  BY <1>2 DEF Cells, SentTypes
<1>7. k \in Nat
  BY <1>3
<1> HIDE DEF k, h, d
<1>8. body \in Seq(Cells) /\ Len(body) = k /\ \A i \in 1..k : body[i] = d
  BY <1>6, <1>7
<1>9. <<h>> \in Seq(Cells) /\ Len(<<h>>) = 1 /\ <<h>>[1] = h
  BY <1>5
<1> HIDE DEF body
<1>10. /\ <<h>> \o body \in Seq(Cells) /\ Len(<<h>> \o body) = 1 + k
       /\ \A i \in 1..(1 + k) :
            (<<h>> \o body)[i] = IF i <= 1 THEN <<h>>[i] ELSE body[i - 1]
  BY <1>8, <1>9, ConcatProperties
<1>11. (<<h>> \o body)[1] = h
  BY <1>7, <1>9, <1>10
<1>12. ASSUME NEW i \in 2..(k + 1)
       PROVE  (<<h>> \o body)[i] = d
  <2>1. i \in 1..(1 + k) /\ ~(i <= 1) /\ i - 1 \in 1..k
    BY <1>7
  <2>2. QED
    BY <1>8, <1>10, <2>1
<1>13. 1 + k = k + 1
  BY <1>7
<1>14. QED
  BY <1>0, <1>1, <1>2, <1>4, <1>7, <1>10, <1>11, <1>12, <1>13 DEF k, h, d

\* SendMessage writes the frame of m, as seen from the frames before it.
Sends(m, start, crypt, start2, crypt2) ==
    /\ SentTypes /\ stream \in Seq(Cells) /\ Compatible /\ ~broken
    /\ First \in Nat \ {0} /\ First <= Final + 1 /\ ~EncodeFails(m) /\ ~TooBig(m)
    /\ start2 = [start EXCEPT ![Final + 2] = start[Final + 1] + 1 + CryptLen(m)]
    /\ crypt2 = [crypt EXCEPT ![Final + 1] = CryptOf(m)]
    /\ stream' = stream \o Frame(m)
    /\ sent' = Append(sent, [part |-> calls + 1, id |-> MsgId(m),
                             seqId |-> IF m.transmit THEN m.seqId ELSE 0])
    /\ UNCHANGED <<broken, hdr, received, sendMax, rekeying, sendKey>>

\* A message that is written is laid behind the others.
LEMMA SendLays ==
    ASSUME NEW m \in Messages, NEW start, NEW crypt, Laid(start, crypt),
           NEW start2, NEW crypt2, Sends(m, start, crypt, start2, crypt2)
    PROVE  Laid(start2, crypt2)' /\ stream' \in Seq(Cells)
<1> DEFINE F == Final
           E == Len(stream)
           k == CryptLen(m)
           q == IF m.transmit THEN m.seqId ELSE 0
           new == [part |-> calls + 1, id |-> MsgId(m), seqId |-> q]
<1>1. /\ F \in Nat /\ E \in Nat /\ k \in Nat /\ sendMax \in Nat /\ recvMax \in Nat
      /\ k <= sendMax /\ sendMax <= recvMax /\ recvMax < W
  <2>1. CryptLen(m) \in Nat
    BY FrameIs DEF Sends
  <2>2. sendMax \in Nat /\ recvMax \in Nat /\ Len(sent) \in Nat /\ Len(stream) \in Nat
    BY DEF Sends, SentTypes
  <2>3. ~(CryptLen(m) > sendMax) /\ sendMax <= recvMax /\ recvMax < W
    BY DEF Sends, TooBig, Compatible
  <2>4. QED
    BY <2>1, <2>2, <2>3 DEF Final
<1>2. k % W = k /\ First \in Nat \ {0} /\ First <= F + 1
  <2>1. W \in Nat \ {0}
    BY FramingAssumption
  <2> HIDE DEF k
  <2>2. k % W = k
    BY <1>1, <2>1
  <2>3. QED
    BY <2>2 DEF Sends
<1>3. /\ start \in [Nat -> Int] /\ crypt \in [Nat -> Crypts]
      /\ start[First] = IF hdr = << >> THEN 0 ELSE -1
      /\ \A i \in First..F : start[i + 1] - start[i] - 1 \in 0..sendMax
      /\ \A i, j \in First..(F + 1) : i < j => start[i] < start[j]
      /\ E = start[F + 1]
  BY DEF Laid, Starts, Sends
<1>0. CryptOf(m) \notin BadKeys
  BY DEF Sends, EncodeFails
<1>4. /\ CryptOf(m) \in Crypts /\ CryptOf(m) \in {RSA, NoKey, sendKey}
      /\ Frame(m) \in Seq(Cells) /\ Len(Frame(m)) = k + 1
      /\ Frame(m)[1] = [len |-> k, id |-> MsgId(m), seqId |-> q, flag |-> FlagOf(CryptOf(m))]
      /\ \A i \in 2..(k + 1) : Frame(m)[i] = [part |-> calls + 1, crypt |-> CryptOf(m)]
  BY <1>2, FrameIs DEF Sends
<1>5. Final' = F + 1 /\ First' = First
  <2>1. Len(sent') = Len(sent) + 1
    BY DEF SentTypes, Sends
  <2>2. QED
    BY <2>1 DEF Final, First, Sends
<1>6. /\ start2 \in [Nat -> Int] /\ start2[F + 2] = E + 1 + k
      /\ \A i \in Nat : i # F + 2 => start2[i] = start[i]
      /\ crypt2 \in [Nat -> Crypts] /\ crypt2[F + 1] = CryptOf(m)
      /\ \A i \in Nat : i # F + 1 => crypt2[i] = crypt[i]
  <2>1. F + 1 \in Nat /\ F + 2 \in Nat /\ E + 1 + k \in Int
    BY <1>1
  <2>2. /\ start2 = [start EXCEPT ![F + 2] = E + 1 + k]
        /\ crypt2 = [crypt EXCEPT ![F + 1] = CryptOf(m)]
    BY <1>3 DEF Sends
  <2> HIDE DEF F, E, k
  <2>3. QED
    BY <1>3, <1>4, <2>1, <2>2
<1>7. sent'[F + 1] = new /\ \A i \in 1..F : sent'[i] = sent[i]
  BY DEF SentTypes, Final, Sends
<1>8. /\ stream' \in Seq(Cells) /\ Len(stream') = E + k + 1
      /\ \A p \in 1..E : stream'[p] = stream[p]
      /\ \A j \in 1..(k + 1) : stream'[E + j] = Frame(m)[j]
  <2> DEFINE x == Frame(m)
  <2>1. x \in Seq(Cells) /\ Len(x) = k + 1 /\ stream' = stream \o x /\ stream \in Seq(Cells)
    BY <1>4 DEF Sends
  <2> HIDE DEF x, k
  <2>2. /\ stream \o x \in Seq(Cells) /\ Len(stream \o x) = Len(stream) + Len(x)
        /\ \A i \in 1..(Len(stream) + Len(x)) :
             (stream \o x)[i] = IF i <= Len(stream) THEN stream[i] ELSE x[i - Len(stream)]
    BY <2>1, ConcatProperties
  <2>3. ASSUME NEW j \in 1..(k + 1)
        PROVE  stream'[E + j] = x[j]
    <3>1. E + j \in 1..(Len(stream) + Len(x)) /\ ~(E + j <= Len(stream)) /\ E + j - Len(stream) = j
      BY <1>1, <2>1
    <3>2. QED
      BY <2>1, <2>2, <3>1
  <2>4. \A p \in 1..E : p \in 1..(Len(stream) + Len(x)) /\ p <= Len(stream)
    BY <1>1, <2>1
  <2>5. E + (k + 1) = E + k + 1
    BY <1>1
  <2>6. QED
    BY <2>1, <2>2, <2>3, <2>4, <2>5 DEF x
<1> HIDE DEF F, E, k, q, new
<1>9. Starts(start2)'
  <2>1. start2[First] = start[First] /\ start2[F + 1] = E
    <3>1. First \in Nat /\ First # F + 2 /\ F + 1 \in Nat /\ F + 1 # F + 2
      BY <1>1, <1>2
    <3>2. QED
      BY <1>3, <1>6, <3>1
  <2>2. ASSUME NEW i \in First..(F + 1)
        PROVE  start2[i + 1] - start2[i] - 1 \in 0..sendMax
    <3>1. CASE i = F + 1
      <4>1. i + 1 = F + 2 /\ start2[i + 1] = E + 1 + k /\ start2[i] = E
        BY <1>1, <1>2, <1>6, <2>1, <3>1
      <4>2. QED
        BY <1>1, <1>2, <4>1
    <3>2. CASE i # F + 1
      <4>1. i \in First..F /\ i \in Nat /\ i + 1 \in Nat /\ i # F + 2 /\ i + 1 # F + 2
        BY <1>1, <1>2, <3>2
      <4>2. QED
        BY <1>3, <1>6, <4>1
    <3>3. QED
      BY <3>1, <3>2
  <2>3. ASSUME NEW i \in First..(F + 2), NEW j \in First..(F + 2), i < j
        PROVE  start2[i] < start2[j]
    <3>1. i \in First..(F + 1) /\ i \in Nat /\ j \in Nat /\ start2[i] = start[i] /\ start[i] \in Int
      <4>1. i \in First..(F + 1) /\ i \in Nat /\ j \in Nat /\ i # F + 2
        BY <1>1, <1>2, <2>3
      <4>2. QED
        BY <1>3, <1>6, <4>1
    <3>2. CASE j = F + 2
      <4>1. F + 1 \in First..(F + 1)
        BY <1>1, <1>2
      <4>2. i < F + 1 \/ i = F + 1
        BY <1>1, <1>2, <3>1
      <4>3. start[i] < start[F + 1] \/ start[i] = start[F + 1]
        BY <1>3, <3>1, <4>1, <4>2
      <4>4. start2[i] \in Int /\ (start2[i] < E \/ start2[i] = E) /\ start2[j] = E + 1 + k
        BY <1>3, <1>6, <3>1, <3>2, <4>3
      <4>5. QED
        BY <1>1, <4>4
    <3>3. CASE j # F + 2
      <4>1. j \in First..(F + 1) /\ start2[j] = start[j]
        BY <1>1, <1>2, <1>6, <3>1, <3>3
      <4>2. QED
        BY <1>3, <2>3, <3>1, <4>1
    <3>4. QED
      BY <3>2, <3>3
  <2>4. Len(stream') = start2[F + 2] /\ (F + 1) + 1 = F + 2
    BY <1>1, <1>2, <1>6, <1>8
  <2>5. QED
    BY <1>3, <1>5, <2>1, <2>2, <2>3, <2>4 DEF Starts, Sends
<1>10. Written(start2, crypt2)'
  <2> SUFFICES ASSUME NEW i \in First..(F + 1)
               PROVE  /\ start2[i] + 1 \in 1..Len(stream') =>
                           stream'[start2[i] + 1] = HeaderOf(i, start2, crypt2)'
                      /\ \A p \in (start2[i] + 2)..start2[i + 1] : p \in 1..Len(stream') =>
                           stream'[p] = PartOf(i, crypt2)'
    BY <1>5 DEF Written
  <2>1. CASE i = F + 1
    <3>1. start2[i] = E /\ i + 1 = F + 2 /\ start2[i + 1] = E + 1 + k
      BY <1>1, <1>2, <1>3, <1>6, <2>1
    <3>2. stream'[E + 1] = Frame(m)[1]
      BY <1>1, <1>2, <1>8
    <3>3. HeaderOf(i, start2, crypt2)' = Frame(m)[1]
      <4>1. start2[i + 1] - start2[i] - 1 = k
        BY <1>1, <1>2, <3>1
      <4>2. sent'[i].id = MsgId(m) /\ sent'[i].seqId = q /\ crypt2[i] = CryptOf(m)
        BY <1>6, <1>7, <2>1 DEF new
      <4>3. QED
        BY <1>4, <4>1, <4>2 DEF HeaderOf
    <3>4. PartOf(i, crypt2)' = [part |-> calls + 1, crypt |-> CryptOf(m)]
      BY <1>6, <1>7, <2>1 DEF PartOf, new
    <3>5. ASSUME NEW p \in (E + 2)..(E + 1 + k)
          PROVE  stream'[p] = PartOf(i, crypt2)'
      <4>1. p - E \in 1..(k + 1) /\ p - E \in 2..(k + 1) /\ E + (p - E) = p
        BY <1>1, <1>2
      <4>2. QED
        BY <1>4, <1>8, <3>4, <4>1
    <3>6. QED
      BY <3>1, <3>2, <3>3, <3>5
  <2>2. CASE i # F + 1
    <3>1. /\ i \in First..F /\ i \in Nat /\ i + 1 \in Nat /\ i # F + 2 /\ i + 1 # F + 2
          /\ i \in 1..F /\ i \in First..(F + 1) /\ i + 1 \in First..(F + 1) /\ F + 1 \in First..(F + 1)
      BY <1>1, <1>2, <2>2
    <3>2. start2[i] = start[i] /\ start2[i + 1] = start[i + 1] /\ crypt2[i] = crypt[i] /\ sent'[i] = sent[i]
      BY <1>6, <1>7, <2>2, <3>1
    <3>3. /\ HeaderOf(i, start2, crypt2)' = HeaderOf(i, start, crypt)
          /\ PartOf(i, crypt2)' = PartOf(i, crypt)
      BY <3>2 DEF HeaderOf, PartOf
    <3>4. start[i] \in Int /\ start[i] < E /\ start[i + 1] \in Int /\ start[i + 1] <= E
      <4>1. i < F + 1 /\ (i + 1 < F + 1 \/ i + 1 = F + 1)
        BY <1>1, <1>2, <3>1
      <4>2. start[i] \in Int /\ start[i + 1] \in Int
        BY <1>3, <3>1
      <4>3. start[i] < E /\ (start[i + 1] < E \/ start[i + 1] = E)
        BY <1>3, <3>1, <4>1
      <4>4. QED
        BY <1>1, <4>2, <4>3
    <3>5. /\ start[i] + 1 \in 1..E => stream[start[i] + 1] = HeaderOf(i, start, crypt)
          /\ \A p \in (start[i] + 2)..start[i + 1] : p \in 1..E => stream[p] = PartOf(i, crypt)
      BY <3>1 DEF Laid, Written, F, E
    <3>6. start[i] + 1 \in 1..Len(stream') => start[i] + 1 \in 1..E
      BY <1>1, <1>2, <1>8, <3>4
    <3>7. \A p \in (start[i] + 2)..start[i + 1] : p \in 1..Len(stream') => p \in 1..E
      BY <1>1, <1>2, <1>8, <3>4
    <3>8. QED
      BY <1>8, <3>2, <3>3, <3>5, <3>6, <3>7
  <2>3. QED
    BY <2>1, <2>2
<1>11. Encrypted(crypt2)'
  <2>1. ASSUME NEW i \in First..(F + 1)
        PROVE  crypt2[i] \in Crypts \ BadKeys /\ (~rekeying => crypt2[i] \in {RSA, NoKey, sendKey})
    <3>1. CASE i = F + 1
      BY <1>0, <1>4, <1>6, <3>1
    <3>2. CASE i # F + 1
      <4>1. i \in First..F /\ i \in Nat
        BY <1>1, <1>2, <3>2
      <4>2. QED
        BY <1>6, <3>2, <4>1 DEF Laid, Encrypted, F
    <3>3. QED
      BY <3>1, <3>2
  <2>2. QED
    BY <1>5, <2>1 DEF Encrypted, Sends
<1>12. hdr' = << >> \/ (First' <= Final' /\ hdr' = <<HeaderOf(First, start2, crypt2)'>>)
  <2>0. hdr' = hdr
    BY DEF Sends
  <2>1. CASE hdr = << >>
    BY <2>0, <2>1
  <2>2. CASE hdr # << >>
    <3>1. First <= F /\ hdr = <<HeaderOf(First, start, crypt)>>
      BY <2>2 DEF Laid, F
    <3>2. First \in Nat /\ First + 1 \in Nat /\ First # F + 1 /\ First # F + 2 /\ First + 1 # F + 2 /\ First \in 1..F
      BY <1>1, <1>2, <3>1
    <3>3. HeaderOf(First, start2, crypt2)' = HeaderOf(First, start, crypt)
      <4>1. /\ start2[First] = start[First] /\ start2[First + 1] = start[First + 1]
            /\ crypt2[First] = crypt[First] /\ sent'[First] = sent[First]
        BY <1>6, <1>7, <3>2
      <4>2. QED
        BY <1>5, <4>1 DEF HeaderOf
    <3>4. QED
      BY <1>1, <1>2, <1>5, <2>0, <3>1, <3>3
  <2>3. QED
    BY <2>1, <2>2
<1>13. QED
  BY <1>6, <1>8, <1>9, <1>10, <1>11, <1>12 DEF Laid

-----------------------------------------------------------------------------
(* ReadMessage.                                                             *)

\* The first n cells are read, and the frames before the one that is now first.
Reads(n, start, crypt, start2) ==
    /\ n \in Nat /\ stream \in Seq(Cells) /\ stream' \in Seq(Cells)
    /\ Len(stream') = Len(stream) - n
    /\ \A p \in 1..Len(stream') : stream'[p] = stream[p + n]
    /\ start2 = [i \in Nat |-> start[i] - n]
    /\ First \in Nat \ {0} /\ Final \in Nat /\ First' \in Nat /\ First <= First'
    /\ First' <= Final + 1
    /\ start2[First'] = IF hdr' = << >> THEN 0 ELSE -1
    /\ hdr' = << >> \/ (First' <= Final /\ hdr' = <<HeaderOf(First', start, crypt)>>)
    /\ UNCHANGED <<sent, broken, sendMax, rekeying, sendKey>>

\* The others are still where they were, seen from the new front.
LEMMA ReadLeaves ==
    ASSUME NEW n, NEW start, NEW crypt, Laid(start, crypt), NEW start2,
           Reads(n, start, crypt, start2)
    PROVE  Laid(start2, crypt)'
<1> DEFINE F == Final
           E == Len(stream)
           D == Len(stream')
           b == First
           c == First'
<1>1. /\ F \in Nat /\ E \in Nat /\ D \in Nat /\ n \in Nat /\ D = E - n /\ Final' = F
      /\ b \in Nat \ {0} /\ c \in Nat \ {0} /\ b <= c /\ c <= F + 1
  <2>1. Len(stream) \in Nat /\ Len(stream') \in Nat /\ Len(stream') = Len(stream) - n /\ n \in Nat
    BY DEF Reads
  <2>2. Final' = F
    BY DEF Reads, Final
  <2>3. b \in Nat \ {0} /\ c \in Nat /\ b <= c /\ c <= F + 1 /\ F \in Nat
    BY DEF Reads
  <2>4. QED
    BY <2>1, <2>2, <2>3
<1>2. /\ start \in [Nat -> Int] /\ crypt \in [Nat -> Crypts]
      /\ \A i \in b..F : start[i + 1] - start[i] - 1 \in 0..sendMax
      /\ \A i, j \in b..(F + 1) : i < j => start[i] < start[j]
      /\ IF broken THEN E <= start[F + 1] ELSE E = start[F + 1]
  BY DEF Laid, Starts
<1>3. /\ start2 \in [Nat -> Int] /\ \A i \in Nat : start2[i] = start[i] - n
      /\ \A p \in 1..D : stream'[p] = stream[p + n]
      /\ UNCHANGED <<sent, broken, sendMax, rekeying, sendKey>>
      /\ start2[c] = IF hdr' = << >> THEN 0 ELSE -1
      /\ hdr' = << >> \/ (c <= F /\ hdr' = <<HeaderOf(c, start, crypt)>>)
  <2>1. start2 = [i \in Nat |-> start[i] - n]
    BY DEF Reads
  <2>2. start2 \in [Nat -> Int] /\ \A i \in Nat : start2[i] = start[i] - n
    BY <1>1, <1>2, <2>1
  <2>3. QED
    BY <2>2 DEF Reads
<1> HIDE DEF F, E, D, b, c
<1>4. \A i \in c..F : i \in b..F /\ i \in Nat /\ i + 1 \in Nat
  BY <1>1
<1>5. ASSUME NEW i \in c..F
      PROVE  /\ start[i] \in Int /\ start[i + 1] \in Int
             /\ start2[i] = start[i] - n /\ start2[i + 1] = start[i + 1] - n
             /\ start2[i + 1] - start2[i] - 1 = start[i + 1] - start[i] - 1
  <2>1. /\ start[i] \in Int /\ start[i + 1] \in Int
        /\ start2[i] = start[i] - n /\ start2[i + 1] = start[i + 1] - n
    BY <1>2, <1>3, <1>4
  <2>2. QED
    BY <1>1, <2>1
<1>6. Starts(start2)'
  <2>1. \A i \in c..F : start2[i + 1] - start2[i] - 1 \in 0..sendMax
    BY <1>2, <1>4, <1>5
  <2>2. ASSUME NEW i \in c..(F + 1), NEW j \in c..(F + 1), i < j
        PROVE  start2[i] < start2[j]
    <3>1. i \in b..(F + 1) /\ j \in b..(F + 1) /\ i \in Nat /\ j \in Nat
      BY <1>1
    <3>2. /\ start[i] \in Int /\ start[j] \in Int /\ start[i] < start[j]
          /\ start2[i] = start[i] - n /\ start2[j] = start[j] - n
      BY <1>2, <1>3, <2>2, <3>1
    <3>3. QED
      BY <1>1, <3>2
  <2>3. IF broken THEN D <= start2[F + 1] ELSE D = start2[F + 1]
    <3>1. F + 1 \in Nat
      BY <1>1
    <3>2. start[F + 1] \in Int /\ start2[F + 1] = start[F + 1] - n
      BY <1>2, <1>3, <3>1
    <3>3. QED
      BY <1>1, <1>2, <3>2
  <2>4. QED
    BY <1>1, <1>3, <2>1, <2>2, <2>3 DEF Starts, D, c
<1>7. ASSUME NEW i \in c..F
      PROVE  /\ HeaderOf(i, start2, crypt)' = HeaderOf(i, start, crypt)
             /\ PartOf(i, crypt)' = PartOf(i, crypt)
  BY <1>3, <1>5 DEF HeaderOf, PartOf
<1>8. Written(start2, crypt)'
  <2> SUFFICES ASSUME NEW i \in c..F
               PROVE  /\ start2[i] + 1 \in 1..D =>
                           stream'[start2[i] + 1] = HeaderOf(i, start2, crypt)'
                      /\ \A p \in (start2[i] + 2)..start2[i + 1] : p \in 1..D =>
                           stream'[p] = PartOf(i, crypt)'
    BY <1>1 DEF Written, c, D
  <2>1. /\ start[i] + 1 \in 1..E => stream[start[i] + 1] = HeaderOf(i, start, crypt)
        /\ \A p \in (start[i] + 2)..start[i + 1] : p \in 1..E => stream[p] = PartOf(i, crypt)
    BY <1>4 DEF Laid, Written, b, F, E
  <2>2. ASSUME start2[i] + 1 \in 1..D
        PROVE  stream'[start2[i] + 1] = HeaderOf(i, start2, crypt)'
    <3>1. start[i] + 1 \in 1..E /\ (start2[i] + 1) + n = start[i] + 1
      BY <1>1, <1>5, <2>2
    <3>2. QED
      BY <1>3, <1>7, <2>1, <2>2, <3>1
  <2>3. ASSUME NEW p \in (start2[i] + 2)..start2[i + 1], p \in 1..D
        PROVE  stream'[p] = PartOf(i, crypt)'
    <3>1. p + n \in (start[i] + 2)..start[i + 1] /\ p + n \in 1..E
      BY <1>1, <1>5, <2>3
    <3>2. QED
      BY <1>3, <1>7, <2>1, <2>3, <3>1
  <2>4. QED
    BY <2>2, <2>3
<1>9. Encrypted(crypt)'
  <2>1. \A i \in c..F : crypt[i] \in Crypts \ BadKeys /\ (~rekeying => crypt[i] \in {RSA, NoKey, sendKey})
    BY <1>4 DEF Laid, Encrypted, b, F
  <2>2. QED
    BY <1>1, <1>3, <2>1 DEF Encrypted, c
<1>10. hdr' = << >> \/ (First' <= Final' /\ hdr' = <<HeaderOf(First, start2, crypt)'>>)
  <2>1. CASE hdr' = << >>
    BY <2>1
  <2>2. CASE hdr' # << >>
    <3>1. c \in c..F /\ hdr' = <<HeaderOf(c, start, crypt)>>
      BY <1>1, <1>3, <2>2
    <3>2. HeaderOf(First, start2, crypt)' = HeaderOf(c, start, crypt)
      BY <1>3, <1>5, <3>1 DEF HeaderOf, c
    <3>3. QED
      BY <1>1, <1>3, <2>2, <3>1, <3>2 DEF c
  <2>3. QED
    BY <2>1, <2>2
<1>11. QED
  BY <1>2, <1>3, <1>6, <1>8, <1>9, <1>10 DEF Laid

\* SendMessage keeps the invariant, whether it fails, drops m or writes it.
LEMMA WriterKeeps ==
    ASSUME FramingInv, NEW m \in Messages, SendMessage(m)
    PROVE  FramingInv'
<1> USE DEF FramingInv
<1> DEFINE q == IF m.transmit THEN m.seqId ELSE 0
           new == [part |-> calls + 1, id |-> MsgId(m), seqId |-> q]
<1>1. /\ calls < MaxMsgs /\ ~broken /\ calls' = calls + 1
      /\ UNCHANGED <<sendMax, recvMax, rekeying, sendKey, recvKey, hdr, ended, received>>
      /\ \/ UNCHANGED <<stream, sent>>
         \/ ~EncodeFails(m) /\ ~TooBig(m) /\ stream' = stream \o Frame(m) /\ sent' = Append(sent, new) /\ broken' = broken
      /\ broken' \in BOOLEAN
  BY DEF SendMessage, limits, SentTypes
<1>2. new \in [part : Nat, id : Nat, seqId : Nat]
  <2>0. MsgId(m) \in Nat /\ q \in Nat
    BY FrameIs
  <2>1. MsgId(m) \in Nat /\ q \in Nat /\ calls + 1 \in Nat
    BY <2>0 DEF SentTypes
  <2> HIDE DEF q
  <2>2. QED
    BY <2>1
<1>3. /\ sent' \in Seq([part : Nat, id : Nat, seqId : Nat]) /\ Len(sent') <= calls'
      /\ Len(sent) \in Nat /\ Len(sent') \in {Len(sent), Len(sent) + 1}
      /\ \A i \in 1..Len(sent) : sent'[i] = sent[i]
  <2> HIDE DEF new
  <2>1. /\ sent \in Seq([part : Nat, id : Nat, seqId : Nat]) /\ Len(sent) <= calls
        /\ calls \in Nat /\ Len(sent) \in Nat
    BY DEF SentTypes
  <2>2. CASE sent' = sent
    BY <1>1, <2>1, <2>2
  <2>3. CASE sent' = Append(sent, new)
    <3>1. /\ sent' \in Seq([part : Nat, id : Nat, seqId : Nat]) /\ Len(sent') = Len(sent) + 1
          /\ \A i \in 1..Len(sent) : sent'[i] = sent[i]
      BY <1>2, <2>1, <2>3, AppendProperties
    <3>2. QED
      BY <1>1, <2>1, <3>1
  <2>4. QED
    BY <1>1, <2>2, <2>3
<1>4. SentTypes'
  <2>1. calls' \in 0..MaxMsgs
    BY <1>1, FramingAssumption DEF SentTypes
  <2>2. QED
    BY <1>1, <1>3, <2>1 DEF SentTypes
<1>5. ASSUME Compatible
      PROVE  stream' \in Seq(Cells) /\ ReceivedOK' /\ (~ended' => \E start, crypt : Laid(start, crypt)')
  <2>1. stream \in Seq(Cells) /\ ReceivedOK
    BY <1>5
  <2>2. Len(received) \in Nat /\ Len(received) <= Len(sent) /\ First = Len(received) + 1
    BY <2>1 DEF ReceivedOK, First
  <2>3. ReceivedOK'
    <3>1. /\ received' = received /\ Len(received) <= Len(sent') /\ First' = First
          /\ \A i \in 1..Len(received) : i \in 1..Len(sent) /\ sent'[i] = sent[i]
      <4>1. received' = received /\ First' = First
        BY <1>1 DEF First
      <4>2. Len(received) <= Len(sent') /\ \A i \in 1..Len(received) : i \in 1..Len(sent)
        BY <1>3, <2>2
      <4>3. QED
        BY <1>3, <4>1, <4>2
    <3>2. ASSUME ~rekeying, ended, ~broken'
          PROVE  First <= Final' /\ sent'[First].id \notin Known
      <4>1. First <= Final /\ sent[First].id \notin Known
        BY <1>1, <2>1, <3>2 DEF ReceivedOK
      <4>2. First \in 1..Len(sent) /\ First <= Final'
        BY <1>3, <2>2, <4>1 DEF Final
      <4>3. QED
        BY <1>3, <4>1, <4>2
    <3>3. QED
      BY <1>1, <2>1, <3>1, <3>2 DEF ReceivedOK
  <2>4. CASE UNCHANGED <<stream, sent>>
    <3>1. ASSUME NEW start, NEW crypt, Laid(start, crypt)
          PROVE  Laid(start, crypt)'
      <4>1. Starts(start)'
        BY <1>1, <2>4, <3>1 DEF Laid, Starts, First, Final
      <4>2. Written(start, crypt)' /\ Encrypted(crypt)'
        BY <1>1, <2>4, <3>1 DEF Laid, Written, Encrypted, First, Final, HeaderOf, PartOf
      <4>3. QED
        BY <1>1, <2>4, <3>1, <4>1, <4>2 DEF Laid, First, Final, HeaderOf
    <3>2. ~ended' => \E start, crypt : Laid(start, crypt)'
      BY <1>1, <1>5, <3>1
    <3>3. QED
      BY <2>1, <2>3, <2>4, <3>2
  <2>5. CASE ~EncodeFails(m) /\ ~TooBig(m) /\ stream' = stream \o Frame(m) /\ sent' = Append(sent, new) /\ broken' = broken
    <3>1. stream' \in Seq(Cells)
      <4>1. Frame(m) \in Seq(Cells)
        BY FrameIs
      <4>2. QED
        BY <2>1, <2>5, <4>1
    <3>2. ASSUME NEW start, NEW crypt, Laid(start, crypt)
          PROVE  \E s, c : Laid(s, c)'
      <4> DEFINE s == [start EXCEPT ![Final + 2] = start[Final + 1] + 1 + CryptLen(m)]
                 c == [crypt EXCEPT ![Final + 1] = CryptOf(m)]
      <4>0. First \in Nat \ {0} /\ First <= Final + 1
        BY <1>3, <2>2 DEF Final
      <4>1. PICK s2, c2 : s2 = s /\ c2 = c
        OBVIOUS
      <4>2. Sends(m, start, crypt, s2, c2)
        BY <1>1, <1>5, <2>1, <2>5, <4>0, <4>1 DEF Sends
      <4>3. QED
        BY <3>2, <4>2, SendLays
    <3>3. ~ended' => \E start, crypt : Laid(start, crypt)'
      BY <1>1, <1>5, <3>2
    <3>4. QED
      BY <2>3, <3>1, <3>3
  <2>6. QED
    BY <1>1, <2>4, <2>5
<1>6. Compatible' = Compatible
  BY <1>1 DEF Compatible
<1>7. QED
  BY <1>4, <1>5, <1>6

\* A connection that breaks loses the end of what was written.
LEMMA BreakKeeps ==
    ASSUME FramingInv, Break
    PROVE  FramingInv'
<1> USE DEF FramingInv
<1>1. /\ ~broken /\ broken'
      /\ \E n \in 0..Len(stream) : stream' = SubSeq(stream, 1, n)
      /\ UNCHANGED <<sendMax, recvMax, rekeying, sendKey, recvKey, sent, calls, hdr, ended, received>>
  BY DEF Break, limits
<1>2. SentTypes'
  BY <1>1 DEF SentTypes, Break
<1>3. ASSUME Compatible
      PROVE  stream' \in Seq(Cells) /\ ReceivedOK' /\ (~ended' => \E start, crypt : Laid(start, crypt)')
  <2>1. stream \in Seq(Cells) /\ ReceivedOK /\ (~ended => \E start, crypt : Laid(start, crypt))
    BY <1>3
  <2>2. PICK n \in 0..Len(stream) : stream' = SubSeq(stream, 1, n)
    BY <1>1
  <2>3. /\ stream' \in Seq(Cells) /\ Len(stream') = n /\ Len(stream) \in Nat /\ n \in Nat
        /\ n <= Len(stream) /\ \A p \in 1..n : p \in 1..Len(stream) /\ stream'[p] = stream[p]
    BY <2>1, <2>2
  <2>4. ReceivedOK'
    BY <1>1, <2>1 DEF ReceivedOK, First, Final
  <2>5. ASSUME NEW start, NEW crypt, Laid(start, crypt)
        PROVE  Laid(start, crypt)'
    <3>1. First' = First /\ Final' = Final
      BY <1>1 DEF First, Final
    <3>2. Final \in Nat /\ Len(stream) = start[Final + 1]
      BY <1>1, <2>5 DEF Laid, Starts, Final, SentTypes
    <3>3. Starts(start)'
      BY <1>1, <2>3, <2>5, <3>1, <3>2 DEF Laid, Starts
    <3>4. \A i : HeaderOf(i, start, crypt)' = HeaderOf(i, start, crypt) /\ PartOf(i, crypt)' = PartOf(i, crypt)
      BY <1>1 DEF HeaderOf, PartOf
    <3>5. Written(start, crypt)'
      BY <2>3, <2>5, <3>1, <3>4 DEF Laid, Written
    <3>6. Encrypted(crypt)'
      BY <1>1, <2>5, <3>1 DEF Laid, Encrypted
    <3>7. QED
      BY <1>1, <2>5, <3>1, <3>3, <3>5, <3>6 DEF Laid, HeaderOf
  <2>6. QED
    BY <1>1, <2>1, <2>3, <2>4, <2>5
<1>4. Compatible' = Compatible
  BY <1>1 DEF Compatible
<1>5. QED
  BY <1>2, <1>3, <1>4

\* A change of keys leaves every frame where it is.
LEMMA SetAESKeeps ==
    ASSUME FramingInv, NEW k \in Keys, SetAES(k)
    PROVE  FramingInv'
<1> USE DEF FramingInv
<1>1. /\ rekeying /\ rekeying' = rekeying
      /\ UNCHANGED <<sendMax, recvMax, stream, broken, sent, calls, hdr, ended, received>>
      /\ sendKey' \in Keys \cup {NoKey} /\ recvKey' \in Keys \cup {NoKey}
  BY DEF SetAES, limits, SentTypes
<1>2. SentTypes'
  BY <1>1 DEF SentTypes
<1>3. ReceivedOK => ReceivedOK'
  BY <1>1 DEF ReceivedOK, First, Final
<1>4. ASSUME NEW start, NEW crypt, Laid(start, crypt)
      PROVE  Laid(start, crypt)'
  <2>1. First' = First /\ Final' = Final
    BY <1>1 DEF First, Final
  <2>2. \A i : HeaderOf(i, start, crypt)' = HeaderOf(i, start, crypt) /\ PartOf(i, crypt)' = PartOf(i, crypt)
    BY <1>1 DEF HeaderOf, PartOf
  <2>3. Starts(start)'
    BY <1>1, <1>4, <2>1 DEF Laid, Starts
  <2>4. Written(start, crypt)'
    BY <1>1, <1>4, <2>1, <2>2 DEF Laid, Written
  <2>5. Encrypted(crypt)'
    BY <1>1, <1>4, <2>1 DEF Laid, Encrypted
  <2>6. QED
    BY <1>1, <1>4, <2>1, <2>3, <2>4, <2>5 DEF Laid, HeaderOf
<1>5. Compatible' = Compatible
  BY <1>1 DEF Compatible
<1>6. QED
  BY <1>1, <1>2, <1>3, <1>4, <1>5

\* The counters of what was sent and received.
LEMMA Counts ==
    ASSUME SentTypes, ReceivedOK
    PROVE  Len(sent) \in Nat /\ Final \in Nat /\ First \in Nat \ {0} /\ First <= Final + 1
<1>1. Len(sent) \in Nat /\ Len(received) \in Nat /\ Len(received) <= Len(sent)
  BY DEF SentTypes, ReceivedOK
<1>2. QED
  BY <1>1 DEF First, Final

\* The reader stands where a frame begins: what it takes for a header is one.
LEMMA HeaderKeeps ==
    ASSUME FramingInv, ReadHeader
    PROVE  FramingInv'
<1> USE DEF FramingInv
<1>1. /\ ~ended /\ hdr = << >> /\ stream # << >> /\ stream' = Tail(stream)
      /\ \E h \in IF IsHeader(Head(stream)) THEN {Head(stream)} ELSE Garbage : hdr' = <<h>>
      /\ UNCHANGED <<sendMax, recvMax, rekeying, sendKey, recvKey, broken, sent, calls, ended, received>>
  BY DEF ReadHeader, limits
<1>2. SentTypes' /\ Len(hdr') <= 1
  <2>1. Len(hdr') <= 1
    BY <1>1
  <2>2. QED
    BY <1>1, <2>1 DEF SentTypes
<1>3. ASSUME Compatible
      PROVE  stream' \in Seq(Cells) /\ ReceivedOK' /\ (~ended' => \E start, crypt : Laid(start, crypt)')
  <2>1. stream \in Seq(Cells) /\ ReceivedOK /\ \E start, crypt : Laid(start, crypt)
    BY <1>1, <1>3
  <2>2. /\ stream' \in Seq(Cells) /\ Len(stream) \in Nat \ {0} /\ Len(stream') = Len(stream) - 1
        /\ \A p \in 1..Len(stream') : stream'[p] = stream[p + 1]
    BY <1>1, <2>1
  <2>3. ReceivedOK'
    BY <1>1, <2>1 DEF ReceivedOK, First, Final
  <2>4. PICK start, crypt : Laid(start, crypt)
    BY <2>1
  <2>5. Final \in Nat /\ First \in Nat \ {0} /\ First <= Final + 1 /\ First' = First /\ Final' = Final
    BY <1>1, <2>1, Counts DEF First, Final
  <2>6. start \in [Nat -> Int] /\ start[First] = 0
    BY <1>1, <2>4 DEF Laid, Starts
  <2>7. First \in First..Final
    <3>1. Len(stream) <= start[Final + 1] \/ Len(stream) = start[Final + 1]
      BY <2>4 DEF Laid, Starts
    <3>2. First # Final + 1
      BY <2>2, <2>6, <3>1
    <3>3. QED
      BY <2>5, <3>2
  <2>8. Head(stream) = HeaderOf(First, start, crypt)
    <3>1. start[First] + 1 = 1 /\ 1 \in 1..Len(stream)
      BY <2>2, <2>6
    <3>2. stream[1] = HeaderOf(First, start, crypt)
      BY <2>4, <2>7, <3>1 DEF Laid, Written
    <3>3. QED
      BY <2>1, <2>2, <3>2
  <2>9. hdr' = <<HeaderOf(First, start, crypt)>>
    <3>1. IsHeader(HeaderOf(First, start, crypt))
      BY DEF IsHeader, HeaderOf
    <3>2. QED
      BY <1>1, <2>8, <3>1
  <2>10. PICK start2 : start2 = [i \in Nat |-> start[i] - 1]
    OBVIOUS
  <2>11. start2[First] = -1
    BY <2>5, <2>6, <2>10
  <2>12. hdr' # << >>
    BY <2>9
  <2>13. Reads(1, start, crypt, start2)
    <3>1. First' <= Final /\ First' \in Nat /\ First <= First' /\ First' <= Final + 1
      BY <2>5, <2>7
    <3>2. QED
      BY <1>1, <2>1, <2>2, <2>5, <2>9, <2>10, <2>11, <2>12, <3>1 DEF Reads
  <2>14. Laid(start2, crypt)'
    BY <2>4, <2>13, ReadLeaves
  <2>15. QED
    BY <2>2, <2>3, <2>14
<1>4. Compatible' = Compatible
  BY <1>1 DEF Compatible
<1>5. QED
  BY <1>2, <1>3, <1>4

\* What the reader knows when it has a header h and the body behind it.
BodyRead(h, n, start, crypt) ==
    /\ SentTypes /\ ReceivedOK /\ Compatible /\ stream \in Seq(Cells)
    /\ Laid(start, crypt) /\ hdr # << >> /\ h = hdr[1] /\ n = BodyLen(h) /\ Len(stream) >= n

\* The body is that of the next message, and it is all of it.
LEMMA BodyIs ==
    ASSUME NEW h, NEW n, NEW start, NEW crypt, BodyRead(h, n, start, crypt)
    PROVE  /\ First \in First..Final /\ h = HeaderOf(First, start, crypt)
           /\ h.len = n /\ n \in Nat /\ start[First + 1] = n /\ start[First] = -1
           /\ \A p \in 1..n : stream[p] = PartOf(First, crypt)
<1>1. Final \in Nat /\ First \in Nat \ {0} /\ First <= Final + 1
  BY Counts DEF BodyRead
<1>2. First <= Final /\ h = HeaderOf(First, start, crypt)
  <2>1. First <= Final /\ hdr = <<HeaderOf(First, start, crypt)>> /\ h = hdr[1]
    BY DEF BodyRead, Laid
  <2>2. QED
    BY <2>1
<1>3. First \in First..Final
  BY <1>1, <1>2
<1>4. start \in [Nat -> Int] /\ start[First] = -1 /\ start[First + 1] - start[First] - 1 \in 0..sendMax
  BY <1>3 DEF BodyRead, Laid, Starts
<1>5. start[First + 1] \in Int /\ First + 1 \in Nat
  BY <1>1, <1>4
<1> DEFINE k == start[First + 1]
<1>6. k \in Nat /\ k <= sendMax /\ sendMax \in Nat /\ k - start[First] - 1 = k
  BY <1>4, <1>5 DEF BodyRead, SentTypes
<1>7. h.len = k
  BY <1>2, <1>6 DEF HeaderOf
<1>8. ~TooLong(h)
  <2>1. W \in Nat \ {0}
    BY FramingAssumption
  <2>2. recvMax \in Nat /\ sendMax <= recvMax /\ recvMax < W
    BY DEF BodyRead, SentTypes, Compatible
  <2>3. recvMax % W = recvMax
    BY <2>1, <2>2
  <2>4. QED
    BY <1>6, <1>7, <2>2, <2>3 DEF TooLong
<1>9. n = k /\ Len(stream) >= n /\ Len(stream) \in Nat
  BY <1>7, <1>8 DEF BodyRead, BodyLen
<1>10. ASSUME NEW p \in 1..n
       PROVE  stream[p] = PartOf(First, crypt)
  <2>1. p \in (start[First] + 2)..start[First + 1] /\ p \in 1..Len(stream)
    BY <1>4, <1>6, <1>9
  <2>2. QED
    BY <1>3, <2>1 DEF BodyRead, Laid, Written
<1>11. QED
  BY <1>2, <1>3, <1>4, <1>6, <1>7, <1>9, <1>10

\* And the key it is decrypted with, by the flag.
KeyRead(h, n, start, crypt, body, key) ==
    /\ BodyRead(h, n, start, crypt) /\ ~rekeying /\ body = SubSeq(stream, 1, n)
    /\ key = IF h.flag = 1 THEN RSA ELSE IF h.flag = 2 THEN recvKey ELSE NoKey

\* With the keys as they were, it is decrypted with what it was encrypted with.
LEMMA BodyWhole ==
    ASSUME NEW h, NEW n, NEW start, NEW crypt, NEW body, NEW key,
           KeyRead(h, n, start, crypt, body, key)
    PROVE  /\ Whole(h, body, key) /\ ~NoKeyFor(h)
           /\ (IF Whole(h, body, key) /\ body # << >> THEN body[1].part ELSE 0)
                \in {0, sent[First].part}
<1>0. /\ BodyRead(h, n, start, crypt) /\ ~rekeying /\ body = SubSeq(stream, 1, n)
      /\ key = IF h.flag = 1 THEN RSA ELSE IF h.flag = 2 THEN recvKey ELSE NoKey
  BY DEF KeyRead
<1>1. /\ First \in First..Final /\ h = HeaderOf(First, start, crypt) /\ h.len = n /\ n \in Nat
      /\ \A p \in 1..n : stream[p] = PartOf(First, crypt)
  BY <1>0, BodyIs
<1>2. crypt[First] \in {RSA, NoKey, sendKey} \ BadKeys /\ recvKey = sendKey /\ sendKey \in Keys \cup {NoKey}
  BY <1>0, <1>1 DEF BodyRead, Laid, Encrypted, SentTypes
<1>3. h.flag = FlagOf(crypt[First])
  BY <1>1 DEF HeaderOf
<1>4. RSA # NoKey /\ RSA \notin Keys /\ NoKey \notin Keys
  BY FramingAssumption
<1>5. key = crypt[First] /\ ~NoKeyFor(h)
  BY <1>0, <1>2, <1>3, <1>4 DEF FlagOf, NoKeyFor
<1>6. Len(body) = n /\ \A i \in 1..n : body[i] = PartOf(First, crypt)
  <2>1. stream \in Seq(Cells) /\ Len(stream) >= n /\ Len(stream) \in Nat
    BY <1>0 DEF BodyRead
  <2>2. Len(body) = n /\ \A i \in 1..n : body[i] = stream[i]
    BY <1>0, <1>1, <2>1
  <2>3. QED
    BY <1>1, <2>2
<1>7. ~IsHeader(PartOf(First, crypt))
  BY DEF IsHeader, PartOf
<1>8. PartOf(First, crypt).part = sent[First].part /\ PartOf(First, crypt).crypt = crypt[First]
  BY DEF PartOf
<1>9. n # 0 => body[1] = PartOf(First, crypt)
  BY <1>1, <1>6
<1>10. Whole(h, body, key)
  <2>1. \A i \in 1..n : body[i] = PartOf(First, crypt) /\ body[1] = PartOf(First, crypt)
    BY <1>1, <1>6
  <2>2. QED
    BY <1>1, <1>5, <1>6, <1>7, <1>8, <2>1 DEF Whole
<1>11. body # << >> => n # 0
  <2>1. n = 0 => body = << >>
    BY <1>0, <1>6 DEF BodyRead
  <2>2. QED
    BY <2>1
<1>12. QED
  BY <1>5, <1>8, <1>9, <1>10, <1>11

\* So the rest of ReadMessage returns that message, or refuses it.
LEMMA BodyKeeps ==
    ASSUME FramingInv, ReadBody
    PROVE  FramingInv'
<1> USE DEF FramingInv
<1> DEFINE h == hdr[1]
           n == BodyLen(h)
           body == SubSeq(stream, 1, n)
           key == IF h.flag = 1 THEN RSA ELSE IF h.flag = 2 THEN recvKey ELSE NoKey
           new == [id |-> h.id, seqId |-> h.seqId, intact |-> Whole(h, body, key),
                   part |-> IF Whole(h, body, key) /\ body # << >> THEN body[1].part ELSE 0]
<1>1. /\ ~ended /\ hdr # << >> /\ hdr' = << >> /\ Len(stream) >= n
      /\ stream' = SubSeq(stream, n + 1, Len(stream))
      /\ UNCHANGED <<sendMax, recvMax, rekeying, sendKey, recvKey, broken, sent, calls>>
  BY DEF ReadBody, limits
<1>2. \/ /\ h.id \notin Known \/ NoKeyFor(h) \/ ~Whole(h, body, key)
         /\ ended' = TRUE /\ UNCHANGED received
      \/ /\ h.id \in Known /\ received' = Append(received, new) /\ UNCHANGED ended
  BY DEF ReadBody, Decode
<1>3. SentTypes'
  <2>0. Len(hdr') <= 1
    BY <1>1
  <2>1. Len(hdr') <= 1 /\ ended' \in BOOLEAN
    <3> HIDE DEF new, key, body, n, h
    <3>1. ended \in BOOLEAN
      BY DEF SentTypes
    <3>2. QED
      BY <1>2, <2>0, <3>1
  <2>2. QED
    BY <1>1, <2>1 DEF SentTypes
<1>4. ASSUME Compatible
      PROVE  stream' \in Seq(Cells) /\ ReceivedOK' /\ (~ended' => \E start, crypt : Laid(start, crypt)')
  <2>1. stream \in Seq(Cells) /\ ReceivedOK /\ SentTypes /\ \E start, crypt : Laid(start, crypt)
    BY <1>1, <1>4
  <2>2. PICK start, crypt : Laid(start, crypt)
    BY <2>1
  <2>3. BodyRead(h, n, start, crypt)
    BY <1>1, <1>4, <2>1, <2>2 DEF BodyRead
  <2>4. /\ First \in First..Final /\ h = HeaderOf(First, start, crypt)
        /\ h.len = n /\ n \in Nat /\ start[First + 1] = n /\ start[First] = -1
        /\ \A p \in 1..n : stream[p] = PartOf(First, crypt)
    BY <2>3, BodyIs
  <2>5. ~rekeying => /\ Whole(h, body, key) /\ ~NoKeyFor(h)
                     /\ new.intact /\ new.part \in {0, sent[First].part}
    <3>1. /\ body = SubSeq(stream, 1, n)
          /\ key = IF h.flag = 1 THEN RSA ELSE IF h.flag = 2 THEN recvKey ELSE NoKey
      OBVIOUS
    <3> HIDE DEF FramingInv, h, n, body, key
    <3>2. ASSUME ~rekeying
          PROVE  /\ Whole(h, body, key) /\ ~NoKeyFor(h)
                 /\ (IF Whole(h, body, key) /\ body # << >> THEN body[1].part ELSE 0)
                       \in {0, sent[First].part}
      <4>1. KeyRead(h, n, start, crypt, body, key)
        BY <2>3, <3>1, <3>2 DEF KeyRead
      <4>2. QED
        BY <4>1, BodyWhole
    <3>3. QED
      BY <3>2
  <2>6. /\ Final \in Nat /\ First \in Nat \ {0} /\ First <= Final /\ First \in 1..Len(sent)
        /\ Len(sent) = Final /\ Len(received) \in Nat /\ First = Len(received) + 1
    <3>1. Final \in Nat /\ First \in Nat \ {0}
      BY <2>1, Counts
    <3>2. Len(received) \in Nat
      BY <2>1 DEF ReceivedOK
    <3>3. Len(sent) = Final /\ First = Len(received) + 1
      BY DEF Final, First
    <3>4. QED
      BY <2>4, <3>1, <3>2, <3>3
  <2>7. h.id = sent[First].id /\ h.seqId = sent[First].seqId
    BY <2>4 DEF HeaderOf
  <2>8. sent[First] \in [part : Nat, id : Nat, seqId : Nat]
    <3>1. sent \in Seq([part : Nat, id : Nat, seqId : Nat])
      BY <2>1 DEF SentTypes
    <3>2. QED
      BY <2>6, <3>1, ElementOfSeq
  <2>9. /\ stream' \in Seq(Cells) /\ Len(stream') = Len(stream) - n
        /\ \A p \in 1..Len(stream') : stream'[p] = stream[p + n]
    <3>1. n \in Nat /\ Len(stream) \in Nat /\ n <= Len(stream)
      BY <1>1, <2>1, <2>4
    <3> HIDE DEF n
    <3>2. stream' = SubSeq(stream, n + 1, Len(stream)) /\ stream \in Seq(Cells)
      BY <1>1, <2>1
    <3>3. \A i \in (n + 1)..Len(stream) : i \in 1..Len(stream)
      BY <3>1
    <3>4. \A i \in (n + 1)..Len(stream) : stream[i] \in Cells
      BY <2>1, <3>3
    <3>5. Len(stream') = Len(stream) - n
      BY <3>1, <3>2
    <3>6. \A p \in 1..Len(stream') : stream'[p] = stream[p + n]
      BY <3>1, <3>2, <3>5
    <3>7. stream' \in Seq(Cells)
      BY <3>1, <3>2, <3>4
    <3>8. QED
      BY <3>5, <3>6, <3>7
  <2> HIDE DEF n
  <2>13. body # << >> => body[1].part \in Nat
    <3>1. /\ stream \in Seq(Cells) /\ n <= Len(stream) /\ n \in Nat
          /\ body = SubSeq(stream, 1, n) /\ Len(stream) \in Nat
      BY <1>1, <2>1, <2>4
    <3>2. n = 0 => body = << >>
      BY <3>1
    <3>3. n # 0 => body[1] = stream[1] /\ 1 \in 1..n
      BY <3>1
    <3>4. n # 0 => body[1] = PartOf(First, crypt)
      BY <2>4, <3>3
    <3>5. PartOf(First, crypt).part \in Nat
      BY <2>8 DEF PartOf
    <3>6. QED
      BY <3>2, <3>4, <3>5
  <2> HIDE DEF h, body, key
  <2>10. CASE /\ h.id \notin Known \/ NoKeyFor(h) \/ ~Whole(h, body, key)
              /\ ended' = TRUE /\ UNCHANGED received
    <3>1. First' = First /\ Final' = Final
      BY <1>1, <2>10 DEF First, Final
    <3>2. ~rekeying => First <= Final /\ sent[First].id \notin Known
      BY <2>5, <2>6, <2>7, <2>10
    <3>3. ReceivedOK'
      BY <1>1, <2>1, <2>10, <3>1, <3>2 DEF ReceivedOK
    <3>4. QED
      BY <2>9, <2>10, <3>3
  <2>11. CASE h.id \in Known /\ received' = Append(received, new) /\ UNCHANGED ended
    <3>1. new \in [id : Nat, seqId : Nat, intact : BOOLEAN, part : Nat]
      <4>1. h.id \in Nat /\ h.seqId \in Nat
        BY <2>7, <2>8
      <4>2. Whole(h, body, key) \in BOOLEAN
        BY DEF Whole
      <4>3. (IF Whole(h, body, key) /\ body # << >> THEN body[1].part ELSE 0) \in Nat
        <5>1. Whole(h, body, key) /\ body # << >> => body[1].part \in Nat
          BY <2>13
        <5>2. QED
          BY <5>1
      <4>4. QED
        BY <4>1, <4>2, <4>3
    <3>2. new.id = sent[First].id /\ new.seqId = sent[First].seqId
      BY <2>7
    <3> HIDE DEF new
    <3>3. /\ received' \in Seq([id : Nat, seqId : Nat, intact : BOOLEAN, part : Nat])
          /\ Len(received') = First /\ received'[First] = new
          /\ \A i \in 1..Len(received) : received'[i] = received[i]
      <4>1. received \in Seq([id : Nat, seqId : Nat, intact : BOOLEAN, part : Nat])
        BY <2>1 DEF ReceivedOK
      <4>2. QED
        BY <2>6, <2>11, <3>1, <4>1
    <3>4. ReceivedOK'
      <4>1. \A i \in 1..First : i = First \/ i \in 1..Len(received)
        BY <2>6
      <4>2. \A i \in 1..First : received'[i].id = sent[i].id /\ received'[i].seqId = sent[i].seqId
        BY <2>1, <3>2, <3>3, <4>1 DEF ReceivedOK
      <4>3. ~rekeying => \A i \in 1..First : received'[i].intact /\ received'[i].part \in {0, sent[i].part}
        BY <2>1, <2>5, <3>3, <4>1 DEF ReceivedOK
      <4>4. ~ended' /\ Len(received') <= Len(sent')
        BY <1>1, <2>6, <2>11, <3>3
      <4>5. QED
        BY <1>1, <3>3, <4>2, <4>3, <4>4 DEF ReceivedOK
    <3>5. PICK start2 : start2 = [i \in Nat |-> start[i] - n]
      OBVIOUS
    <3>6. First' = First + 1 /\ First' \in Nat /\ First <= First' /\ First' <= Final + 1
      BY <2>6, <3>3 DEF First
    <3>7. start2[First'] = 0
      BY <2>4, <2>6, <3>5, <3>6
    <3>8. Reads(n, start, crypt, start2)
      BY <1>1, <2>1, <2>4, <2>6, <2>9, <3>5, <3>6, <3>7 DEF Reads
    <3>9. Laid(start2, crypt)'
      BY <2>2, <3>8, ReadLeaves
    <3>10. QED
      BY <2>9, <3>4, <3>9
  <2>12. QED
    BY <1>2, <2>10, <2>11 DEF new
<1>5. Compatible' = Compatible
  BY <1>1 DEF Compatible
<1>6. QED
  BY <1>3, <1>4, <1>5

\* A reader whose connection is gone ends.
LEMMA EndKeeps ==
    ASSUME FramingInv, ReadEnd
    PROVE  FramingInv'
<1> USE DEF FramingInv
<1>1. /\ broken /\ ended' = TRUE
      /\ UNCHANGED <<sendMax, recvMax, rekeying, sendKey, recvKey, stream, broken, sent, calls,
                     hdr, received>>
  BY DEF ReadEnd, limits
<1>2. SentTypes'
  BY <1>1 DEF SentTypes
<1>3. ReceivedOK => ReceivedOK'
  BY <1>1 DEF ReceivedOK, First, Final
<1>4. Compatible' = Compatible
  BY <1>1 DEF Compatible
<1>5. QED
  BY <1>1, <1>2, <1>3, <1>4

\* The invariant says nothing of variables of others.
LEMMA FramingStutters ==
    ASSUME FramingInv, UNCHANGED fvars
    PROVE  FramingInv'
<1>1. UNCHANGED <<sendMax, recvMax, rekeying, sendKey, recvKey, stream, broken, sent, calls, hdr,
                  ended, received>>
  BY DEF fvars, limits
<1>2. SentTypes => SentTypes'
  BY <1>1 DEF SentTypes
<1>3. ReceivedOK => ReceivedOK'
  BY <1>1 DEF ReceivedOK, First, Final
<1>4. ASSUME NEW start, NEW crypt, Laid(start, crypt)
      PROVE  Laid(start, crypt)'
  <2>1. First' = First /\ Final' = Final
    BY <1>1 DEF First, Final
  <2>2. \A i : HeaderOf(i, start, crypt)' = HeaderOf(i, start, crypt) /\ PartOf(i, crypt)' = PartOf(i, crypt)
    BY <1>1 DEF HeaderOf, PartOf
  <2>3. Starts(start)'
    BY <1>1, <1>4, <2>1 DEF Laid, Starts
  <2>4. Written(start, crypt)'
    BY <1>1, <1>4, <2>1, <2>2 DEF Laid, Written
  <2>5. Encrypted(crypt)'
    BY <1>1, <1>4, <2>1 DEF Laid, Encrypted
  <2>6. QED
    BY <1>1, <1>4, <2>1, <2>3, <2>4, <2>5 DEF Laid, HeaderOf
<1>5. Compatible' = Compatible
  BY <1>1 DEF Compatible
<1>6. QED
  BY <1>1, <1>2, <1>3, <1>4, <1>5 DEF FramingInv

\* Nothing has been sent at first, so that nothing is where it should not be.
LEMMA FramingStarts ==
    ASSUME FramingInit
    PROVE  FramingInv
<1>1. /\ sendMax \in MaxMsgLens /\ recvMax \in MaxMsgLens /\ rekeying \in BOOLEAN
      /\ sendKey \in Keys \cup {NoKey} /\ recvKey = sendKey /\ stream = << >> /\ broken = FALSE
      /\ sent = << >> /\ calls = 0 /\ hdr = << >> /\ ended = FALSE /\ received = << >>
  BY DEF FramingInit
<1>2. MaxMsgLens \subseteq Nat
  <2>1. W \in Nat \ {0} /\ DefaultMax \in 1..W - 1 /\ Sizes \subseteq Nat
    BY FramingAssumption
  <2>2. \A read \in {0} \cup Sizes : SetSocketBuff(read) \in Nat
    BY <2>1 DEF SetSocketBuff
  <2>3. \A size \in Sizes : SetMaxMsgLen(size) \in Nat
    BY <2>1 DEF SetMaxMsgLen
  <2>4. QED
    BY <2>2, <2>3 DEF MaxMsgLens
<1>3. SentTypes
  <2>1. 0 \in 0..MaxMsgs
    BY FramingAssumption
  <2>2. sent \in Seq([part : Nat, id : Nat, seqId : Nat]) /\ Len(sent) <= calls /\ Len(hdr) <= 1
    BY <1>1
  <2>3. QED
    BY <1>1, <1>2, <2>1, <2>2 DEF SentTypes
<1>4. ReceivedOK
  <2>1. received \in Seq([id : Nat, seqId : Nat, intact : BOOLEAN, part : Nat])
    BY <1>1
  <2>2. Len(received) = 0 /\ Len(sent) = 0
    BY <1>1
  <2>3. QED
    BY <1>1, <2>1, <2>2 DEF ReceivedOK
<1>5. First = 1 /\ Final = 0 /\ Len(stream) = 0 /\ stream \in Seq(Cells)
  BY <1>1 DEF First, Final
<1>6. PICK start, crypt : start = [i \in Nat |-> 0] /\ crypt = [i \in Nat |-> NoKey]
  OBVIOUS
<1>7. Laid(start, crypt)
  <2>1. start \in [Nat -> Int] /\ crypt \in [Nat -> Crypts] /\ start[1] = 0
    BY <1>6 DEF Crypts
  <2>2. 1..0 = {} /\ 1..(0 + 1) = {1} /\ 0 + 1 = 1
    OBVIOUS
  <2>3. Starts(start)
    BY <1>1, <1>5, <2>1, <2>2 DEF Starts
  <2>4. Written(start, crypt) /\ Encrypted(crypt)
    BY <1>5, <2>2 DEF Written, Encrypted
  <2>5. QED
    BY <1>1, <2>1, <2>3, <2>4 DEF Laid
<1>8. QED
  BY <1>3, <1>4, <1>5, <1>7 DEF FramingInv

\* FramingInv is an inductive invariant.
LEMMA AlwaysFramingInv == FramingSpec => []FramingInv
<1>1. FramingInit => FramingInv
  BY FramingStarts
<1>2. FramingInv /\ [FramingNext]_fvars => FramingInv'
  <2> SUFFICES ASSUME FramingInv, [FramingNext]_fvars
               PROVE  FramingInv'
    OBVIOUS
  <2>1. CASE \E m \in Messages : SendMessage(m)
    BY <2>1, WriterKeeps
  <2>2. CASE Break
    BY <2>2, BreakKeeps
  <2>3. CASE \E k \in Keys : SetAES(k)
    BY <2>3, SetAESKeeps
  <2>4. CASE ReadHeader
    BY <2>4, HeaderKeeps
  <2>5. CASE ReadBody
    BY <2>5, BodyKeeps
  <2>6. CASE ReadEnd
    BY <2>6, EndKeeps
  <2>7. CASE UNCHANGED fvars
    BY <2>7, FramingStutters
  <2>8. QED
    BY <2>1, <2>2, <2>3, <2>4, <2>5, <2>6, <2>7 DEF FramingNext
<1>3. QED
  BY <1>1, <1>2, PTL DEF FramingSpec

\* For every set of messages, every pair of limits that agree and every key,
\* ReadMessage returns the ids and sequence numbers SendMessage wrote, in that
\* order and without a gap, whatever SetAES and the connection do meanwhile.
THEOREM FramingInOrder == FramingSpec => []InOrder
<1>1. FramingInv => InOrder
  <2> SUFFICES ASSUME FramingInv
               PROVE  InOrder
    OBVIOUS
  <2>1. FramingTypeOK
    BY DEF FramingInv, SentTypes, FramingTypeOK
  <2>2. QED
    BY <2>1 DEF FramingInv, ReceivedOK, InOrder
<1>2. QED
  BY <1>1, AlwaysFramingInv, PTL

\* And while the keys stay as they are, every message that is returned was
\* decrypted with the key it was encrypted with, from the whole of its body; a
\* reader whose connection is up gives up only on an id that is not registered.
THEOREM FramingIntact == FramingSpec => []Intact
<1>1. FramingInv => Intact
  <2> SUFFICES ASSUME FramingInv
               PROVE  Intact
    OBVIOUS
  <2>1. First = Len(received) + 1
    BY DEF First
  <2>2. QED
    BY <2>1 DEF FramingInv, ReceivedOK, Intact
<1>2. QED
  BY <1>1, AlwaysFramingInv, PTL
=============================================================================
