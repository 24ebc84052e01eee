---------------------------- MODULE ManagerProofs ----------------------------
(***************************************************************************)
(* Proofs about SessionManager for one adding goroutine, as it is with a   *)
(* TCP acceptor and a connector, and for any number of sessions, any keys  *)
(* of the server and any limit of the sequence that fits into its field.   *)
(***************************************************************************)
EXTENDS SessionManager, FiniteSetTheorems, TLAPS

-----------------------------------------------------------------------------
(* The inductive invariants.                                                *)

\* Add is called from one goroutine: one session at most is under way.
OneAdder ==
    \A r, s \in Sessions : add[r] \in Under /\ add[s] \in Under => r = s

\* The sessions that were removed.
Out == {s \in Sessions : add[s] = "out"}

Types ==
    /\ genKey \in Nat /\ second \in 1..MaxSecond /\ setBack \in BOOLEAN
    /\ lastTimeStamp \in Nat /\ sequence \in Nat
    /\ sessionMap \in SUBSET (Nat \X Sessions)
    /\ count \in Int /\ count = -Cardinality(Out)
    /\ id \in [Sessions -> Nat]
    /\ now \in [Sessions -> Nat]
    /\ add \in [Sessions -> AddPC]

\* The map holds exactly the sessions between Add and Remove, under different
\* ids; a session about to be stored found its id free, and nobody else stores
\* meanwhile.
MapAgrees ==
    /\ \A s \in Sessions : add[s] = "in" => <<id[s], s>> \in sessionMap
    /\ \A p \in sessionMap : p[1] = id[p[2]] /\ add[p[2]] = "in"
    /\ \A r, s \in Sessions :
          add[r] = "in" /\ add[s] = "in" /\ id[r] = id[s] => r = s
    /\ \A r, s \in Sessions : add[r] = "store" /\ add[s] = "in" => id[r] # id[s]

FindInv == Types /\ OneAdder /\ MapAgrees

\* The id was made of a second and a sequence number up to the given ones.
MadeUpTo(n, ts, seq) ==
    \E t \in Nat, q \in 1..SeqLimit, k \in Nat :
       n = Uid(t, q, k) /\ (t < ts \/ (t = ts /\ q <= seq))

\* Until the first id, lastTimeStamp is in milliseconds and no second.
FirstId ==
    /\ lastTimeStamp = 1000
    /\ \A s \in Sessions : id[s] = 0 /\ add[s] # "uid"

\* While the clock is not set back, seconds and sequence numbers only grow: a
\* session in genSessionId has a second or a number no other session got.
Growing ==
    /\ FirstId \/ lastTimeStamp <= second
    /\ \A s \in Sessions :
         /\ add[s] \in {"new", "seq", "uid"} => id[s] = 0
         /\ add[s] = "seq" => now[s] \in 1..second /\ (FirstId \/ lastTimeStamp <= now[s])
         /\ id[s] # 0 => MadeUpTo(id[s], lastTimeStamp, sequence)
         /\ add[s] = "uid" =>
              /\ sequence \in 1..SeqLimit
              /\ \A r \in Sessions : id[r] # 0 => MadeUpTo(id[r], lastTimeStamp, sequence - 1)

Distinct == \A r, s \in Sessions : r # s /\ id[r] = id[s] => id[r] = 0

NameInv == Types /\ OneAdder /\ (~setBack => Growing /\ Distinct)

-----------------------------------------------------------------------------
(* Ids.                                                                     *)

\* An id tells the second and the sequence number it was made of.
LEMMA UidParts ==
    ASSUME NEW t \in Nat, NEW q \in Nat, NEW k \in Nat,
           NEW u \in Nat, NEW r \in Nat, NEW j \in Nat,
           q < 65536, r < 65536, Uid(t, q, k) = Uid(u, r, j)
    PROVE t = u /\ q = r
  <1>1. q % 65536 = q /\ r % 65536 = r
    OBVIOUS
  <1>2. /\ k % 256 \in Nat /\ k % 256 < 256
        /\ j % 256 \in Nat /\ j % 256 < 256
    OBVIOUS
  <1>3. t * 16777216 + q * 256 + (k % 256) = u * 16777216 + r * 256 + (j % 256)
    BY <1>1 DEF Uid
  <1> QED BY <1>2, <1>3

\* An id is a number.
LEMMA UidType ==
    ASSUME NEW t \in Nat, NEW q \in Nat, NEW k \in Nat
    PROVE Uid(t, q, k) \in Nat
  BY DEF Uid

\* An id made of earlier seconds or numbers is another one.
LEMMA UidFresh ==
    ASSUME NEW ts \in Nat, NEW seq \in 1..SeqLimit, NEW k \in Nat, NEW n,
           MadeUpTo(n, ts, seq - 1)
    PROVE n # Uid(ts, seq, k)
  <1>1. PICK t \in Nat, q \in 1..SeqLimit, j \in Nat :
           n = Uid(t, q, j) /\ (t < ts \/ (t = ts /\ q <= seq - 1))
    BY DEF MadeUpTo
  <1>2. q \in Nat /\ q < 65536 /\ seq \in Nat /\ seq < 65536
    BY ManagerAssumption
  <1>3. t # ts \/ q # seq
    BY <1>1
  <1> QED BY <1>1, <1>2, <1>3, UidParts

\* Later seconds and numbers allow no less.
LEMMA MadeUpToGrows ==
    ASSUME NEW n, NEW ts \in Nat, NEW seq \in Nat, NEW us \in Nat, NEW uq \in Nat,
           MadeUpTo(n, ts, seq), ts < us \/ (ts = us /\ seq <= uq)
    PROVE MadeUpTo(n, us, uq)
  BY DEF MadeUpTo

-----------------------------------------------------------------------------
(* Types, and the one goroutine that adds.                                  *)

\* The first state has the types, and nobody is adding.
LEMMA InitTypes == ManagerInit => Types /\ OneAdder
  <1> SUFFICES ASSUME ManagerInit PROVE Types /\ OneAdder
    OBVIOUS
  <1>1. Out = {}
    BY DEF ManagerInit, Out
  <1>2. count = -Cardinality(Out)
    BY <1>1, FS_EmptySet DEF ManagerInit
  <1>3. setBack \in BOOLEAN
    BY DEF ManagerInit
  <1>4. add \in [Sessions -> AddPC]
    BY DEF ManagerInit, AddPC
  <1> QED BY <1>2, <1>3, <1>4, ManagerAssumption DEF ManagerInit, Types, OneAdder, Under

\* The sessions that were removed are finitely many.
LEMMA OutFinite == IsFiniteSet(Out) /\ Cardinality(Out) \in Nat
                   /\ Cardinality(Out) <= Cardinality(Sessions)
                   /\ Cardinality(Sessions) \in Nat
  <1>1. Out \subseteq Sessions
    BY DEF Out
  <1> QED BY <1>1, ManagerAssumption, FS_Subset, FS_CardinalityType

\* Only Remove takes a session out: the steps of Add leave the count.
LEMMA StepOut ==
    ASSUME add \in [Sessions -> AddPC], NEW s \in Sessions, NEW pc,
           add[s] # "out", pc # "out", add' = [add EXCEPT ![s] = pc]
    PROVE Out' = Out
  BY DEF Out

\* Every step keeps the types.
LEMMA NextTypes ==
    ASSUME Types, ManagerNext PROVE Types'
  <1> USE DEF Types, AddPC
  <1>1. CASE SecondPass
    <2>1. Out' = Out
      BY <1>1 DEF SecondPass, Out
    <2>2. setBack' \in BOOLEAN
      BY <1>1 DEF SecondPass
    <2>3. second' \in 1..MaxSecond
      BY <1>1, ManagerAssumption DEF SecondPass
    <2> QED BY <1>1, <2>1, <2>2, <2>3 DEF SecondPass
  <1>2. ASSUME NEW k \in Keys, SetUuidCreateKey(k) PROVE Types'
    <2>1. Out' = Out
      BY <1>2 DEF SetUuidCreateKey, Out
    <2> QED BY <1>2, <2>1, ManagerAssumption DEF SetUuidCreateKey
  <1>3. ASSUME NEW s \in Sessions, AddBegin(s) PROVE Types'
    <2>1. Out' = Out
      BY <1>3, StepOut DEF AddBegin, AddGoto
    <2> QED BY <1>3, <2>1, ManagerAssumption DEF AddBegin, AddGoto
  <1>4. ASSUME NEW s \in Sessions, GenSeq(s) PROVE Types'
    <2>1. Out' = Out
      BY <1>4, StepOut DEF GenSeq, AddGoto
    <2>2. lastTimeStamp' \in Nat /\ sequence' \in Nat
      BY <1>4 DEF GenSeq
    <2>3. add' \in [Sessions -> AddPC]
      BY <1>4 DEF GenSeq, AddGoto
    <2> QED BY <1>4, <2>1, <2>2, <2>3 DEF GenSeq, AddGoto
  <1>5. ASSUME NEW s \in Sessions, GenUid(s) PROVE Types'
    <2>1. Out' = Out
      BY <1>5, StepOut DEF GenUid, AddGoto
    <2>2. Uid(lastTimeStamp, sequence, genKey) \in Nat
      BY UidType
    <2> QED BY <1>5, <2>1, <2>2 DEF GenUid, AddGoto
  <1>6. ASSUME NEW s \in Sessions, AddLoad(s) PROVE Types'
    <2>1. Out' = Out
      BY <1>6, StepOut DEF AddLoad, AddGoto
    <2> QED BY <1>6, <2>1 DEF AddLoad, AddGoto
  <1>7. ASSUME NEW s \in Sessions, AddStore(s) PROVE Types'
    <2>1. Out' = Out
      BY <1>7, StepOut DEF AddStore, AddGoto
    <2> QED BY <1>7, <2>1 DEF AddStore, AddGoto
  <1>8. ASSUME NEW s \in Sessions, RemoveSession(s) PROVE Types'
    <2>1. Out' = Out \cup {s} /\ s \notin Out
      BY <1>8 DEF RemoveSession, AddGoto, Out
    <2>2. Cardinality(Out') = Cardinality(Out) + 1
      BY <2>1, OutFinite, FS_AddElement
    <2>3. count' \in Int /\ count' = -Cardinality(Out')
      BY <1>8, <2>2, OutFinite DEF RemoveSession
    <2> QED BY <1>8, <2>3 DEF RemoveSession, AddGoto
  <1> QED BY <1>1, <1>2, <1>3, <1>4, <1>5, <1>6, <1>7, <1>8 DEF ManagerNext

\* One goroutine adds one session at a time.
LEMMA NextOneAdder ==
    ASSUME ~Concurrent, Types, OneAdder, ManagerNext PROVE OneAdder'
  <1> USE DEF Types, OneAdder, Under
  <1>1. CASE SecondPass
    BY <1>1 DEF SecondPass
  <1>2. ASSUME NEW k \in Keys, SetUuidCreateKey(k) PROVE OneAdder'
    BY <1>2 DEF SetUuidCreateKey
  <1>3. ASSUME NEW s \in Sessions, AddBegin(s) PROVE OneAdder'
    BY <1>3 DEF AddBegin, AddGoto
  <1>4. ASSUME NEW s \in Sessions, GenSeq(s) PROVE OneAdder'
    BY <1>4 DEF GenSeq, AddGoto
  <1>5. ASSUME NEW s \in Sessions, GenUid(s) PROVE OneAdder'
    BY <1>5 DEF GenUid, AddGoto
  <1>6. ASSUME NEW s \in Sessions, AddLoad(s) PROVE OneAdder'
    BY <1>6 DEF AddLoad, AddGoto
  <1>7. ASSUME NEW s \in Sessions, AddStore(s) PROVE OneAdder'
    BY <1>7 DEF AddStore, AddGoto
  <1>8. ASSUME NEW s \in Sessions, RemoveSession(s) PROVE OneAdder'
    BY <1>8 DEF RemoveSession, AddGoto
  <1> QED BY <1>1, <1>2, <1>3, <1>4, <1>5, <1>6, <1>7, <1>8 DEF ManagerNext

-----------------------------------------------------------------------------
(* GetSession finds the sessions.                                           *)

\* Every step of one adding goroutine keeps the map in agreement.
LEMMA NextMapAgrees ==
    ASSUME ~Concurrent, FindInv, ManagerNext PROVE MapAgrees'
  <1> USE DEF FindInv, Types, MapAgrees
  <1>1. CASE SecondPass
    BY <1>1 DEF SecondPass
  <1>2. ASSUME NEW k \in Keys, SetUuidCreateKey(k) PROVE MapAgrees'
    BY <1>2 DEF SetUuidCreateKey
  <1>3. ASSUME NEW s \in Sessions, AddBegin(s) PROVE MapAgrees'
    BY <1>3 DEF AddBegin, AddGoto
  <1>4. ASSUME NEW s \in Sessions, GenSeq(s) PROVE MapAgrees'
    <2>1. /\ UNCHANGED <<sessionMap, id>>
          /\ \A r \in Sessions \ {s} : add'[r] = add[r]
          /\ add[s] = "seq" /\ add'[s] \notin {"store", "in"}
      BY <1>4 DEF GenSeq, AddGoto
    <2> QED BY <2>1
  <1>5. ASSUME NEW s \in Sessions, GenUid(s) PROVE MapAgrees'
    <2>1. /\ UNCHANGED sessionMap
          /\ \A r \in Sessions \ {s} : add'[r] = add[r] /\ id'[r] = id[r]
          /\ add[s] = "uid" /\ add'[s] = "load"
      BY <1>5 DEF GenUid, AddGoto
    <2> QED BY <2>1
  <1>6. ASSUME NEW s \in Sessions, AddLoad(s) PROVE MapAgrees'
    <2>1. add'[s] = "store" => \A r \in Sessions : add[r] = "in" => id[r] # id[s]
      <3> SUFFICES ASSUME NEW r \in Sessions, add[r] = "in", id[r] = id[s],
                          add'[s] = "store"
                   PROVE FALSE
        OBVIOUS
      <3>1. <<id[r], r>> \in sessionMap
        OBVIOUS
      <3>2. id[s] \in MapIds
        BY <3>1 DEF MapIds
      <3> QED BY <1>6, <3>2 DEF AddLoad, AddGoto
    <2>2. /\ UNCHANGED <<sessionMap, id>>
          /\ \A r \in Sessions \ {s} : add'[r] = add[r]
          /\ add[s] = "load" /\ add'[s] \in {"store", "panicked"}
      BY <1>6 DEF AddLoad, AddGoto
    <2> QED BY <2>1, <2>2
  <1>7. ASSUME NEW s \in Sessions, AddStore(s) PROVE MapAgrees'
    <2>1. /\ UNCHANGED id
          /\ \A r \in Sessions \ {s} : add'[r] = add[r] /\ add[r] # "store"
          /\ add[s] = "store" /\ add'[s] = "in"
      BY <1>7 DEF AddStore, AddGoto, OneAdder, Under
    <2>2. sessionMap' = sessionMap \cup {<<id[s], s>>}
      BY <1>7 DEF AddStore
    <2> QED BY <2>1, <2>2
  <1>8. ASSUME NEW s \in Sessions, RemoveSession(s) PROVE MapAgrees'
    <2>1. /\ UNCHANGED id
          /\ \A r \in Sessions \ {s} : add'[r] = add[r]
          /\ add[s] = "in" /\ add'[s] = "out"
      BY <1>8 DEF RemoveSession, AddGoto
    <2>2. sessionMap' = {p \in sessionMap : p[1] # id[s]}
      BY <1>8 DEF RemoveSession
    <2> QED BY <2>1, <2>2
  <1> QED BY <1>1, <1>2, <1>3, <1>4, <1>5, <1>6, <1>7, <1>8 DEF ManagerNext

\* With one adding goroutine the map agrees with the sessions in every state.
THEOREM AlwaysFindInv == ~Concurrent => (ManagerSpec => []FindInv)
  <1> SUFFICES ASSUME ~Concurrent PROVE ManagerSpec => []FindInv
    OBVIOUS
  <1>1. ManagerInit => FindInv
    BY InitTypes DEF ManagerInit, FindInv, MapAgrees
  <1>2. FindInv /\ [ManagerNext]_managervars => FindInv'
    <2> SUFFICES ASSUME FindInv, [ManagerNext]_managervars PROVE FindInv'
      OBVIOUS
    <2>1. CASE ManagerNext
      BY <2>1, NextTypes, NextOneAdder, NextMapAgrees DEF FindInv
    <2>2. CASE UNCHANGED managervars
      BY <2>2 DEF managervars, FindInv, Types, Out, OneAdder, MapAgrees
    <2> QED BY <2>1, <2>2
  <1> QED BY <1>1, <1>2, PTL DEF ManagerSpec

\* GetSession finds every session between Add and Remove under its own id,
\* whatever the clock does and however often the key of the server changes.
THEOREM ManagerFindable == ~Concurrent => (ManagerSpec => []Findable)
  <1> SUFFICES ASSUME ~Concurrent PROVE ManagerSpec => []Findable
    OBVIOUS
  <1>1. FindInv => Findable
    BY OutFinite DEF FindInv, Types, MapAgrees, Findable, ManagerTypeOK
  <1> QED BY <1>1, AlwaysFindInv, PTL

-----------------------------------------------------------------------------
(* Ids are not given twice.                                                 *)

\* A session gets the next number of the second, or the first of a later one.
LEMMA GenSeqGrows ==
    ASSUME Types, OneAdder, Growing, NEW s \in Sessions, GenSeq(s)
    PROVE Growing'
  <1> USE DEF Types
  <1>0. /\ add[s] = "seq" /\ UNCHANGED <<id, now, second>>
        /\ \A r \in Sessions \ {s} : add'[r] = add[r] /\ add[r] \notin {"seq", "uid"}
        /\ now[s] \in 1..second /\ now[s] \in Nat /\ id[s] = 0
        /\ FirstId \/ lastTimeStamp <= now[s]
        /\ \A r \in Sessions : add[r] = "new" => id[r] = 0
        /\ \A r \in Sessions : id[r] # 0 => MadeUpTo(id[r], lastTimeStamp, sequence)
    BY DEF GenSeq, AddGoto, OneAdder, Under, Growing
  <1>1. CASE UNCHANGED <<lastTimeStamp, sequence>> /\ add'[s] = "load"
    BY <1>0, <1>1 DEF Growing, FirstId
  <1>2. CASE /\ lastTimeStamp = now[s] /\ sequence' = sequence + 1
             /\ UNCHANGED lastTimeStamp
             /\ add'[s] = IF sequence + 1 > SeqLimit THEN "load" ELSE "uid"
    <2>1. \A r \in Sessions : id[r] # 0 => MadeUpTo(id[r], lastTimeStamp, sequence')
      BY <1>0, <1>2, MadeUpToGrows
    <2>2. lastTimeStamp' <= second'
      BY <1>0, <1>2
    <2>3. add'[s] = "uid" => sequence' \in 1..SeqLimit /\ sequence' - 1 = sequence
      BY <1>2, ManagerAssumption
    <2> QED BY <1>0, <1>2, <2>1, <2>2, <2>3 DEF Growing
  <1>3. CASE /\ lastTimeStamp # now[s] /\ lastTimeStamp' = now[s] /\ sequence' = 1
             /\ add'[s] = "uid"
    <2>1. \A r \in Sessions : id[r] # 0 => MadeUpTo(id[r], now[s], 0)
      <3> SUFFICES ASSUME NEW r \in Sessions, id[r] # 0 PROVE MadeUpTo(id[r], now[s], 0)
        OBVIOUS
      <3>1. lastTimeStamp < now[s]
        BY <1>0, <1>3 DEF FirstId
      <3> QED BY <1>0, <3>1, MadeUpToGrows
    <2>2. \A r \in Sessions : id[r] # 0 => MadeUpTo(id[r], now[s], 1)
      BY <1>0, <2>1, MadeUpToGrows
    <2>3. lastTimeStamp' <= second' /\ sequence' \in 1..SeqLimit /\ sequence' - 1 = 0
      BY <1>0, <1>3, ManagerAssumption
    <2> QED BY <1>0, <1>3, <2>1, <2>2, <2>3 DEF Growing
  <1> QED BY <1>0, <1>1, <1>2, <1>3 DEF GenSeq, AddGoto

\* The id made of them is new.
LEMMA GenUidDistinct ==
    ASSUME Types, OneAdder, Growing, Distinct, NEW s \in Sessions, GenUid(s)
    PROVE Growing' /\ Distinct'
  <1> USE DEF Types
  <1> DEFINE n == Uid(lastTimeStamp, sequence, genKey)
  <1>0. /\ add[s] = "uid" /\ add'[s] = "load"
        /\ UNCHANGED <<lastTimeStamp, sequence, now, second>>
        /\ \A r \in Sessions \ {s} :
              add'[r] = add[r] /\ id'[r] = id[r] /\ add[r] \notin {"seq", "uid"}
        /\ id'[s] = n
    BY DEF GenUid, AddGoto, OneAdder, Under
  <1>1. /\ sequence \in 1..SeqLimit /\ ~FirstId /\ lastTimeStamp <= second
        /\ \A r \in Sessions : id[r] # 0 => MadeUpTo(id[r], lastTimeStamp, sequence - 1)
    BY <1>0 DEF Growing, FirstId
  <1>2. MadeUpTo(n, lastTimeStamp, sequence)
    BY <1>1 DEF MadeUpTo
  <1>3. \A r \in Sessions : id[r] # 0 => id[r] # n
    BY <1>1, UidFresh
  <1> HIDE DEF n
  <1>4. Growing'
    BY <1>0, <1>1, <1>2 DEF Growing
  <1>5. Distinct'
    BY <1>0, <1>3 DEF Distinct
  <1> QED BY <1>4, <1>5

\* Every step of one adding goroutine, on a clock that is not set back.
LEMMA NextGrowing ==
    ASSUME ~Concurrent, NameInv, ManagerNext, ~setBack'
    PROVE Growing' /\ Distinct'
  <1> USE DEF Types
  <1>0. ~setBack /\ Types /\ OneAdder /\ Growing /\ Distinct
    <2>1. ~setBack
      BY DEF ManagerNext, SecondPass, SetUuidCreateKey, AddBegin, GenSeq, GenUid, AddLoad, AddStore,
             RemoveSession, AddGoto, NameInv
    <2> QED BY <2>1 DEF NameInv
  <1>1. CASE SecondPass
    <2>1. second' = second + 1 /\ UNCHANGED <<lastTimeStamp, sequence, id, now, add>>
      BY <1>1 DEF SecondPass
    <2> QED BY <1>0, <2>1 DEF Growing, Distinct, FirstId
  <1>2. ASSUME NEW k \in Keys, SetUuidCreateKey(k) PROVE Growing' /\ Distinct'
    BY <1>0, <1>2 DEF SetUuidCreateKey, Growing, Distinct, FirstId
  <1>3. ASSUME NEW s \in Sessions, AddBegin(s) PROVE Growing' /\ Distinct'
    <2>1. /\ UNCHANGED <<lastTimeStamp, sequence, id, second>>
          /\ \A r \in Sessions \ {s} : add'[r] = add[r] /\ now'[r] = now[r]
          /\ add[s] = "new" /\ add'[s] = "seq" /\ now'[s] = second
      BY <1>0, <1>3 DEF AddBegin, AddGoto
    <2>2. FirstId => FirstId'
      BY <2>1 DEF FirstId
    <2>3. second \in 1..second
      BY <1>0, ManagerAssumption
    <2> QED BY <1>0, <2>1, <2>2, <2>3 DEF Growing, Distinct
  <1>4. ASSUME NEW s \in Sessions, GenSeq(s) PROVE Growing' /\ Distinct'
    <2>1. UNCHANGED id
      BY <1>4 DEF GenSeq
    <2> QED BY <1>0, <1>4, <2>1, GenSeqGrows DEF Distinct
  <1>5. ASSUME NEW s \in Sessions, GenUid(s) PROVE Growing' /\ Distinct'
    BY <1>0, <1>5, GenUidDistinct
  <1>6. ASSUME NEW s \in Sessions, AddLoad(s) \/ AddStore(s) \/ RemoveSession(s)
        PROVE Growing' /\ Distinct'
    <2>1. /\ UNCHANGED <<lastTimeStamp, sequence, id, second, now>>
          /\ \A r \in Sessions \ {s} : add'[r] = add[r]
          /\ add'[s] \notin {"new", "seq", "uid"}
      BY <1>0, <1>6 DEF AddLoad, AddStore, RemoveSession, AddGoto
    <2>2. FirstId => FirstId'
      BY <2>1 DEF FirstId
    <2> QED BY <1>0, <2>1, <2>2 DEF Growing, Distinct
  <1> QED BY <1>1, <1>2, <1>3, <1>4, <1>5, <1>6 DEF ManagerNext

\* With one adding goroutine seconds and numbers only grow while the clock is
\* not set back.
THEOREM AlwaysNameInv == ~Concurrent => (ManagerSpec => []NameInv)
  <1> SUFFICES ASSUME ~Concurrent PROVE ManagerSpec => []NameInv
    OBVIOUS
  <1>1. ManagerInit => NameInv
    BY InitTypes DEF ManagerInit, NameInv, Growing, Distinct, FirstId
  <1>2. NameInv /\ [ManagerNext]_managervars => NameInv'
    <2> SUFFICES ASSUME NameInv, [ManagerNext]_managervars PROVE NameInv'
      OBVIOUS
    <2>1. CASE ManagerNext
      BY <2>1, NextTypes, NextOneAdder, NextGrowing DEF NameInv
    <2>2. CASE UNCHANGED managervars
      BY <2>2 DEF managervars, NameInv, Types, Out, OneAdder, Growing, Distinct, FirstId
    <2> QED BY <2>1, <2>2
  <1> QED BY <1>1, <1>2, PTL DEF ManagerSpec

\* genSessionId never gives an id twice while the clock is not set back, in any
\* number of seconds and up to the limit of the sequence, whatever the key.
THEOREM ManagerNeverReused == ~Concurrent => (ManagerSpec => []NeverReused)
  <1> SUFFICES ASSUME ~Concurrent PROVE ManagerSpec => []NeverReused
    OBVIOUS
  <1>1. NameInv => NeverReused
    BY DEF NameInv, Distinct, NeverReused, Named
  <1> QED BY <1>1, AlwaysNameInv, PTL
=============================================================================
