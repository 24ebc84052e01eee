----------------------------- MODULE UtilProofs -----------------------------
(***************************************************************************)
(* Proofs about the modules of src/util that keep state (log files, timers *)
(* and the calendar, the timing wheel, the word filter) and about the SQL  *)
(* builder: for any size of the files, any durations and delays, any       *)
(* months, any number of slots, any words and sentences, and any calls.    *)
(***************************************************************************)
EXTENDS Sqler, WordFilter, LogFile, Timer, TimeWheel, FiniteSetTheorems, SequenceTheorems,
        WellFoundedInduction, TLAPS

-----------------------------------------------------------------------------
(* Facts about numbers and sets.                                            *)

\* A set of numbers that is not empty has a least one.
LEMMA LeastNumber ==
    ASSUME NEW T \in SUBSET Nat, T # {}
    PROVE  \E x \in T : \A y \in T : x <= y
<1> DEFINE R == OpToRel(<, Nat)
<1>1. \E x \in T : \A y \in T : ~(<<y, x>> \in R)
  BY NatLessThanWellFounded, WFMin
<1>2. \A x, y \in Nat : y < x => <<y, x>> \in R
  <2> TAKE x \in Nat, y \in Nat
  <2> HAVE y < x
  <2>1. QED
    BY DEF OpToRel
<1> HIDE DEF R
<1>3. PICK x \in T : \A y \in T : ~(<<y, x>> \in R)
  BY <1>1
<1>4. ASSUME NEW y \in T
      PROVE  x <= y
  <2>1. ~(y < x)
    BY <1>2, <1>3
  <2>2. QED
    BY <2>1
<1>5. QED
  BY <1>4

\* It is the one that Min takes.
LEMMA MinIsLeast ==
    ASSUME NEW T \in SUBSET Nat, T # {}
    PROVE  Min(T) \in T /\ \A y \in T : Min(T) <= y
  BY LeastNumber DEF Min

\* Induction over the numbers, for a set in the place of a predicate.
LEMMA Induction ==
    ASSUME NEW S, 0 \in S, \A n \in Nat : n \in S => n + 1 \in S
    PROVE  \A n \in Nat : n \in S
<1> SUFFICES ASSUME Nat \ S # {} PROVE FALSE
  OBVIOUS
<1>1. PICK x \in Nat \ S : \A y \in Nat \ S : x <= y
  <2>1. Nat \ S \in SUBSET Nat
    OBVIOUS
  <2>2. QED
    BY <2>1, LeastNumber
<1>2. x \in Nat /\ x # 0 /\ x \notin S
  BY <1>1
<1>3. x - 1 \in Nat /\ ~(x <= x - 1) /\ (x - 1) + 1 = x
  BY <1>2
<1>4. x - 1 \in S
  BY <1>1, <1>3
<1>5. QED
  BY <1>2, <1>3, <1>4

\* g is the beginning, up to n, of the function that h goes on with from a.
Begins(g, n, a, h) ==
    g[0] = a /\ \A k \in 1..n : g[k] = h[<<g[k - 1], k>>]

\* Two beginnings agree as far as both go.
LEMMA BeginningsAgree ==
    ASSUME NEW a, NEW h, NEW g1, NEW g2, NEW m1 \in Nat, NEW m2 \in Nat,
           Begins(g1, m1, a, h), Begins(g2, m2, a, h)
    PROVE  \A n \in Nat : n <= m1 /\ n <= m2 => g1[n] = g2[n]
<1> DEFINE S == {n \in Nat : n <= m1 /\ n <= m2 => g1[n] = g2[n]}
<1>1. 0 \in S
  BY DEF Begins
<1>2. ASSUME NEW n \in Nat, n \in S
      PROVE  n + 1 \in S
  <2> SUFFICES ASSUME n + 1 <= m1, n + 1 <= m2 PROVE g1[n + 1] = g2[n + 1]
    OBVIOUS
  <2>1. n + 1 \in 1..m1 /\ n + 1 \in 1..m2 /\ (n + 1) - 1 = n /\ n <= m1 /\ n <= m2
    OBVIOUS
  <2>2. g1[n] = g2[n]
    BY <1>2, <2>1
  <2>3. g1[n + 1] = h[<<g1[n], n + 1>>] /\ g2[n + 1] = h[<<g2[n], n + 1>>]
    BY <2>1 DEF Begins
  <2>4. QED
    BY <2>2, <2>3
<1> HIDE DEF S
<1>3. \A n \in Nat : n \in S
  BY <1>1, <1>2, Induction
<1>4. QED
  BY <1>3 DEF S

\* There is a beginning of every length.
LEMMA BeginningsExist ==
    ASSUME NEW S, NEW a \in S, NEW h \in [S \X Nat -> S]
    PROVE  \A n \in Nat : \E g \in [Nat -> S] : Begins(g, n, a, h)
<1> DEFINE T == {n \in Nat : \E g \in [Nat -> S] : Begins(g, n, a, h)}
<1>1. 0 \in T
  <2>1. [n \in Nat |-> a] \in [Nat -> S] /\ Begins([n \in Nat |-> a], 0, a, h)
    BY DEF Begins
  <2>2. QED
    BY <2>1
<1>2. ASSUME NEW n \in Nat, n \in T
      PROVE  n + 1 \in T
  <2>1. PICK g \in [Nat -> S] : Begins(g, n, a, h)
    BY <1>2
  <2> DEFINE g1 == [g EXCEPT ![n + 1] = h[<<g[n], n + 1>>]]
  <2>2. g1 \in [Nat -> S]
    OBVIOUS
  <2>3. g1[n + 1] = h[<<g[n], n + 1>>] /\ \A k \in 0..n : g1[k] = g[k]
    OBVIOUS
  <2> HIDE DEF g1
  <2>4. g1[0] = a
    BY <2>1, <2>3 DEF Begins
  <2>5. ASSUME NEW k \in 1..(n + 1)
        PROVE  g1[k] = h[<<g1[k - 1], k>>]
    <3>1. CASE k = n + 1
      BY <2>3, <3>1
    <3>2. CASE k # n + 1
      <4>1. k \in 1..n /\ k \in 0..n /\ k - 1 \in 0..n
        BY <3>2
      <4>2. QED
        BY <2>1, <2>3, <4>1 DEF Begins
    <3>3. QED
      BY <3>1, <3>2
  <2>6. QED
    BY <2>2, <2>4, <2>5 DEF Begins
<1> HIDE DEF T
<1>3. \A n \in Nat : n \in T
  BY <1>1, <1>2, Induction
<1>4. QED
  BY <1>3 DEF T

\* f is where the loop is that starts with a and whose turn k is h.
IsLoop(f, a, h) == f[0] = a /\ \A n \in Nat : f[n + 1] = h[<<f[n], n + 1>>]

\* Every such loop is a function on the numbers.
LEMMA RecursionExists ==
    ASSUME NEW S, NEW a \in S, NEW h \in [S \X Nat -> S]
    PROVE  \E f \in [Nat -> S] : IsLoop(f, a, h)
<1> DEFINE G(n) == CHOOSE g \in [Nat -> S] : Begins(g, n, a, h)
           f == [n \in Nat |-> G(n)[n]]
<1>1. \A n \in Nat : G(n) \in [Nat -> S] /\ Begins(G(n), n, a, h)
  BY BeginningsExist
<1>2. f \in [Nat -> S] /\ \A n \in Nat : f[n] = G(n)[n]
  BY <1>1
<1> HIDE DEF f, G
<1>3. f[0] = a
  BY <1>1, <1>2 DEF Begins
<1>4. ASSUME NEW n \in Nat
      PROVE  f[n + 1] = h[<<f[n], n + 1>>]
  <2>1. n + 1 \in Nat /\ n + 1 \in 1..(n + 1) /\ (n + 1) - 1 = n /\ n <= n /\ n <= n + 1
    OBVIOUS
  <2>2. G(n + 1)[n + 1] = h[<<G(n + 1)[n], n + 1>>]
    BY <1>1, <2>1 DEF Begins
  <2>3. G(n + 1)[n] = G(n)[n]
    BY <1>1, <2>1, BeginningsAgree
  <2>4. QED
    BY <1>2, <2>1, <2>2, <2>3
<1>5. QED
  BY <1>2, <1>3, <1>4 DEF IsLoop

-----------------------------------------------------------------------------
(* The log files.                                                           *)

Places == {"idle", "unlocked", "open", "closed"}

LogTypes ==
    /\ day \in 0..MaxDay /\ lines \in 0..MaxLines /\ lost \in Nat /\ misses \in Nat
    /\ fileName \in Files /\ size \in [Files -> Nat] /\ at \in [Writers -> Places]
    /\ locked \in BOOLEAN

\* No index was reached that there are not as many lines for, so one is left
\* for the next line.
Reached ==
    /\ fileName[2] <= lines
    /\ \A d \in 0..MaxDay, i \in 0..MaxLines : size[<<d, i>>] > 0 => i <= lines

\* The goroutines whose line goes to the file that is open when they get there.
Heading == {w \in Writers : at[w] = "open" \/ (at[w] = "unlocked" /\ ~locked)}

\* What a file may hold after the sizes were not to be had m times.
Bound(m) == LogMaxSize - 1 + Cardinality(Writers) * (1 + m)

\* What is on the way to a file with an index is still within its bound.
Room ==
    fileName[2] >= 1 => size[fileName] + Cardinality(Heading) <= Bound(misses)

LogInv == LogTypes /\ Reached /\ Room /\ SizeBounded

\* The limit is positive, whatever InitLog is called with.
LEMMA LimitPositive ==
    LogMaxSize \in Nat /\ LogMaxSize > 0
  BY LogAssumption DEF LogMaxSize

\* Any set of the goroutines is finite and no larger than all of them.
LEMMA WritersCounted ==
    ASSUME NEW S \in SUBSET Writers
    PROVE  /\ IsFiniteSet(S) /\ Cardinality(S) \in Nat /\ Cardinality(Writers) \in Nat
           /\ Cardinality(S) <= Cardinality(Writers)
  BY LogAssumption, FS_Subset, FS_CardinalityType

\* The bound leaves room for a line of every goroutine, and grows by as much.
LEMMA BoundGrows ==
    ASSUME NEW m \in Nat
    PROVE  /\ Bound(m) \in Nat /\ Bound(m) >= LogMaxSize - 1 + Cardinality(Writers)
           /\ Bound(m + 1) = Bound(m) + Cardinality(Writers)
<1>1. Cardinality(Writers) \in Nat
  BY WritersCounted
<1>2. ASSUME NEW c \in Nat
      PROVE  c * (1 + m) \in Nat /\ c * (1 + m) >= c /\ c * (1 + (m + 1)) = c * (1 + m) + c
  OBVIOUS
<1>3. QED
  BY <1>1, <1>2, LimitPositive DEF Bound

\* A file with room is found without passing over one that has never been used.
LEMMA RoomFound ==
    ASSUME LogInv, lines < MaxLines, NEW d \in 0..MaxDay, NEW j \in 0..(lines + 1)
    PROVE  /\ FirstWithRoom(d, j) \in j..(lines + 1)
           /\ size[<<d, FirstWithRoom(d, j)>>] < LogMaxSize
<1> USE LogAssumption DEF LogInv, LogTypes
<1> DEFINE S == {i \in j..MaxLines : size[<<d, i>>] < LogMaxSize}
<1>1. lines + 1 \in S
  BY LimitPositive DEF Reached, Files
<1>2. S \in SUBSET Nat /\ S # {}
  <2>1. \A i \in j..MaxLines : i \in Nat
    OBVIOUS
  <2>2. QED
    BY <1>1, <2>1
<1>3. FirstWithRoom(d, j) = Min(S)
  BY DEF FirstWithRoom
<1>4. Min(S) \in S /\ Min(S) <= lines + 1
  <2> HIDE DEF S
  <2>1. QED
    BY <1>1, <1>2, MinIsLeast
<1>5. QED
  BY <1>3, <1>4

\* The files WriteLog comes to, and the one it chooses, which has room if it
\* has an index.
LEMMA ChosenHasRoom ==
    ASSUME LogInv, lines < MaxLines
    PROVE  /\ \A f \in Chosen \cup Tried : f \in Files /\ f[2] <= lines + 1
           /\ \A f \in Chosen : f[2] >= 1 => size[f] < LogMaxSize
<1> USE LogAssumption DEF LogInv, LogTypes
<1>1. CASE fileName # <<day, 0>>
  BY <1>1 DEF Chosen, Tried, Files
<1>2. CASE fileName = <<day, 0>>
  <2> DEFINE first == FirstWithRoom(day, 0)
  <2>1. first \in 0..(lines + 1) /\ size[<<day, first>>] < LogMaxSize
    BY RoomFound
  <2>2. ASSUME day < MaxDay, NEW i \in 0..(lines + 1)
        PROVE  /\ FirstWithRoom(day + 1, i) \in 0..(lines + 1)
               /\ size[<<day + 1, FirstWithRoom(day + 1, i)>>] < LogMaxSize
    BY <2>2, RoomFound
  <2> HIDE DEF first
  <2>3. Chosen = {<<day, first>>} \cup
             {<<day + 1, FirstWithRoom(day + 1, i)>> : i \in IF day < MaxDay THEN 1..first ELSE {}}
    BY <1>2 DEF Chosen, first
  <2>4. Tried = {<<day, i>> : i \in 0..first} \cup
             {<<day + 1, i>> : i \in IF day < MaxDay THEN 1..FirstWithRoom(day + 1, first) ELSE {}}
    BY <1>2 DEF Tried, first
  <2>5. ASSUME NEW f \in Chosen
        PROVE  f \in Files /\ f[2] <= lines + 1 /\ size[f] < LogMaxSize
    BY <2>1, <2>2, <2>3 DEF Files
  <2>6. ASSUME NEW f \in Tried
        PROVE  f \in Files /\ f[2] <= lines + 1
    <3>1. CASE \E i \in 0..first : f = <<day, i>>
      BY <2>1, <3>1 DEF Files
    <3>2. CASE day < MaxDay /\ \E i \in 1..FirstWithRoom(day + 1, first) : f = <<day + 1, i>>
      <4>1. FirstWithRoom(day + 1, first) \in 0..(lines + 1)
        BY <2>1, <2>2, <3>2
      <4>2. QED
        BY <3>2, <4>1 DEF Files
    <3>3. QED
      BY <2>4, <3>1, <3>2
  <2>7. QED
    BY <2>5, <2>6
<1>3. QED
  BY <1>1, <1>2

\* What Open keeps, whatever file it opens.
LEMMA OpenKeepsTypes ==
    ASSUME LogInv, NEW w \in Writers, NEW level \in Levels, NEW f \in Chosen \cup Tried,
           NEW next \in {"idle", "unlocked"}, Open(w, level, f, next),
           locked' \in BOOLEAN, misses' \in {misses, misses + 1}
    PROVE  LogTypes' /\ Reached' /\ size' = size /\ fileName' = f /\ f \in Files
<1> USE LogAssumption
<1>1. f \in Files /\ f[2] <= lines + 1
  BY ChosenHasRoom DEF Open
<1>2. /\ lines < MaxLines /\ lines' = lines + 1 /\ fileName' = f /\ day' = f[1]
      /\ UNCHANGED <<size, lost>>
  BY DEF Open
<1>3. at' \in [Writers -> Places]
  BY DEF Open, LogInv, LogTypes, Places
<1>4. LogTypes'
  BY <1>1, <1>2, <1>3 DEF LogInv, LogTypes, Files
<1>5. Reached'
  BY <1>1, <1>2 DEF LogInv, LogTypes, Reached, Files
<1>6. QED
  BY <1>1, <1>2, <1>4, <1>5

\* WriteLog opens a file with room for the lines of all goroutines.
LEMMA WriteLogKeepsInv ==
    ASSUME LogInv, NEW w \in Writers, NEW level \in Levels, WriteLog(w, level)
    PROVE  LogInv'
<1>1. PICK f \in Chosen : Open(w, level, f, "unlocked")
  BY DEF WriteLog
<1>2. locked' = locked /\ misses' = misses /\ misses \in Nat /\ locked \in BOOLEAN
  BY DEF WriteLog, LogInv, LogTypes
<1>3. LogTypes' /\ Reached' /\ size' = size /\ fileName' = f /\ f \in Files
  BY <1>1, <1>2, OpenKeepsTypes
<1>4. f[2] >= 1 => size[f] < LogMaxSize
  BY <1>1, ChosenHasRoom DEF Open
<1>5. Room'
  <2> SUFFICES ASSUME f[2] >= 1
               PROVE  size[f] + Cardinality(Heading') <= Bound(misses)
    BY <1>2, <1>3 DEF Room, Bound, LogMaxSize
  <2>1. Heading' \in SUBSET Writers
    BY DEF Heading
  <2>2. size[f] \in Nat /\ size[f] <= LogMaxSize - 1
    BY <1>3, <1>4, LimitPositive DEF LogInv, LogTypes
  <2> HIDE DEF Heading
  <2>3. QED
    BY <1>2, <2>1, <2>2, WritersCounted, LimitPositive, BoundGrows
<1>6. SizeBounded'
  BY <1>2, <1>3 DEF LogInv, SizeBounded, LogMaxSize
<1>7. QED
  BY <1>3, <1>5, <1>6 DEF LogInv

\* After a panic of newLogger no line is heading for a file.
LEMMA NewLoggerPanicsKeepsInv ==
    ASSUME LogInv, NEW w \in Writers, NEW level \in Levels, NewLoggerPanics(w, level)
    PROVE  LogInv'
<1>1. PICK f \in Tried \ {fileName} : Open(w, level, f, "idle")
  BY DEF NewLoggerPanics
<1>2. locked' = TRUE /\ misses' = misses /\ misses \in Nat
  BY DEF NewLoggerPanics, LogInv, LogTypes
<1>3. LogTypes' /\ Reached' /\ size' = size /\ fileName' = f /\ f \in Files
  BY <1>1, <1>2, OpenKeepsTypes
<1>4. SizeBounded'
  BY <1>2, <1>3 DEF LogInv, SizeBounded, LogMaxSize
<1>5. Room'
  <2>1. Heading' = {}
    BY <1>1, <1>2 DEF Heading, Open
  <2>2. f[2] >= 1 => size[f] <= Bound(misses)
    BY <1>3 DEF LogInv, SizeBounded, Bound, Files
  <2>3. size[f] \in Nat /\ Cardinality({}) = 0
    BY <1>3, FS_EmptySet DEF LogInv, LogTypes
  <2> HIDE DEF Heading
  <2>4. size'[fileName'] + Cardinality(Heading') = size[f] /\ Bound(misses)' = Bound(misses)
    BY <1>2, <1>3, <2>1, <2>3 DEF Bound, LogMaxSize
  <2>5. QED
    BY <1>3, <2>2, <2>4 DEF Room
<1>6. QED
  BY <1>3, <1>4, <1>5 DEF LogInv

\* A size that is not to be had leaves the file within the bound it raises.
LEMMA StatFailsKeepsInv ==
    ASSUME LogInv, NEW w \in Writers, NEW level \in Levels, StatFails(w, level)
    PROVE  LogInv'
<1>1. PICK f \in Tried : Open(w, level, f, "unlocked")
  BY DEF StatFails
<1>2. locked' = locked /\ locked \in BOOLEAN /\ misses' = misses + 1 /\ misses \in Nat
  BY DEF StatFails, LogInv, LogTypes
<1>3. LogTypes' /\ Reached' /\ size' = size /\ fileName' = f /\ f \in Files
  BY <1>1, <1>2, OpenKeepsTypes
<1>4. /\ Bound(misses) \in Nat /\ Cardinality(Writers) \in Nat
      /\ Bound(misses + 1) = Bound(misses) + Cardinality(Writers)
  BY <1>2, BoundGrows, WritersCounted
<1>5. \A d \in 0..MaxDay, i \in 1..MaxLines : size[<<d, i>>] \in Nat /\ size[<<d, i>>] <= Bound(misses)
  <2> TAKE d \in 0..MaxDay, i \in 1..MaxLines
  <2>1. <<d, i>> \in Files /\ size[<<d, i>>] <= LogMaxSize - 1 + Cardinality(Writers) * (1 + misses)
    BY LogAssumption DEF LogInv, SizeBounded, Files
  <2>2. QED
    BY <2>1 DEF LogInv, LogTypes, Bound
<1>6. SizeBounded'
  <2>1. ASSUME NEW d \in 0..MaxDay, NEW i \in 1..MaxLines
        PROVE  size[<<d, i>>] <= Bound(misses + 1)
    <3>1. size[<<d, i>>] \in Nat /\ size[<<d, i>>] <= Bound(misses)
      BY <1>5
    <3>2. QED
      BY <1>4, <3>1
  <2>2. QED
    BY <1>2, <1>3, <2>1 DEF SizeBounded, Bound, LogMaxSize
<1>7. Room'
  <2> SUFFICES ASSUME f[2] >= 1
               PROVE  size[f] + Cardinality(Heading') <= Bound(misses + 1)
    BY <1>2, <1>3 DEF Room, Bound, LogMaxSize
  <2>1. Heading' \in SUBSET Writers
    BY DEF Heading
  <2>2. size[f] \in Nat /\ size[f] <= Bound(misses)
    BY <1>3, <1>5 DEF Files
  <2> HIDE DEF Heading
  <2>3. QED
    BY <1>4, <2>1, <2>2, WritersCounted
<1>8. QED
  BY <1>3, <1>6, <1>7 DEF LogInv

\* Printf fills the file that is open and takes the line off what is heading
\* for it.
LEMMA PrintfKeepsInv ==
    ASSUME LogInv, NEW w \in Writers, Printf(w)
    PROVE  LogInv'
<1> USE LogAssumption
<1>1. /\ at[w] \in {"open", "closed"} /\ at' = [at EXCEPT ![w] = "idle"]
      /\ UNCHANGED <<day, lines, fileName, locked, misses>>
  BY DEF Printf
<1>2. \/ at[w] = "open" /\ size' = [size EXCEPT ![fileName] = @ + 1] /\ lost' = lost
      \/ at[w] = "closed" /\ size' = size /\ lost' = lost + 1
  BY DEF Printf
<1>3. LogTypes'
  BY <1>1, <1>2 DEF LogInv, LogTypes, Places
<1>4. Reached'
  BY <1>1, <1>2 DEF LogInv, LogTypes, Reached, Files
<1>5. /\ Heading \in SUBSET Writers
      /\ at[w] = "open" => w \in Heading /\ Heading' = Heading \ {w}
      /\ at[w] = "closed" => Heading' = Heading
  BY <1>1 DEF LogInv, LogTypes, Heading, Places
<1>6. /\ Cardinality(Heading) \in Nat /\ Cardinality(Writers) \in Nat
      /\ Cardinality(Heading) <= Cardinality(Writers)
      /\ at[w] = "open" => Cardinality(Heading) >= 1
                           /\ Cardinality(Heading') = Cardinality(Heading) - 1
      /\ at[w] = "closed" => Cardinality(Heading') = Cardinality(Heading)
  <2>1. IsFiniteSet(Heading) /\ Cardinality(Heading) \in Nat /\ Cardinality(Writers) \in Nat
        /\ Cardinality(Heading) <= Cardinality(Writers)
    BY <1>5, WritersCounted
  <2>2. at[w] = "open" => Cardinality(Heading \ {w}) = Cardinality(Heading) - 1
    BY <1>5, <2>1, FS_RemoveElement
  <2>3. at[w] = "open" => IsFiniteSet(Heading \ {w}) /\ Cardinality(Heading \ {w}) \in Nat
    BY <2>1, FS_RemoveElement, FS_CardinalityType
  <2>4. QED
    BY <1>5, <2>1, <2>2, <2>3
<1>7. Room'
  <2>1. Bound(misses) \in Nat /\ Bound(misses)' = Bound(misses)
    BY <1>1, BoundGrows DEF LogInv, LogTypes, Bound, LogMaxSize
  <2> HIDE DEF Heading
  <2>2. QED
    BY <1>1, <1>2, <1>6, <2>1 DEF LogInv, LogTypes, Room
<1>8. SizeBounded'
  <2> SUFFICES ASSUME NEW d \in 0..MaxDay, NEW i \in 1..MaxLines
               PROVE  size'[<<d, i>>] <= Bound(misses)
    BY <1>1 DEF SizeBounded, LogMaxSize, Bound
  <2>1. <<d, i>> \in Files /\ size[<<d, i>>] <= Bound(misses)
    BY DEF LogInv, SizeBounded, Files, Bound
  <2>2. CASE at[w] = "open" /\ fileName = <<d, i>>
    <3>1. size'[<<d, i>>] = size[<<d, i>>] + 1 /\ fileName[2] >= 1
      BY <1>2, <2>1, <2>2 DEF LogInv, LogTypes
    <3>2. size[<<d, i>>] + Cardinality(Heading) <= Bound(misses)
      BY <2>2, <3>1 DEF LogInv, Room
    <3>3. QED
      BY <1>6, <2>1, <2>2, <3>1, <3>2, LimitPositive, BoundGrows DEF LogInv, LogTypes
  <2>3. CASE ~(at[w] = "open" /\ fileName = <<d, i>>)
    <3>1. size'[<<d, i>>] = size[<<d, i>>]
      BY <1>2, <2>1, <2>3 DEF LogInv, LogTypes
    <3>2. QED
      BY <2>1, <3>1
  <2>4. QED
    BY <2>2, <2>3
<1>9. QED
  BY <1>3, <1>4, <1>7, <1>8 DEF LogInv

\* The steps that neither choose nor fill a file.
LEMMA OtherLogSteps ==
    ASSUME LogInv, NextDay \/ InitLog \/ (\E w \in Writers : Load(w)) \/ UNCHANGED logfile
    PROVE  LogInv'
<1> USE LogAssumption DEF LogInv
<1>1. CASE NextDay
  BY <1>1 DEF NextDay, LogTypes, Reached, Room, SizeBounded, Heading, LogMaxSize, Bound
<1>2. CASE InitLog
  <2>1. LogTypes' /\ Reached'
    <3>1. fileName' \in Files /\ fileName'[2] <= lines /\ lines' = lines
      BY <1>2 DEF InitLog, LogTypes, Files
    <3>2. at' \in [Writers -> Places] /\ locked' \in BOOLEAN
      BY <1>2 DEF InitLog, Places
    <3>3. QED
      BY <1>2, <3>1, <3>2 DEF InitLog, LogTypes, Reached
  <2>2. fileName' = <<day, 0>> /\ size' = size /\ misses' = misses
    BY <1>2 DEF InitLog
  <2>3. fileName'[2] = 0
    BY <2>2
  <2>4. Room'
    BY <2>3 DEF Room
  <2>5. SizeBounded'
    BY <2>2 DEF SizeBounded, LogMaxSize
  <2>6. QED
    BY <2>1, <2>4, <2>5
<1>3. ASSUME NEW w \in Writers, Load(w)
      PROVE  LogInv'
  <2>1. /\ at[w] = "unlocked" /\ at' = [at EXCEPT ![w] = IF locked THEN "closed" ELSE "open"]
        /\ UNCHANGED <<day, lines, fileName, size, locked, lost, misses>>
    BY <1>3 DEF Load
  <2>2. LogTypes' /\ Reached' /\ SizeBounded'
    BY <2>1 DEF LogTypes, Places, Reached, SizeBounded, LogMaxSize
  <2>3. Heading' = Heading
    BY <2>1 DEF LogTypes, Heading
  <2>4. QED
    BY <2>1, <2>2, <2>3 DEF Room, LogMaxSize, Bound
<1>4. CASE UNCHANGED logfile
  BY <1>4 DEF logfile, LogTypes, Reached, Room, SizeBounded, Heading, LogMaxSize, Bound
<1>5. QED
  BY <1>1, <1>2, <1>3, <1>4

\* LogInv holds however goroutines, days and restarts interleave.
LEMMA AlwaysLogInv ==
    LogSpec => []LogInv
<1>1. LogInit => LogInv
  <2> SUFFICES ASSUME LogInit
               PROVE  LogInv
    OBVIOUS
  <2>1. LogTypes /\ Reached
    <3>1. /\ day \in 0..MaxDay /\ lines \in 0..MaxLines /\ lost \in Nat /\ misses \in Nat
          /\ fileName \in Files /\ fileName[2] <= lines
      BY LogAssumption DEF LogInit, Files
    <3>2. at \in [Writers -> Places]
      BY DEF LogInit, Places
    <3>3. size \in [Files -> Nat] /\ \A f \in Files : size[f] = 0
      BY DEF LogInit
    <3>4. locked \in BOOLEAN
      BY DEF LogInit
    <3>5. QED
      BY <3>1, <3>2, <3>3, <3>4 DEF LogTypes, Reached, Files
  <2>2. Room
    BY DEF LogInit, Room
  <2>3. SizeBounded
    <3>1. Bound(0) \in Nat
      BY BoundGrows
    <3>2. ASSUME NEW d \in 0..MaxDay, NEW i \in 1..MaxLines
          PROVE  size[<<d, i>>] = 0
      BY LogAssumption DEF LogInit, Files
    <3>3. misses = 0
      BY DEF LogInit
    <3>4. Bound(0) = LogMaxSize - 1 + Cardinality(Writers) * (1 + misses)
      BY <3>3 DEF Bound
    <3>5. 0 <= LogMaxSize - 1 + Cardinality(Writers) * (1 + misses)
      BY <3>1, <3>4
    <3>6. \A d \in 0..MaxDay, i \in 1..MaxLines :
            size[<<d, i>>] <= LogMaxSize - 1 + Cardinality(Writers) * (1 + misses)
      BY <3>2, <3>5
    <3>7. QED
      BY <3>6 DEF SizeBounded
  <2>4. QED
    BY <2>1, <2>2, <2>3 DEF LogInv
<1>2. LogInv /\ [LogNext]_logfile => LogInv'
  BY WriteLogKeepsInv, NewLoggerPanicsKeepsInv, StatFailsKeepsInv, PrintfKeepsInv, OtherLogSteps
     DEF LogNext
<1>3. QED
  BY <1>1, <1>2, PTL DEF LogSpec

\* A file with an index exceeds the limit by at most one line of every other
\* goroutine, and one more of each for every time Stat failed, for any number of
\* goroutines, lines and days and any limit, though none of them holds logMu
\* while it writes.
THEOREM LogSizeBounded ==
    LogSpec => []SizeBounded
  BY AlwaysLogInv, PTL DEF LogInv

-----------------------------------------------------------------------------
(* The timers.                                                              *)

TimerTypes ==
    /\ tm \in [once : BOOLEAN, ts : Nat, duration : Nat, cancel : BOOLEAN,
               suspend : BOOLEAN, resetTime : Nat, fireNow : BOOLEAN]
    /\ ms \in Nat /\ Epoch <= ms /\ ms <= Epoch + MaxMs
    /\ started \in Nat

\* The sum of the clock and the period of a timer does not wrap around.
Fits == Epoch + MaxMs + tm.duration < W

\* Its time stamp is when its period began, until it is cancelled.
Stamped == ~tm.cancel => tm.ts = started /\ Epoch <= tm.ts /\ tm.ts <= ms

TimerInv == TimerTypes /\ Fits /\ Stamped /\ (tm.once => ~tm.fireNow)

\* What Suspend keeps is a number.
LEMMA RestIsNumber ==
    ASSUME TimerInv
    PROVE  RestOf(tm, ms) \in Nat
<1> USE TimerAssumption DEF TimerInv, TimerTypes, Fits
<1>1. ASSUME NEW a \in Nat, NEW b \in Int
      PROVE  Minus(a, b) \in Nat
  BY <1>1 DEF Minus
<1>2. Minus(tm.duration, tm.ts) \in Nat
  BY <1>1
<1>3. QED
  BY <1>2 DEF RestOf

\* A period is over when more than its length has passed.
LEMMA DueWhen ==
    ASSUME TimerInv, ~tm.cancel
    PROVE  Due(tm, tm.duration) <=> ms - started > tm.duration
<1> USE TimerAssumption DEF TimerInv, TimerTypes
<1>1. tm.ts = started /\ Epoch <= tm.ts /\ tm.ts <= ms
  BY DEF Stamped
<1>2. tm.ts + tm.duration < W
  BY <1>1 DEF Fits
<1>3. (tm.ts + tm.duration) % W = tm.ts + tm.duration
  BY <1>2
<1>4. QED
  BY <1>1, <1>3 DEF Due

\* The steps that do not poll the timer keep the invariant.
LEMMA CallsKeepTimerInv ==
    ASSUME TimerInv,
           \/ MsPass \/ Cancel \/ Suspend \/ Resume
           \/ \E d \in Durations, b \in BOOLEAN : NewTimer(b, d) \/ TimerReset(d, b)
    PROVE  TimerInv' /\ ~polled'
<1> USE TimerAssumption DEF TimerInv, TimerTypes
<1>1. CASE MsPass
  BY <1>1 DEF MsPass, Fits, Stamped
<1>2. CASE Cancel
  <2>1. TimerTypes' /\ ~polled'
    BY <1>2 DEF Cancel, Called
  <2>2. tm'.cancel /\ tm'.duration = 0 /\ tm'.once = tm.once /\ tm'.fireNow = tm.fireNow
    BY <1>2 DEF Cancel, Called
  <2>3. QED
    BY <2>1, <2>2 DEF Fits, Stamped
<1>3. CASE Suspend
  <2>1. RestOf(tm, ms) \in Nat
    BY RestIsNumber
  <2>2. QED
    BY <1>3, <2>1 DEF Suspend, Called, Fits, Stamped
<1>4. CASE Resume
  <2>1. TimerTypes' /\ ~polled'
    BY <1>4 DEF Resume, Called
  <2>2. /\ tm'.ts = ms /\ started' = ms /\ ms' = ms /\ tm'.duration = tm.duration
        /\ tm'.once = tm.once /\ tm'.fireNow = tm.fireNow
    BY <1>4 DEF Resume, Called
  <2>3. QED
    BY <2>1, <2>2 DEF Fits, Stamped
<1>5. ASSUME NEW d \in Durations, NEW b \in BOOLEAN, NewTimer(b, d)
      PROVE  TimerInv' /\ ~polled'
  BY <1>5 DEF NewTimer, Fresh, Called, Fits, Stamped
<1>6. ASSUME NEW d \in Durations, NEW b \in BOOLEAN, TimerReset(d, b)
      PROVE  TimerInv' /\ ~polled'
  <2>1. TimerTypes' /\ ~polled'
    <3>1. d \in Nat /\ (IF tm.once THEN tm.fireNow ELSE b) \in BOOLEAN
      BY <1>6
    <3>2. QED
      BY <1>6, <3>1 DEF TimerReset, WithReset, Called
  <2>2. /\ tm'.ts = ms /\ started' = ms /\ ms' = ms /\ tm'.duration = d
        /\ tm'.once = tm.once /\ (tm.once => tm'.fireNow = tm.fireNow)
    BY <1>6 DEF TimerReset, WithReset, Called
  <2>3. QED
    BY <2>1, <2>2 DEF Fits, Stamped
<1>7. QED
  BY <1>1, <1>2, <1>3, <1>4, <1>5, <1>6

\* IsExpired, case by case: what it returns and what it makes of the timer.
LEMMA IsExpiredCases ==
    ASSUME TimerInv, IsExpired
    PROVE  /\ UNCHANGED ms /\ polled'
           /\ started' = IF tm'.ts # tm.ts THEN ms ELSE started
           /\ tm' \in {tm, [tm EXCEPT !.resetTime = 0],
                       [tm EXCEPT !.ts = ms, !.fireNow = TRUE, !.resetTime = 0],
                       [tm EXCEPT !.ts = ms, !.fireNow = FALSE],
                       [tm EXCEPT !.fireNow = FALSE]}
           /\ tm.once => ~tm'.fireNow
           /\ tm.resetTime = 0 =>
                (expired' <=> /\ ~tm.cancel /\ ~tm.suspend
                              /\ tm.fireNow \/ ms - started > tm.duration)
<1> USE DEF TimerInv, TimerTypes
<1>1. CASE tm.cancel \/ tm.suspend
  BY <1>1 DEF IsExpired, Polled
<1>2. CASE ~tm.cancel /\ ~tm.suspend /\ tm.resetTime > 0
  <2>1. ~tm.once => [WithReset(tm.duration, TRUE) EXCEPT !.resetTime = 0]
                        = [tm EXCEPT !.ts = ms, !.fireNow = TRUE, !.resetTime = 0]
    BY <1>2 DEF WithReset
  <2>2. \/ Polled(tm, FALSE)
        \/ Polled([tm EXCEPT !.resetTime = 0], TRUE)
        \/ ~tm.once /\ Polled([tm EXCEPT !.ts = ms, !.fireNow = TRUE, !.resetTime = 0], TRUE)
    BY <1>2, <2>1 DEF IsExpired
  <2>3. CASE Polled(tm, FALSE)
    BY <1>2, <2>3 DEF Polled
  <2>4. CASE Polled([tm EXCEPT !.resetTime = 0], TRUE)
    BY <1>2, <2>4 DEF Polled
  <2>5. CASE ~tm.once /\ Polled([tm EXCEPT !.ts = ms, !.fireNow = TRUE, !.resetTime = 0], TRUE)
    BY <1>2, <2>5 DEF Polled
  <2>6. QED
    BY <2>2, <2>3, <2>4, <2>5
<1>3. CASE ~tm.cancel /\ ~tm.suspend /\ tm.resetTime = 0
  <2>1. Due(tm, tm.duration) <=> ms - started > tm.duration
    BY <1>3, DueWhen
  <2>2. CASE tm.once
    BY <1>3, <2>1, <2>2 DEF IsExpired, Polled
  <2>3. CASE ~tm.once
    <3>1. /\ tm' = [tm EXCEPT !.ts = IF Due(tm, tm.duration) THEN ms ELSE @, !.fireNow = FALSE]
          /\ expired' = (Due(tm, tm.duration) \/ tm.fireNow)
          /\ UNCHANGED ms /\ polled'
          /\ started' = IF tm'.ts # tm.ts THEN ms ELSE started
      <4>1. Polled([tm EXCEPT !.ts = IF Due(tm, tm.duration) THEN ms ELSE @, !.fireNow = FALSE],
                   Due(tm, tm.duration) \/ tm.fireNow)
        <5>1. ~(tm.resetTime > 0) /\ ~(tm.cancel \/ tm.suspend)
          BY <1>3
        <5>2. QED
          BY <2>3, <5>1, Zenon DEF IsExpired
      <4>2. QED
        BY <4>1 DEF Polled
    <3>2. tm' \in {[tm EXCEPT !.ts = ms, !.fireNow = FALSE], [tm EXCEPT !.fireNow = FALSE]}
      BY <3>1
    <3>3. QED
      BY <1>3, <2>1, <2>3, <3>1, <3>2
  <2>4. QED
    BY <2>2, <2>3
<1>4. QED
  BY <1>1, <1>2, <1>3

\* A poll keeps the invariant.
LEMMA PollKeepsTimerInv ==
    ASSUME TimerInv, IsExpired
    PROVE  TimerInv'
<1> USE TimerAssumption DEF TimerInv, TimerTypes
<1>1. ms' = ms /\ started' = IF tm'.ts # tm.ts THEN ms ELSE started
  BY IsExpiredCases
<1>2. tm' \in {tm, [tm EXCEPT !.resetTime = 0],
               [tm EXCEPT !.ts = ms, !.fireNow = TRUE, !.resetTime = 0],
               [tm EXCEPT !.ts = ms, !.fireNow = FALSE],
               [tm EXCEPT !.fireNow = FALSE]}
  BY IsExpiredCases
<1>3. tm' \in [once : BOOLEAN, ts : Nat, duration : Nat, cancel : BOOLEAN,
               suspend : BOOLEAN, resetTime : Nat, fireNow : BOOLEAN]
  <2>1. CASE tm' = tm \/ tm' = [tm EXCEPT !.resetTime = 0]
    BY <2>1
  <2>2. CASE tm' = [tm EXCEPT !.ts = ms, !.fireNow = TRUE, !.resetTime = 0]
    BY <2>2
  <2>3. CASE \/ tm' = [tm EXCEPT !.ts = ms, !.fireNow = FALSE]
             \/ tm' = [tm EXCEPT !.fireNow = FALSE]
    BY <2>3
  <2>4. QED
    BY <1>2, <2>1, <2>2, <2>3
<1>4. /\ tm'.duration = tm.duration /\ tm'.cancel = tm.cancel
      /\ tm'.ts \in {tm.ts, ms} /\ tm'.once = tm.once /\ (tm.once => ~tm'.fireNow)
  BY <1>2, IsExpiredCases
<1>5. QED
  BY <1>1, <1>3, <1>4 DEF Fits, Stamped

\* TimerInv holds whatever a timer is told and whenever it is polled.
LEMMA AlwaysTimerInv ==
    TimerSpec => []TimerInv
<1>1. TimerInit => TimerInv
  BY TimerAssumption DEF TimerInit, Fresh, TimerInv, TimerTypes, Fits, Stamped
<1>2. TimerInv /\ [TimerNext]_timers => TimerInv'
  <2> SUFFICES ASSUME TimerInv, [TimerNext]_timers
               PROVE  TimerInv'
    OBVIOUS
  <2>1. CASE IsExpired
    BY <2>1, PollKeepsTimerInv
  <2>2. CASE UNCHANGED timers
    BY <2>2 DEF timers, TimerInv, TimerTypes, Fits, Stamped
  <2>3. QED
    BY <2>1, <2>2, CallsKeepTimerInv DEF TimerNext
<1>3. QED
  BY <1>1, <1>2, PTL DEF TimerSpec

\* A timer for which Suspend has kept nothing expires after its period and not
\* before, or at once when it was told to fire: for all durations, and in
\* whatever order it is reset, cancelled, suspended, resumed and polled.
THEOREM TimersOnTime ==
    TimerSpec => TimerOnTime
<1>1. TimerInv /\ [TimerNext]_timers
        => [polled' /\ tm.resetTime = 0 =>
              (expired' <=> /\ ~tm.cancel /\ ~tm.suspend
                            /\ tm.fireNow \/ ms - started > tm.duration)]_timers
  <2> SUFFICES ASSUME TimerInv, TimerNext, polled', tm.resetTime = 0
               PROVE  expired' <=> /\ ~tm.cancel /\ ~tm.suspend
                                   /\ tm.fireNow \/ ms - started > tm.duration
    OBVIOUS
  <2>1. IsExpired
    BY CallsKeepTimerInv DEF TimerNext
  <2>2. QED
    BY <2>1, IsExpiredCases
<1>2. QED
  BY <1>1, AlwaysTimerInv, PTL DEF TimerSpec, TimerOnTime

-----------------------------------------------------------------------------
(* The calendar.                                                            *)

CalendarInv == hour \in Nat /\ hour <= MaxHour /\ stamp \in Nat /\ stamp <= hour

\* The day and the hour of a time.
LEMMA DayAndHour ==
    ASSUME NEW h \in Nat
    PROVE  /\ Day(h) \in Nat /\ HourOf(h) \in Nat /\ HourOf(h) < 24
           /\ h = 24 * Day(h) + HourOf(h)
  BY DEF Day, HourOf

\* Five o'clock of a day, and the only time that is.
LEMMA FiveOnDay ==
    ASSUME NEW d \in Nat
    PROVE  /\ FiveOn(d) \in Nat /\ FiveOn(d) = 24 * d + 5
           /\ Day(FiveOn(d)) = d /\ HourOf(FiveOn(d)) = 5
  BY DEF FiveOn, Day, HourOf

\* The resets of the days: t is the first five o'clock after h.
LEMMA NextDayReset ==
    ASSUME NEW h \in Nat
    PROVE  LET t == GetLatest5Hour(h)
           IN  /\ t \in Nat /\ t > h /\ HourOf(t) = 5
               /\ \A u \in (h + 1)..(t - 1) : HourOf(u) # 5
<1> DEFINE t == GetLatest5Hour(h)
<1>0. /\ Day(h) \in Nat /\ HourOf(h) \in Nat /\ HourOf(h) < 24
      /\ h = 24 * Day(h) + HourOf(h)
  BY DayAndHour
<1>1. PICK d \in Nat : t = FiveOn(d) /\ d = IF HourOf(h) < 5 THEN Day(h) ELSE Day(h) + 1
  BY <1>0 DEF GetLatest5Hour
<1>2. t \in Nat /\ t = 24 * d + 5 /\ HourOf(t) = 5
  BY <1>1, FiveOnDay
<1> HIDE DEF t
<1>3. t > h
  BY <1>0, <1>1, <1>2
<1>4. ASSUME NEW u \in (h + 1)..(t - 1), HourOf(u) = 5
      PROVE  FALSE
  <2>1. u \in Nat /\ u > h /\ u < t
    BY <1>2
  <2>2. Day(u) \in Nat /\ u = 24 * Day(u) + 5
    BY <1>4, <2>1, DayAndHour
  <2>3. QED
    BY <1>0, <1>1, <1>2, <2>1, <2>2
<1>5. QED
  BY <1>2, <1>3, <1>4 DEF t

\* A time at which a week is reset: a Monday, five o'clock.
WeekReset(t) == HourOf(t) = 5 /\ Day(t) % 7 = 0

\* The resets of the weeks: t is the first of them after h.
LEMMA NextWeekReset ==
    ASSUME NEW h \in Nat
    PROVE  LET t == GetLatestWeek5Hour(h)
           IN  /\ t \in Nat /\ t > h /\ WeekReset(t)
               /\ \A u \in (h + 1)..(t - 1) : ~WeekReset(u)
<1> DEFINE t == GetLatestWeek5Hour(h)
           r == Day(h) % 7
<1>1. /\ Day(h) \in Nat /\ HourOf(h) \in Nat /\ HourOf(h) < 24
      /\ h = 24 * Day(h) + HourOf(h)
  BY DayAndHour
<1>2. r \in Nat /\ r < 7
  BY <1>1
<1>3. PICK d \in Nat : /\ t = FiveOn(d)
                       /\ d = IF r # 0 THEN Day(h) + 7 - r
                              ELSE IF HourOf(h) >= 5 THEN Day(h) + 7 ELSE Day(h)
  BY <1>1, <1>2 DEF GetLatestWeek5Hour, Weekday
<1>4. t \in Nat /\ t = 24 * d + 5 /\ HourOf(t) = 5 /\ Day(t) = d
  BY <1>3, FiveOnDay
<1>5. d % 7 = 0
  BY <1>1, <1>3
<1> HIDE DEF t
<1>6. t > h
  BY <1>1, <1>2, <1>3, <1>4
<1>7. ASSUME NEW u \in (h + 1)..(t - 1), WeekReset(u)
      PROVE  FALSE
  <2>1. u \in Nat /\ u > h /\ u < t
    BY <1>4
  <2>2. Day(u) \in Nat /\ u = 24 * Day(u) + 5 /\ Day(u) % 7 = 0
    BY <1>7, <2>1, DayAndHour DEF WeekReset
  <2>3. Day(u) >= Day(h) /\ Day(u) < d /\ (HourOf(h) >= 5 => Day(u) > Day(h))
    BY <1>1, <1>4, <2>1, <2>2
  <2>4. QED
    BY <1>1, <1>3, <2>2, <2>3
<1>8. QED
  BY <1>4, <1>5, <1>6, <1>7 DEF t, WeekReset

\* The first of the next month exists within the calendar.
LEMMA NextMonthIsLeast ==
    ASSUME NEW h \in Nat, h <= MaxHour
    PROVE  /\ NextMonth(h) \in FirstDays /\ NextMonth(h) > Day(h)
           /\ \A e \in FirstDays : e > Day(h) => NextMonth(h) <= e
<1> DEFINE T == {e \in FirstDays : e > Day(h)}
<1>1. T # {} /\ T \in SUBSET Nat
  <2>1. PICK e \in FirstDays : e > MaxHour \div 24
    BY TimerAssumption
  <2>2. Day(h) <= MaxHour \div 24
    BY TimerAssumption DEF Day
  <2>3. e > Day(h)
    BY <2>1, <2>2, TimerAssumption, DayAndHour
  <2>4. QED
    BY <2>3, TimerAssumption
<1>2. \E d \in T : \A e \in T : d <= e
  <2> HIDE DEF T
  <2>1. QED
    BY <1>1, LeastNumber
<1>3. \E d \in FirstDays : d > Day(h) /\ \A e \in FirstDays : e > Day(h) => d <= e
  BY <1>2
<1>4. QED
  BY <1>3 DEF NextMonth

\* The resets of the months: t is the first of them after h, when the second
\* reading of the clock is at h as well or is not made.
LEMMA NextMonthReset ==
    ASSUME NEW h \in Nat, h <= MaxHour
    PROVE  LET t == GetLatestMonth5Hour(h, h)
           IN  /\ t \in Nat /\ t > h /\ HourOf(t) = 5 /\ Day(t) \in FirstDays
               /\ \A u \in (h + 1)..(t - 1) : ~(HourOf(u) = 5 /\ Day(u) \in FirstDays)
<1> DEFINE t == GetLatestMonth5Hour(h, h)
<1>1. /\ Day(h) \in Nat /\ HourOf(h) \in Nat /\ HourOf(h) < 24
      /\ h = 24 * Day(h) + HourOf(h)
  BY DayAndHour
<1>2. CASE Day(h) \in FirstDays /\ HourOf(h) < 5
  <2>1. t = FiveOn(Day(h)) /\ t = GetLatest5Hour(h)
    BY <1>2 DEF GetLatestMonth5Hour, GetLatest5Hour
  <2> HIDE DEF t
  <2>2. Day(t) \in FirstDays
    BY <1>1, <1>2, <2>1, FiveOnDay
  <2>3. /\ t \in Nat /\ t > h /\ HourOf(t) = 5
        /\ \A u \in (h + 1)..(t - 1) : HourOf(u) # 5
    BY <2>1, NextDayReset
  <2>4. QED
    BY <2>2, <2>3 DEF t
<1>3. CASE ~(Day(h) \in FirstDays /\ HourOf(h) < 5)
  <2>1. PICK d \in FirstDays : /\ t = FiveOn(d) /\ d > Day(h)
                               /\ \A e \in FirstDays : e > Day(h) => d <= e
    BY <1>3, NextMonthIsLeast DEF GetLatestMonth5Hour
  <2>2. d \in Nat
    BY TimerAssumption
  <2>3. t \in Nat /\ t = 24 * d + 5 /\ HourOf(t) = 5 /\ Day(t) = d
    BY <2>1, <2>2, FiveOnDay
  <2> HIDE DEF t
  <2>4. t > h
    BY <1>1, <2>1, <2>2, <2>3
  <2>5. ASSUME NEW u \in (h + 1)..(t - 1), HourOf(u) = 5, Day(u) \in FirstDays
        PROVE  FALSE
    <3>1. u \in Nat /\ u > h /\ u < t
      BY <2>3
    <3>2. Day(u) \in Nat /\ u = 24 * Day(u) + 5
      BY <2>5, <3>1, DayAndHour
    <3>3. Day(u) # Day(h)
      <4>1. SUFFICES ASSUME Day(u) = Day(h)
                     PROVE  FALSE
        OBVIOUS
      <4>2. HourOf(h) < 5
        BY <1>1, <3>1, <3>2, <4>1
      <4>3. QED
        BY <1>3, <2>5, <4>1, <4>2
    <3>4. Day(u) > Day(h) /\ Day(u) < d
      BY <1>1, <2>2, <2>3, <3>1, <3>2, <3>3
    <3>5. QED
      BY <2>1, <2>2, <2>5, <3>2, <3>4
  <2>6. QED
    BY <2>1, <2>3, <2>4, <2>5 DEF t
<1>4. QED
  BY <1>2, <1>3

\* With two readings of the clock: the first reset of a month after h, unless
\* five o'clock of that very day has passed at h2.
LEMMA MonthResetOfTwoReadings ==
    ASSUME NEW h \in Nat, h <= MaxHour, NEW h2 \in Nat, h <= h2
    PROVE  LET t == GetLatestMonth5Hour(h, h2)
           IN  IF \E u \in (h + 1)..h2 : (HourOf(u) = 5 /\ Day(u) \in FirstDays) /\ Day(u) = Day(h)
               THEN t > h2 /\ HourOf(t) = 5 /\ \A u \in (h2 + 1)..(t - 1) : ~(HourOf(u) = 5)
               ELSE /\ t > h /\ HourOf(t) = 5 /\ Day(t) \in FirstDays
                    /\ \A u \in (h + 1)..(t - 1) : ~(HourOf(u) = 5 /\ Day(u) \in FirstDays)
<1> DEFINE t == GetLatestMonth5Hour(h, h2)
           Passed == \E u \in (h + 1)..h2 : (HourOf(u) = 5 /\ Day(u) \in FirstDays) /\ Day(u) = Day(h)
           First == /\ t > h /\ HourOf(t) = 5 /\ Day(t) \in FirstDays
                    /\ \A u \in (h + 1)..(t - 1) : ~(HourOf(u) = 5 /\ Day(u) \in FirstDays)
<1>1. /\ Day(h) \in Nat /\ HourOf(h) \in Nat /\ HourOf(h) < 24 /\ h = 24 * Day(h) + HourOf(h)
      /\ Day(h2) \in Nat /\ HourOf(h2) \in Nat /\ HourOf(h2) < 24
      /\ h2 = 24 * Day(h2) + HourOf(h2)
  BY DayAndHour
<1>2. GetLatestMonth5Hour(h, h) = t => First
  BY NextMonthReset
<1>3. CASE Passed
  <2>1. PICK u \in (h + 1)..h2 : HourOf(u) = 5 /\ Day(u) \in FirstDays /\ Day(u) = Day(h)
    BY <1>3
  <2>2. u \in Nat /\ u = 24 * Day(h) + 5
    BY <2>1, DayAndHour
  <2>3. t = GetLatest5Hour(h2)
    BY <1>1, <2>1, <2>2 DEF GetLatestMonth5Hour
  <2> HIDE DEF t
  <2>4. t > h2 /\ HourOf(t) = 5 /\ \A v \in (h2 + 1)..(t - 1) : ~(HourOf(v) = 5)
    BY <2>3, NextDayReset
  <2>5. QED
    BY <1>3, <2>4 DEF t
<1>4. CASE ~Passed
  <2>1. CASE Day(h) \in FirstDays /\ HourOf(h) < 5
    <3>1. h2 < FiveOn(Day(h))
      <4> SUFFICES ASSUME h2 >= FiveOn(Day(h))
                   PROVE  FALSE
        BY <1>1, FiveOnDay
      <4>1. /\ FiveOn(Day(h)) \in Nat /\ FiveOn(Day(h)) = 24 * Day(h) + 5
            /\ Day(FiveOn(Day(h))) = Day(h) /\ HourOf(FiveOn(Day(h))) = 5
        BY <1>1, FiveOnDay
      <4>2. FiveOn(Day(h)) \in (h + 1)..h2
        BY <1>1, <2>1, <4>1
      <4>3. QED
        BY <1>4, <2>1, <4>1, <4>2
    <3>2. FiveOn(Day(h)) = 24 * Day(h) + 5
      BY <1>1, FiveOnDay
    <3>3. Day(h2) = Day(h) /\ HourOf(h2) < 5
      BY <1>1, <3>1, <3>2
    <3>4. GetLatestMonth5Hour(h, h) = t
      BY <2>1, <3>3 DEF GetLatestMonth5Hour, GetLatest5Hour
    <3> HIDE DEF t, First, Passed
    <3>5. QED
      BY <1>2, <1>4, <3>4 DEF t, First, Passed
  <2>2. CASE ~(Day(h) \in FirstDays /\ HourOf(h) < 5)
    <3>1. GetLatestMonth5Hour(h, h) = t
      BY <2>2 DEF GetLatestMonth5Hour
    <3> HIDE DEF t, First, Passed
    <3>2. QED
      BY <1>2, <1>4, <3>1 DEF t, First, Passed
  <2>3. QED
    BY <2>1, <2>2
<1>5. QED
  BY <1>3, <1>4

\* The number of the day from five to five that a time lies in.
LEMMA DayFromFive ==
    ASSUME NEW h \in Nat
    PROVE  (h - 5 + 24) \div 24 = Day(h) + (IF HourOf(h) >= 5 THEN 1 ELSE 0)
  BY DEF Day, HourOf

\* What CalendarInv says of the two times is all the calendar needs.
LEMMA CalendarInvIsEnough ==
    CalendarInv => CalendarAgrees
<1> SUFFICES ASSUME CalendarInv
             PROVE  CalendarAgrees
  OBVIOUS
<1> USE DEF CalendarInv
<1>1. LET t == GetLatest5Hour(hour)
      IN  t > hour /\ HourOf(t) = 5 /\ \A u \in (hour + 1)..(t - 1) : ~(HourOf(u) = 5)
  BY NextDayReset
<1>2. LET t == GetLatestWeek5Hour(hour)
      IN  /\ t > hour /\ HourOf(t) = 5 /\ Day(t) % 7 = 0
          /\ \A u \in (hour + 1)..(t - 1) : ~(HourOf(u) = 5 /\ Day(u) % 7 = 0)
  BY NextWeekReset DEF WeekReset
<1>3. LET t == GetLatestMonth5Hour(stamp, hour)
      IN  IF \E u \in (stamp + 1)..hour : (HourOf(u) = 5 /\ Day(u) \in FirstDays) /\ Day(u) = Day(stamp)
          THEN t > hour /\ HourOf(t) = 5 /\ \A u \in (hour + 1)..(t - 1) : ~(HourOf(u) = 5)
          ELSE /\ t > stamp /\ HourOf(t) = 5 /\ Day(t) \in FirstDays
               /\ \A u \in (stamp + 1)..(t - 1) : ~(HourOf(u) = 5 /\ Day(u) \in FirstDays)
  <2>1. hour \in Nat /\ stamp \in Nat /\ stamp <= MaxHour /\ stamp <= hour
    BY TimerAssumption
  <2> HIDE DEF CalendarInv
  <2>2. QED
    BY <2>1, MonthResetOfTwoReadings, Zenon
<1>4. GetDurationDay2(stamp, hour) = (hour - 5 + 24) \div 24 - (stamp - 5 + 24) \div 24 + 1
  <2>1. /\ Day(hour) \in Nat /\ Day(stamp) \in Nat
        /\ HourOf(hour) \in Nat /\ HourOf(stamp) \in Nat
    BY DayAndHour
  <2>2. /\ (hour - 5 + 24) \div 24 = Day(hour) + (IF HourOf(hour) >= 5 THEN 1 ELSE 0)
        /\ (stamp - 5 + 24) \div 24 = Day(stamp) + (IF HourOf(stamp) >= 5 THEN 1 ELSE 0)
    BY DayFromFive
  <2>3. QED
    <3>1. GetDurationDay2(stamp, hour)
            = Day(hour) - Day(stamp) + (IF HourOf(stamp) < 5 THEN 1 ELSE 0)
                                     + (IF HourOf(hour) >= 5 THEN 1 ELSE 0)
      BY DEF GetDurationDay2, GetDurationDay1
    <3> HIDE DEF CalendarInv
    <3>2. CASE HourOf(stamp) < 5
      BY <2>1, <2>2, <3>1, <3>2
    <3>3. CASE ~(HourOf(stamp) < 5)
      BY <2>1, <2>2, <3>1, <3>3
    <3>4. QED
      BY <3>2, <3>3
<1>5. QED
  BY <1>1, <1>2, <1>3, <1>4 DEF CalendarAgrees

\* The next reset of a day or a week is the first one after now, that of a month
\* too unless five o'clock of the first passes between the two readings of the
\* clock, and the days from five to five are counted right: at every hour of a
\* calendar of any length and whatever the lengths of its months.
THEOREM CalendarAlwaysAgrees ==
    CalendarSpec => []CalendarAgrees
<1>1. CalendarInit => CalendarInv
  BY TimerAssumption DEF CalendarInit, CalendarInv
<1>2. CalendarInv /\ [CalendarNext]_calendar => CalendarInv'
  BY TimerAssumption DEF CalendarInv, CalendarNext, HourPass, Stamp, calendar
<1>3. QED
  BY <1>1, <1>2, CalendarInvIsEnough, PTL DEF CalendarSpec

-----------------------------------------------------------------------------
(* The lists of the wheel.                                                  *)

\* In a list without repeats an element is known by its key: the first one, the
\* place of a key and the one behind it.
FirstOf(list) == IF list = << >> THEN None ELSE Head(list)
Index(list, t) == CHOOSE i \in 1..Len(list) : list[i] = t
NextOf(list, t) ==
    LET i == Index(list, t) IN IF i < Len(list) THEN list[i + 1] ELSE None

NoRepeat(list) == \A j, k \in 1..Len(list) : list[j] = list[k] => j = k

\* v stands at u or behind it.
After(list, u, v) ==
    \E j, k \in 1..Len(list) : j <= k /\ list[j] = u /\ list[k] = v

\* PushBack.
LEMMA Appended ==
    ASSUME NEW list \in Seq(Tasks), NoRepeat(list), NEW t \in Tasks, ~Contains(list, t)
    PROVE  /\ Append(list, t) \in Seq(Tasks) /\ NoRepeat(Append(list, t))
           /\ \A u \in Tasks : Contains(Append(list, t), u) <=> Contains(list, u) \/ u = t
           /\ \A u \in Tasks : Contains(list, u) =>
                /\ After(Append(list, t), u, t)
                /\ \A v \in Tasks \ {t} : After(Append(list, t), u, v) <=> After(list, u, v)
<1> DEFINE new == Append(list, t)
<1>1. /\ new \in Seq(Tasks) /\ Len(new) = Len(list) + 1 /\ Len(list) \in Nat
      /\ \A j \in 1..Len(list) : new[j] = list[j]
      /\ new[Len(list) + 1] = t
  OBVIOUS
<1> HIDE DEF new
<1>2. \A j \in 1..Len(new) : j \in 1..Len(list) \/ j = Len(list) + 1
  BY <1>1
<1>3. 1..Len(list) \subseteq 1..Len(new) /\ Len(list) + 1 \in 1..Len(new)
  BY <1>1
<1>4. NoRepeat(new)
  BY <1>1, <1>2, <1>3 DEF NoRepeat, Contains
<1>5. \A u \in Tasks : Contains(new, u) <=> Contains(list, u) \/ u = t
  BY <1>1, <1>2, <1>3 DEF Contains
<1>6. ASSUME NEW u \in Tasks, Contains(list, u)
      PROVE  After(new, u, t)
  <2>1. PICK j \in 1..Len(list) : list[j] = u
    BY <1>6 DEF Contains
  <2>2. j \in 1..Len(new) /\ j <= Len(list) + 1 /\ new[j] = u
    BY <1>1, <1>3, <2>1
  <2>3. QED
    BY <1>1, <1>3, <2>2 DEF After
<1>7. ASSUME NEW u \in Tasks, Contains(list, u), NEW v \in Tasks \ {t}
      PROVE  After(new, u, v) <=> After(list, u, v)
  <2>1. u # t
    BY <1>7
  <2>2. QED
    BY <1>1, <1>2, <1>3, <2>1 DEF After
<1>8. QED
  BY <1>1, <1>4, <1>5, <1>6, <1>7 DEF new

\* Remove, of an element that is in the list.
LEMMA RemovedAt ==
    ASSUME NEW list \in Seq(Tasks), NEW i \in 1..Len(list)
    PROVE  /\ RemoveAt(list, i) \in Seq(Tasks) /\ Len(RemoveAt(list, i)) = Len(list) - 1
           /\ \A j \in 1..(i - 1) : RemoveAt(list, i)[j] = list[j]
           /\ \A j \in i..(Len(list) - 1) : RemoveAt(list, i)[j] = list[j + 1]
<1> DEFINE a == SubSeq(list, 1, i - 1)
           b == SubSeq(list, i + 1, Len(list))
<1>1. /\ a \in Seq(Tasks) /\ Len(a) = i - 1
      /\ \A j \in 1..(i - 1) : a[j] = list[j]
  OBVIOUS
<1>2. /\ b \in Seq(Tasks) /\ Len(b) = Len(list) - i
      /\ \A j \in 1..(Len(list) - i) : b[j] = list[i + j]
  OBVIOUS
<1>3. RemoveAt(list, i) = a \o b
  BY DEF RemoveAt
<1> HIDE DEF a, b
<1>4. a \o b \in Seq(Tasks) /\ Len(a \o b) = Len(list) - 1
  <2>1. a \o b \in Seq(Tasks) /\ Len(a \o b) = Len(a) + Len(b)
    BY <1>1, <1>2, ConcatProperties
  <2>2. QED
    BY <1>1, <1>2, <2>1
<1>5. \A j \in 1..(i - 1) : (a \o b)[j] = list[j]
  BY <1>1, <1>2
<1>6. ASSUME NEW j \in i..(Len(list) - 1)
      PROVE  (a \o b)[j] = list[j + 1]
  <2>1. /\ j - (i - 1) \in 1..(Len(list) - i)
        /\ (a \o b)[j] = b[j - Len(a)]
    BY <1>1, <1>2
  <2>2. QED
    BY <1>1, <1>2, <2>1
<1>7. QED
  BY <1>3, <1>4, <1>5, <1>6

\* Index is where the element is.
LEMMA IndexFinds ==
    ASSUME NEW list \in Seq(Tasks), NEW t, Contains(list, t)
    PROVE  Index(list, t) \in 1..Len(list) /\ list[Index(list, t)] = t
  BY DEF Index, Contains

\* RemoveFirst takes out the one element there is, or nothing; the others keep
\* their order.
LEMMA Removed ==
    ASSUME NEW list \in Seq(Tasks), NoRepeat(list), NEW t \in Tasks
    PROVE  /\ RemoveFirst(list, t) \in Seq(Tasks) /\ NoRepeat(RemoveFirst(list, t))
           /\ \A u \in Tasks : Contains(RemoveFirst(list, t), u) <=> Contains(list, u) /\ u # t
           /\ \A u, v \in Tasks \ {t} :
                After(RemoveFirst(list, t), u, v) <=> After(list, u, v)
<1> DEFINE new == RemoveFirst(list, t)
<1>1. CASE ~Contains(list, t)
  <2>1. new = list
    BY <1>1 DEF RemoveFirst, Contains
  <2>2. QED
    BY <1>1, <2>1
<1>2. CASE Contains(list, t)
  <2>1. PICK i \in 1..Len(list) : list[i] = t /\ new = RemoveAt(list, i)
    <3> DEFINE I == {j \in 1..Len(list) : list[j] = t}
    <3>1. new = RemoveAt(list, Min(I)) /\ I # {}
      BY <1>2 DEF RemoveFirst, SelectInSeq, Contains
    <3>2. Min(I) \in I
      <4>1. I \in SUBSET Nat
        OBVIOUS
      <4> HIDE DEF I
      <4>2. QED
        BY <3>1, <4>1, MinIsLeast
    <3>3. QED
      BY <3>1, <3>2
  <2> HIDE DEF new
  <2>2. /\ new \in Seq(Tasks) /\ Len(new) = Len(list) - 1 /\ Len(list) \in Nat
        /\ \A j \in 1..(i - 1) : new[j] = list[j]
        /\ \A j \in i..(Len(list) - 1) : new[j] = list[j + 1]
    <3>1. /\ RemoveAt(list, i) \in Seq(Tasks) /\ Len(RemoveAt(list, i)) = Len(list) - 1
          /\ \A j \in 1..(i - 1) : RemoveAt(list, i)[j] = list[j]
          /\ \A j \in i..(Len(list) - 1) : RemoveAt(list, i)[j] = list[j + 1]
      BY RemovedAt
    <3>2. new = RemoveAt(list, i) /\ Len(list) \in Nat
      BY <2>1
    <3>3. QED
      BY <3>1, <3>2
  <2> DEFINE Old(j) == IF j < i THEN j ELSE j + 1
             New(j) == IF j < i THEN j ELSE j - 1
  <2>3. \A j \in 1..Len(new) :
          Old(j) \in 1..Len(list) /\ Old(j) # i /\ new[j] = list[Old(j)] /\ New(Old(j)) = j
    BY <2>2
  <2>4. \A j \in 1..Len(list) : j # i =>
          New(j) \in 1..Len(new) /\ new[New(j)] = list[j]
    <3> SUFFICES ASSUME NEW j \in 1..Len(list), j # i
                 PROVE  New(j) \in 1..Len(new) /\ new[New(j)] = list[j]
      OBVIOUS
    <3>1. CASE j < i
      BY <2>2, <3>1
    <3>2. CASE j > i
      <4>1. j - 1 \in i..(Len(list) - 1) /\ (j - 1) + 1 = j /\ New(j) = j - 1
        BY <2>2, <3>2
      <4>2. QED
        BY <2>2, <4>1
    <3>3. QED
      BY <3>1, <3>2
  <2>5. /\ \A j, k \in 1..Len(new) : j <= k => Old(j) <= Old(k)
        /\ \A j, k \in 1..Len(list) : j <= k /\ j # i /\ k # i => New(j) <= New(k)
    BY <2>2
  <2> HIDE DEF Old, New
  <2>6. \A j \in 1..Len(list) : list[j] = t => j = i
    BY <2>1 DEF NoRepeat
  <2>7. NoRepeat(new)
    <3> SUFFICES ASSUME NEW j \in 1..Len(new), NEW k \in 1..Len(new), new[j] = new[k]
                 PROVE  j = k
      BY DEF NoRepeat
    <3>1. Old(j) = Old(k)
      BY <2>3 DEF NoRepeat
    <3>2. QED
      BY <2>3, <3>1
  <2>8. ASSUME NEW u \in Tasks
        PROVE  Contains(new, u) <=> Contains(list, u) /\ u # t
    <3>1. ASSUME Contains(new, u)
          PROVE  Contains(list, u) /\ u # t
      <4>1. PICK j \in 1..Len(new) : new[j] = u
        BY <3>1 DEF Contains
      <4>2. Old(j) \in 1..Len(list) /\ Old(j) # i /\ list[Old(j)] = u
        BY <2>3, <4>1
      <4>3. QED
        BY <2>6, <4>2 DEF Contains
    <3>2. ASSUME Contains(list, u), u # t
          PROVE  Contains(new, u)
      <4>1. PICK j \in 1..Len(list) : list[j] = u
        BY <3>2 DEF Contains
      <4>2. j # i
        BY <2>1, <3>2, <4>1
      <4>3. New(j) \in 1..Len(new) /\ new[New(j)] = u
        BY <2>4, <4>1, <4>2
      <4>4. QED
        BY <4>3 DEF Contains
    <3>3. QED
      BY <3>1, <3>2
  <2>9. ASSUME NEW u \in Tasks \ {t}, NEW v \in Tasks \ {t}
        PROVE  After(new, u, v) <=> After(list, u, v)
    <3>1. ASSUME After(new, u, v)
          PROVE  After(list, u, v)
      <4>1. PICK j \in 1..Len(new), k \in 1..Len(new) : j <= k /\ new[j] = u /\ new[k] = v
        BY <3>1 DEF After
      <4>2. /\ Old(j) \in 1..Len(list) /\ Old(k) \in 1..Len(list) /\ Old(j) <= Old(k)
            /\ list[Old(j)] = u /\ list[Old(k)] = v
        BY <2>3, <2>5, <4>1
      <4>3. QED
        BY <4>2 DEF After
    <3>2. ASSUME After(list, u, v)
          PROVE  After(new, u, v)
      <4>1. PICK j \in 1..Len(list), k \in 1..Len(list) : j <= k /\ list[j] = u /\ list[k] = v
        BY <3>2 DEF After
      <4>2. j # i /\ k # i
        BY <2>1, <2>9, <4>1
      <4>3. /\ New(j) \in 1..Len(new) /\ New(k) \in 1..Len(new) /\ New(j) <= New(k)
            /\ new[New(j)] = u /\ new[New(k)] = v
        BY <2>4, <2>5, <4>1, <4>2
      <4>4. QED
        BY <4>3 DEF After
    <3>3. QED
      BY <3>1, <3>2
  <2>10. QED
    BY <2>2, <2>7, <2>8, <2>9 DEF new
<1>3. QED
  BY <1>1, <1>2

\* Front: every element stands at the first or behind it.
LEMMA FirstIs ==
    ASSUME NEW list \in Seq(Tasks)
    PROVE  /\ FirstOf(list) \in Tasks \cup {None}
           /\ FirstOf(list) # None => Contains(list, FirstOf(list))
           /\ \A t \in Tasks : Contains(list, t) =>
                FirstOf(list) # None /\ After(list, FirstOf(list), t)
<1>1. CASE list = << >>
  BY <1>1 DEF FirstOf, Contains
<1>2. CASE list # << >>
  <2>1. FirstOf(list) = list[1] /\ 1 \in 1..Len(list) /\ list[1] \in Tasks
    BY <1>2 DEF FirstOf
  <2>2. ASSUME NEW t \in Tasks, Contains(list, t)
        PROVE  After(list, list[1], t)
    BY <2>1, <2>2 DEF Contains, After
  <2>3. QED
    BY <2>1, <2>2, WheelAssumption DEF Contains
<1>3. QED
  BY <1>1, <1>2

\* WheelNext: what stands behind an element stands at its next one or behind that.
LEMMA NextIs ==
    ASSUME NEW list \in Seq(Tasks), NoRepeat(list), NEW t \in Tasks, Contains(list, t)
    PROVE  /\ NextOf(list, t) \in Tasks \cup {None} /\ NextOf(list, t) # t
           /\ NextOf(list, t) # None => Contains(list, NextOf(list, t))
           /\ \A u \in Tasks \ {t} :
                After(list, t, u) <=> NextOf(list, t) # None /\ After(list, NextOf(list, t), u)
           /\ ~After(list, NextOf(list, t), t)
           /\ After(list, t, t)
<1> DEFINE n == NextOf(list, t)
<1>1. PICK i \in 1..Len(list) : /\ list[i] = t
                                /\ n = IF i < Len(list) THEN list[i + 1] ELSE None
  BY IndexFinds DEF NextOf
<1>2. \A j \in 1..Len(list) : list[j] = t => j = i
  BY <1>1 DEF NoRepeat
<1>3. Len(list) \in Nat /\ \A j \in 1..Len(list) : list[j] \in Tasks
  OBVIOUS
<1> HIDE DEF n
<1>4. After(list, t, t)
  BY <1>1 DEF After
<1>5. CASE i < Len(list)
  <2>1. n = list[i + 1] /\ i + 1 \in 1..Len(list) /\ n \in Tasks /\ n # None /\ n # t
    BY <1>1, <1>2, <1>3, <1>5, WheelAssumption
  <2>2. \A j \in 1..Len(list) : list[j] = n => j = i + 1
    BY <2>1 DEF NoRepeat
  <2>3. Contains(list, n)
    BY <2>1 DEF Contains
  <2>4. ASSUME NEW u \in Tasks \ {t}
        PROVE  After(list, t, u) <=> After(list, n, u)
    <3>1. ASSUME NEW k \in 1..Len(list), list[k] = u
          PROVE  i <= k <=> i + 1 <= k
      <4>1. k # i
        BY <1>1, <2>4, <3>1
      <4>2. QED
        BY <4>1, <1>3
    <3>2. After(list, t, u) <=> \E k \in 1..Len(list) : i <= k /\ list[k] = u
      BY <1>1, <1>2 DEF After
    <3>3. After(list, n, u) <=> \E k \in 1..Len(list) : i + 1 <= k /\ list[k] = u
      BY <2>1, <2>2 DEF After
    <3>4. QED
      BY <3>1, <3>2, <3>3
  <2>5. ~After(list, n, t)
    BY <1>2, <1>3, <2>2 DEF After
  <2>6. QED
    BY <1>4, <2>1, <2>3, <2>4, <2>5 DEF n
<1>6. CASE ~(i < Len(list))
  <2>1. n = None /\ i = Len(list)
    BY <1>1, <1>3, <1>6
  <2>2. ASSUME NEW u \in Tasks \ {t}
        PROVE  ~After(list, t, u)
    BY <1>1, <1>2, <1>3, <2>1, <2>2 DEF After
  <2>3. ~After(list, None, t)
    BY <1>3, WheelAssumption DEF After
  <2>4. QED
    BY <1>4, <2>1, <2>2, <2>3, WheelAssumption DEF n
<1>7. QED
  BY <1>5, <1>6

\* RemoveTask takes out the first element that has the key.
LEMMA FirstAtIs ==
    ASSUME NEW list \in Seq(Tasks), NEW t, Contains(list, t)
    PROVE  /\ FirstAt(list, t) \in 1..Len(list) /\ list[FirstAt(list, t)] = t
           /\ RemoveFirst(list, t) = RemoveAt(list, FirstAt(list, t))
<1> DEFINE I == {j \in 1..Len(list) : list[j] = t}
<1>1. I # {} /\ FirstAt(list, t) = Min(I)
  BY DEF FirstAt, SelectInSeq, Contains
<1>2. RemoveFirst(list, t) = RemoveAt(list, Min(I))
  BY <1>1 DEF RemoveFirst, SelectInSeq
<1>3. Min(I) \in I
  <2>1. I \in SUBSET Nat
    OBVIOUS
  <2> HIDE DEF I
  <2>2. QED
    BY <1>1, <2>1, MinIsLeast
<1>4. QED
  BY <1>1, <1>2, <1>3

\* In a list without repeats the place and the key name the same element.
LEMMA ByPlace ==
    ASSUME NEW list \in Seq(Tasks), NoRepeat(list), NEW p \in 1..Len(list)
    PROVE  /\ FirstAt(list, list[p]) = p
           /\ RemoveFirst(list, list[p]) = RemoveAt(list, p)
           /\ NextOf(list, list[p]) = IF p < Len(list) THEN list[p + 1] ELSE None
           /\ Contains(list, list[p])
<1>1. Contains(list, list[p])
  BY DEF Contains
<1>2. FirstAt(list, list[p]) = p /\ Index(list, list[p]) = p
  <2>1. FirstAt(list, list[p]) \in 1..Len(list) /\ list[FirstAt(list, list[p])] = list[p]
    BY <1>1, FirstAtIs
  <2>2. Index(list, list[p]) \in 1..Len(list) /\ list[Index(list, list[p])] = list[p]
    BY <1>1, IndexFinds
  <2>3. QED
    BY <2>1, <2>2 DEF NoRepeat
<1>3. RemoveFirst(list, list[p]) = RemoveAt(list, p)
  BY <1>1, <1>2, FirstAtIs
<1>4. QED
  BY <1>1, <1>2, <1>3 DEF NextOf

-----------------------------------------------------------------------------
(* The map and the lists.                                                   *)

Keyed == Tasks \ Keyless

ListsOK(lists) == lists \in [Slots -> Seq(Tasks)] /\ \A i \in Slots : NoRepeat(lists[i])

\* A task with a key is in the slot the map names and in no other.
MapOK(lists, index) ==
    /\ index \in [Tasks -> Slots \cup {NoSlot}]
    /\ \A t \in Keyed, i \in Slots : Contains(lists[i], t) <=> index[t] = i
    /\ \A t \in Keyless : index[t] = NoSlot

\* Whatever callbacks do, the place of the walk is that of its element, and a
\* key in the map is in the list the map names.
AtPlace ==
    /\ item = None => pos = 0
    /\ pos # 0 => pos \in 1..Len(slots[currentIdx]) /\ slots[currentIdx][pos] = item
    /\ walk \in {"idle", "loop"} => item = None
    /\ walk = "walk" => ~Unlinked
    /\ walk = "callback" => item # None

Named == \A t \in Tasks : timer[t] # NoSlot => Contains(slots[timer[t]], t)

LooseInv == WheelTypeOK /\ AtPlace /\ Named

\* The walk stands at an element of the current slot, unless a callback has
\* removed it; it was then one with a key, which is not in the map any more.
Walking ==
    /\ walk \in {"idle", "loop"} => item = None
    /\ walk # "callback" => ~Unlinked
    /\ walk = "walk" /\ item # None => Contains(slots[currentIdx], item)
    /\ walk = "callback" =>
         /\ item # None
         /\ IF Unlinked THEN item \in Keyed /\ timer[item] = NoSlot
            ELSE Contains(slots[currentIdx], item)

IndexInv == WheelTypeOK /\ AtPlace /\ ListsOK(slots) /\ MapOK(slots, timer) /\ Walking

\* getIdxAndCircle gives a slot and a number of rotations.
LEMMA IdxAndCircle ==
    ASSUME WheelTypeOK, NEW t \in Tasks
    PROVE  Steps(t) \in Nat /\ IdxOf(t) \in Slots /\ CircleOf(t) \in Nat
<1> USE WheelAssumption
<1>1. Steps(t) \in Nat
  BY DEF Steps
<1>2. currentIdx \in Nat
  BY DEF WheelTypeOK, Slots
<1>3. IdxOf(t) \in Slots
  <2>1. (currentIdx + Steps(t)) % SlotNum \in 0..(SlotNum - 1)
    BY <1>1, <1>2
  <2>2. QED
    BY <2>1 DEF IdxOf, Slots
<1>4. CircleOf(t) \in Nat
  BY <1>1 DEF CircleOf
<1>5. QED
  BY <1>1, <1>3, <1>4

\* AddTask of a task that is in no list keeps the map and the lists in step.
LEMMA Placed ==
    ASSUME WheelTypeOK, NEW t \in Tasks, NEW lists, NEW index, NEW history,
           ListsOK(lists), MapOK(lists, index), index[t] = NoSlot,
           \A i \in Slots : ~Contains(lists[i], t),
           Place(t, lists, index, history)
    PROVE  /\ ListsOK(slots') /\ MapOK(slots', timer')
           /\ \A i \in Slots : slots'[i] = IF i = IdxOf(t) THEN Append(lists[i], t) ELSE lists[i]
           /\ \A u \in Tasks \ {t} : timer'[u] = index[u]
           /\ timer'[t] = IF t \in Keyless THEN NoSlot ELSE IdxOf(t)
           /\ circle' = [circle EXCEPT ![t] = CircleOf(t)]
           /\ age' = [history EXCEPT ![t] = Born(t)]
<1>1. /\ slots' = [lists EXCEPT ![IdxOf(t)] = Append(@, t)]
      /\ circle' = [circle EXCEPT ![t] = CircleOf(t)]
      /\ timer' = [index EXCEPT ![t] = IF t \in Keyless THEN NoSlot ELSE IdxOf(t)]
      /\ age' = [history EXCEPT ![t] = Born(t)]
  BY DEF Place
<1>2. IdxOf(t) \in Slots
  BY IdxAndCircle
<1>3. /\ lists \in [Slots -> Seq(Tasks)] /\ \A i \in Slots : NoRepeat(lists[i])
      /\ index \in [Tasks -> Slots \cup {NoSlot}]
  BY DEF ListsOK, MapOK
<1>4. \A i \in Slots : slots'[i] = IF i = IdxOf(t) THEN Append(lists[i], t) ELSE lists[i]
  BY <1>1, <1>3
<1>5. ASSUME NEW i \in Slots
      PROVE  /\ Append(lists[i], t) \in Seq(Tasks) /\ NoRepeat(Append(lists[i], t))
             /\ \A u \in Tasks : Contains(Append(lists[i], t), u) <=> Contains(lists[i], u) \/ u = t
  <2>1. lists[i] \in Seq(Tasks) /\ NoRepeat(lists[i]) /\ ~Contains(lists[i], t)
    BY <1>3
  <2>2. QED
    BY <2>1, Appended
<1>6. ListsOK(slots')
  <2>1. slots' \in [Slots -> Seq(Tasks)]
    BY <1>1, <1>2, <1>3, <1>5
  <2>2. ASSUME NEW i \in Slots
        PROVE  NoRepeat(slots'[i])
    BY <1>3, <1>4, <1>5
  <2>3. QED
    BY <2>1, <2>2 DEF ListsOK
<1>7. \A u \in Tasks \ {t} : timer'[u] = index[u]
  BY <1>1, <1>3
<1>8. timer'[t] = IF t \in Keyless THEN NoSlot ELSE IdxOf(t)
  BY <1>1, <1>3
<1>9. timer' \in [Tasks -> Slots \cup {NoSlot}]
  BY <1>1, <1>2, <1>3
<1>10. NoSlot \notin Slots
  BY WheelAssumption DEF NoSlot, Slots
<1>11. ASSUME NEW u \in Keyed, NEW i \in Slots
       PROVE  Contains(slots'[i], u) <=> timer'[u] = i
  <2>1. u \in Tasks /\ (Contains(lists[i], u) <=> index[u] = i)
    BY DEF MapOK, Keyed
  <2>2. CASE u = t
    <3>1. timer'[u] = IdxOf(t) /\ ~Contains(lists[i], u)
      BY <1>8, <2>2 DEF Keyed
    <3>2. Contains(slots'[i], u) <=> i = IdxOf(t)
      BY <1>4, <1>5, <2>1, <2>2, <3>1
    <3>3. QED
      BY <3>1, <3>2
  <2>3. CASE u # t
    BY <1>4, <1>5, <1>7, <2>1, <2>3
  <2>4. QED
    BY <2>2, <2>3
<1>12. \A u \in Keyless : timer'[u] = NoSlot
  BY <1>7, <1>8, WheelAssumption DEF MapOK
<1>13. MapOK(slots', timer')
  BY <1>9, <1>11, <1>12 DEF MapOK
<1>14. QED
  BY <1>1, <1>4, <1>6, <1>7, <1>8, <1>13

\* lists and index are what is left when t is taken out of slot s and of the map.
TakesOut(t, s, lists, index) ==
    /\ timer[t] \in {s, NoSlot}
    /\ \/ lists = [slots EXCEPT ![s] = RemoveFirst(@, t)]
       \/ timer[t] = NoSlot /\ lists = slots
    /\ index = [timer EXCEPT ![t] = NoSlot]

\* Taking a task with a key out of the list of the slot that the map names, and
\* out of the map, keeps them in step.
LEMMA TakenOut ==
    ASSUME ListsOK(slots), MapOK(slots, timer), NEW t \in Keyed, NEW s \in Slots,
           NEW lists, NEW index, TakesOut(t, s, lists, index)
    PROVE  /\ ListsOK(lists) /\ MapOK(lists, index) /\ index[t] = NoSlot
           /\ \A i \in Slots : ~Contains(lists[i], t)
           /\ \A i \in Slots, u \in Tasks \ {t} :
                Contains(lists[i], u) <=> Contains(slots[i], u)
           /\ \A i \in Slots, u, v \in Tasks \ {t} :
                After(lists[i], u, v) <=> After(slots[i], u, v)
           /\ \A u \in Tasks \ {t} : index[u] = timer[u]
<1> USE DEF TakesOut
<1>1. /\ slots \in [Slots -> Seq(Tasks)] /\ \A i \in Slots : NoRepeat(slots[i])
      /\ timer \in [Tasks -> Slots \cup {NoSlot}] /\ t \in Tasks /\ NoSlot \notin Slots
  BY WheelAssumption DEF ListsOK, MapOK, Keyed, NoSlot, Slots
<1>2. \A i \in Slots : lists[i] = slots[i] \/ (i = s /\ lists[i] = RemoveFirst(slots[i], t))
  BY <1>1
<1>3. \A i \in Slots : Contains(slots[i], t) => i = s /\ lists[i] = RemoveFirst(slots[i], t)
  <2> SUFFICES ASSUME NEW i \in Slots, Contains(slots[i], t)
               PROVE  i = s /\ lists[i] = RemoveFirst(slots[i], t)
    OBVIOUS
  <2>1. timer[t] = i
    BY DEF MapOK
  <2>2. i = s /\ timer[t] # NoSlot
    BY <1>1, <2>1
  <2>3. QED
    BY <1>1, <2>2
<1>4. ASSUME NEW i \in Slots
      PROVE  LET r == RemoveFirst(slots[i], t)
             IN  /\ r \in Seq(Tasks) /\ NoRepeat(r)
                 /\ \A u \in Tasks : Contains(r, u) <=> Contains(slots[i], u) /\ u # t
                 /\ \A u, v \in Tasks \ {t} : After(r, u, v) <=> After(slots[i], u, v)
  <2>1. slots[i] \in Seq(Tasks) /\ NoRepeat(slots[i])
    BY <1>1
  <2>2. QED
    BY <1>1, <2>1, Removed
<1>5. ListsOK(lists)
  <2>1. lists \in [Slots -> Seq(Tasks)]
    BY <1>1, <1>4
  <2>2. QED
    BY <1>1, <1>2, <1>4, <2>1 DEF ListsOK
<1>6. \A i \in Slots : ~Contains(lists[i], t)
  BY <1>1, <1>2, <1>3, <1>4
<1>7. \A i \in Slots, u \in Tasks \ {t} : Contains(lists[i], u) <=> Contains(slots[i], u)
  BY <1>2, <1>4
<1>8. \A i \in Slots, u, v \in Tasks \ {t} : After(lists[i], u, v) <=> After(slots[i], u, v)
  BY <1>2, <1>4
<1>9. /\ index[t] = NoSlot /\ index \in [Tasks -> Slots \cup {NoSlot}]
      /\ \A u \in Tasks \ {t} : index[u] = timer[u]
  BY <1>1
<1>10. MapOK(lists, index)
  <2>1. ASSUME NEW u \in Keyed, NEW i \in Slots
        PROVE  Contains(lists[i], u) <=> index[u] = i
    <3>1. CASE u = t
      BY <1>1, <1>6, <1>9, <3>1
    <3>2. CASE u # t
      BY <1>7, <1>9, <3>2 DEF MapOK, Keyed
    <3>3. QED
      BY <3>1, <3>2
  <2>2. \A u \in Keyless : index[u] = NoSlot
    BY <1>9, WheelAssumption DEF MapOK
  <2>3. QED
    BY <1>9, <2>1, <2>2 DEF MapOK
<1>11. QED
  BY <1>5, <1>6, <1>7, <1>8, <1>9, <1>10

Ages == [ticks : Int, ms : Int, skips : Int, inside : BOOLEAN, behind : BOOLEAN]

\* What is noted about the tasks has its type.
LEMMA AgesTyped ==
    ASSUME WheelTypeOK
    PROVE  /\ Never \in Ages /\ \A t \in Tasks : Born(t) \in Ages
           /\ \A a, b \in Nat : Older(a, b) \in [Tasks -> Ages]
           /\ Skipped \in [Tasks -> Ages]
<1>1. Never \in Ages
  BY DEF Never, Ages
<1>2. \A t \in Tasks : age[t] \in Ages
  BY DEF WheelTypeOK, Ages
<1>3. ASSUME NEW t \in Tasks
      PROVE  Born(t) \in Ages
  <2>1. (walk # "idle") \in BOOLEAN /\ (clock - oldMs >= Interval) \in BOOLEAN
    OBVIOUS
  <2>2. CASE t \in Timed
    <3>1. Born(t) = [ticks |-> 0, ms |-> 0, skips |-> 0,
                     inside |-> walk # "idle", behind |-> clock - oldMs >= Interval]
      BY <2>2 DEF Born
    <3>2. QED
      BY <2>1, <3>1 DEF Ages
  <2>3. CASE t \notin Timed
    BY <1>1, <2>3 DEF Born
  <2>4. QED
    BY <2>2, <2>3
<1>4. ASSUME NEW a \in Nat, NEW b \in Nat
      PROVE  Older(a, b) \in [Tasks -> Ages]
  <2>1. ASSUME NEW g \in Ages
        PROVE  [g EXCEPT !.ticks = @ + a, !.ms = @ + b] \in Ages
    <3>1. g.ticks + a \in Int /\ g.ms + b \in Int
      BY DEF Ages
    <3>2. \A x, y \in Int : [g EXCEPT !.ticks = x, !.ms = y] \in Ages
      BY DEF Ages
    <3>3. QED
      BY <3>1, <3>2
  <2>2. QED
    BY <1>1, <1>2, <2>1 DEF Older
<1>5. Skipped \in [Tasks -> Ages]
  <2>1. ASSUME NEW g \in Ages
        PROVE  [g EXCEPT !.skips = @ + 1] \in Ages
    BY DEF Ages
  <2>2. QED
    BY <1>2, <2>1 DEF Skipped
<1>6. QED
  BY <1>1, <1>3, <1>4, <1>5

\* AddTask leaves what is in the lists where it is, and names what it puts in.
LEMMA PutIn ==
    ASSUME WheelTypeOK, NEW t \in Tasks, NEW lists \in [Slots -> Seq(Tasks)],
           NEW index \in [Tasks -> Slots \cup {NoSlot}], NEW history \in [Tasks -> Ages],
           \A u \in Tasks : index[u] # NoSlot => Contains(lists[index[u]], u),
           Place(t, lists, index, history)
    PROVE  /\ slots' \in [Slots -> Seq(Tasks)] /\ timer' \in [Tasks -> Slots \cup {NoSlot}]
           /\ circle' \in [Tasks -> Nat] /\ age' \in [Tasks -> Ages] /\ Named'
           /\ \A i \in Slots, p \in Nat : p \in 1..Len(lists[i]) =>
                p \in 1..Len(slots'[i]) /\ slots'[i][p] = lists[i][p]
<1>1. circle \in [Tasks -> Nat] /\ IdxOf(t) \in Slots /\ CircleOf(t) \in Nat
  BY IdxAndCircle DEF WheelTypeOK
<1>2. Born(t) \in Ages
  BY AgesTyped
<1>3. CASE index[t] # NoSlot
  <2>1. slots' = lists /\ timer' = index /\ age' = history /\ circle' = circle
    BY <1>3 DEF Place
  <2>2. QED
    BY <1>1, <2>1 DEF Named
<1>4. CASE index[t] = NoSlot
  <2> DEFINE s == IdxOf(t)
  <2>1. /\ slots' = [lists EXCEPT ![s] = Append(@, t)]
        /\ circle' = [circle EXCEPT ![t] = CircleOf(t)]
        /\ timer' = [index EXCEPT ![t] = IF t \in Keyless THEN NoSlot ELSE s]
        /\ age' = [history EXCEPT ![t] = Born(t)]
    BY <1>4 DEF Place
  <2>2. s \in Slots /\ lists[s] \in Seq(Tasks)
    BY <1>1
  <2> HIDE DEF s
  <2>3. /\ Append(lists[s], t) \in Seq(Tasks)
        /\ Len(Append(lists[s], t)) = Len(lists[s]) + 1 /\ Len(lists[s]) \in Nat
        /\ \A p \in 1..Len(lists[s]) : Append(lists[s], t)[p] = lists[s][p]
        /\ Append(lists[s], t)[Len(lists[s]) + 1] = t
    BY <2>2
  <2>4. \A i \in Slots : slots'[i] = IF i = s THEN Append(lists[s], t) ELSE lists[i]
    BY <2>1
  <2>5. \A i \in Slots, p \in Nat : p \in 1..Len(lists[i]) =>
          p \in 1..Len(slots'[i]) /\ slots'[i][p] = lists[i][p]
    <3> SUFFICES ASSUME NEW i \in Slots, NEW p \in Nat, p \in 1..Len(lists[i])
                 PROVE  p \in 1..Len(slots'[i]) /\ slots'[i][p] = lists[i][p]
      OBVIOUS
    <3>1. CASE i = s
      <4>1. p \in 1..(Len(lists[s]) + 1)
        BY <2>3, <3>1
      <4>2. QED
        BY <2>3, <2>4, <3>1, <4>1
    <3>2. CASE i # s
      BY <2>4, <3>2
    <3>3. QED
      BY <3>1, <3>2
  <2>6. Named'
    <3> SUFFICES ASSUME NEW u \in Tasks, timer'[u] # NoSlot
                 PROVE  Contains(slots'[timer'[u]], u)
      BY DEF Named
    <3>1. CASE u = t
      <4>1. timer'[u] = s
        BY <2>1, <3>1
      <4>2. Len(lists[s]) + 1 \in 1..Len(Append(lists[s], t))
        BY <2>3
      <4>3. QED
        BY <2>2, <2>3, <2>4, <3>1, <4>1, <4>2 DEF Contains
    <3>2. CASE u # t
      <4>1. timer'[u] = index[u] /\ index[u] \in Slots /\ Contains(lists[index[u]], u)
        BY <2>1, <3>2
      <4>2. PICK p \in 1..Len(lists[index[u]]) : lists[index[u]][p] = u
        BY <4>1 DEF Contains
      <4>3. p \in 1..Len(slots'[index[u]]) /\ slots'[index[u]][p] = u
        BY <2>5, <4>1, <4>2
      <4>4. QED
        BY <4>1, <4>3 DEF Contains
    <3>3. QED
      BY <3>1, <3>2
  <2>7. slots' \in [Slots -> Seq(Tasks)] /\ timer' \in [Tasks -> Slots \cup {NoSlot}]
    BY <2>1, <2>2, <2>3
  <2>8. circle' \in [Tasks -> Nat] /\ age' \in [Tasks -> Ages]
    BY <1>1, <1>2, <2>1
  <2>9. QED
    BY <2>5, <2>6, <2>7, <2>8
<1>5. QED
  BY <1>3, <1>4

\* AddTask, also of the task whose callback runs.
LEMMA AddTaskKeepsLoose ==
    ASSUME LooseInv, NEW t \in Tasks, AddTask(t)
    PROVE  LooseInv'
<1> USE DEF LooseInv
<1>1. /\ Place(t, slots, timer, age)
      /\ UNCHANGED <<currentIdx, oldMs, clock, backs, walk, item, pos>>
      /\ \/ readds' = readds
         \/ readds < MaxReadds /\ readds' = readds + 1
  BY DEF AddTask
<1>2. /\ slots \in [Slots -> Seq(Tasks)] /\ timer \in [Tasks -> Slots \cup {NoSlot}]
      /\ age \in [Tasks -> Ages] /\ currentIdx \in Slots /\ pos \in Nat
  BY DEF WheelTypeOK, Ages
<1>3. /\ slots' \in [Slots -> Seq(Tasks)] /\ timer' \in [Tasks -> Slots \cup {NoSlot}]
      /\ circle' \in [Tasks -> Nat] /\ age' \in [Tasks -> Ages] /\ Named'
      /\ \A i \in Slots, p \in Nat : p \in 1..Len(slots[i]) =>
           p \in 1..Len(slots'[i]) /\ slots'[i][p] = slots[i][p]
  BY <1>1, <1>2, PutIn DEF Named
<1>4. readds' \in 0..MaxReadds
  BY <1>1, WheelAssumption DEF WheelTypeOK
<1>5. WheelTypeOK'
  BY <1>1, <1>3, <1>4 DEF WheelTypeOK, Ages
<1>6. AtPlace'
  <2>1. pos' # 0 => pos' \in 1..Len(slots'[currentIdx']) /\ slots'[currentIdx'][pos'] = item'
    BY <1>1, <1>2, <1>3 DEF AtPlace
  <2>2. QED
    BY <1>1, <2>1 DEF AtPlace, Unlinked
<1>7. QED
  BY <1>3, <1>5, <1>6

\* RemoveTask: the element the walk stands at moves up, or is gone.
LEMMA RemoveTaskKeepsLoose ==
    ASSUME LooseInv, NEW t \in Tasks, RemoveTask(t)
    PROVE  LooseInv'
<1> USE DEF LooseInv
<1>1. /\ walk \in {"idle", "callback"} /\ timer[t] # NoSlot /\ Contains(slots[timer[t]], t)
      /\ slots' = [slots EXCEPT ![timer[t]] = RemoveFirst(@, t)]
      /\ pos' = IF timer[t] # currentIdx THEN pos ELSE PlaceWithout(t)
      /\ timer' = [timer EXCEPT ![t] = NoSlot]
      /\ age' = [age EXCEPT ![t] = Never]
      /\ UNCHANGED <<circle, currentIdx, oldMs, clock, backs, walk, item, readds>>
  BY DEF RemoveTask, MayCall
<1>2. /\ slots \in [Slots -> Seq(Tasks)] /\ timer \in [Tasks -> Slots \cup {NoSlot}]
      /\ age \in [Tasks -> Ages] /\ currentIdx \in Slots /\ pos \in Nat
  BY DEF WheelTypeOK, Ages
<1>3. PICK s \in Slots : s = timer[t]
  BY <1>1, <1>2
<1>4. PICK j \in 1..Len(slots[s]) : /\ j = FirstAt(slots[s], t) /\ slots[s][j] = t
                                    /\ RemoveFirst(slots[s], t) = RemoveAt(slots[s], j)
  BY <1>1, <1>2, <1>3, FirstAtIs
<1> DEFINE list == slots[s]
           rest == RemoveAt(list, j)
<1>5. /\ rest \in Seq(Tasks) /\ Len(rest) = Len(list) - 1 /\ Len(list) \in Nat /\ j \in Nat
      /\ \A k \in 1..(j - 1) : rest[k] = list[k]
      /\ \A k \in j..(Len(list) - 1) : rest[k] = list[k + 1]
  <2>1. list \in Seq(Tasks)
    BY <1>2
  <2> HIDE DEF list
  <2>2. j \in 1..Len(list) /\ Len(list) \in Nat
    BY <2>1 DEF list
  <2>3. QED
    BY <2>1, <2>2, RemovedAt
<1>6. \A i \in Slots : slots'[i] = IF i = s THEN rest ELSE slots[i]
  BY <1>1, <1>2, <1>3, <1>4
<1> HIDE DEF list, rest
<1>7. \A k \in 1..Len(list) : k # j =>
        IF k < j THEN k \in 1..Len(rest) /\ rest[k] = list[k]
        ELSE k - 1 \in 1..Len(rest) /\ rest[k - 1] = list[k]
  <2> SUFFICES ASSUME NEW k \in 1..Len(list), k # j
               PROVE  IF k < j THEN k \in 1..Len(rest) /\ rest[k] = list[k]
                      ELSE k - 1 \in 1..Len(rest) /\ rest[k - 1] = list[k]
    OBVIOUS
  <2>1. j \in 1..Len(list)
    BY <1>4 DEF list
  <2>2. CASE k < j
    BY <1>5, <2>1, <2>2
  <2>3. CASE k > j
    <3>1. k - 1 \in j..(Len(list) - 1) /\ (k - 1) + 1 = k /\ k - 1 \in 1..Len(rest)
      BY <1>5, <2>1, <2>3
    <3>2. QED
      BY <1>5, <2>3, <3>1
  <2>4. QED
    BY <1>5, <2>2, <2>3
<1>8. Named'
  <2> SUFFICES ASSUME NEW u \in Tasks, timer'[u] # NoSlot
               PROVE  Contains(slots'[timer'[u]], u)
    BY DEF Named
  <2>1. u # t /\ timer'[u] = timer[u] /\ timer[u] \in Slots
    BY <1>1, <1>2
  <2>2. PICK k \in 1..Len(slots[timer[u]]) : slots[timer[u]][k] = u
    BY <2>1 DEF Named, Contains
  <2>3. CASE timer[u] # s
    BY <1>6, <2>1, <2>2, <2>3 DEF Contains
  <2>4. CASE timer[u] = s
    <3>1. k \in 1..Len(list) /\ list[k] = u /\ k # j
      BY <1>4, <2>1, <2>2, <2>4 DEF list
    <3>2. Contains(rest, u)
      BY <1>7, <3>1 DEF Contains
    <3>3. QED
      BY <1>6, <2>1, <2>4, <3>2
  <2>5. QED
    BY <2>3, <2>4
<1>9. pos' \in Nat /\ (pos' # 0 => /\ pos # 0 /\ pos' \in 1..Len(slots'[currentIdx])
                                   /\ slots'[currentIdx][pos'] = slots[currentIdx][pos])
      /\ (pos' = 0 => pos = 0 \/ walk = "callback")
  <2>0. pos # 0 => pos \in 1..Len(slots[currentIdx]) /\ slots[currentIdx][pos] = item
    BY DEF AtPlace
  <2>4. pos # 0 => walk = "callback"
    BY <1>1 DEF AtPlace
  <2>1. CASE s # currentIdx
    BY <1>1, <1>2, <1>3, <1>6, <2>0, <2>1
  <2>2. CASE s = currentIdx
    <3>1. pos' = IF pos = j THEN 0 ELSE IF pos > j THEN pos - 1 ELSE pos
      BY <1>1, <1>3, <1>4, <2>2 DEF PlaceWithout
    <3>2. slots'[currentIdx] = rest /\ slots[currentIdx] = list
      BY <1>6, <2>2 DEF list
    <3>3. CASE pos = 0
      BY <1>5, <3>1, <3>3
    <3>4. CASE pos = j
      BY <1>5, <2>4, <3>1, <3>4
    <3>5. CASE pos # 0 /\ pos # j
      <4>1. pos \in 1..Len(list)
        BY <2>0, <3>2, <3>5
      <4>2. CASE pos < j
        BY <1>5, <1>7, <3>1, <3>2, <3>5, <4>1, <4>2
      <4>3. CASE pos > j
        BY <1>5, <1>7, <3>1, <3>2, <3>5, <4>1, <4>3
      <4>4. QED
        BY <1>2, <1>5, <3>5, <4>2, <4>3
    <3>6. QED
      BY <3>3, <3>4, <3>5
  <2>3. QED
    BY <2>1, <2>2
<1>10. WheelTypeOK'
  <2>1. age' \in [Tasks -> Ages]
    BY <1>1, <1>2, AgesTyped
  <2>2. slots' \in [Slots -> Seq(Tasks)] /\ timer' \in [Tasks -> Slots \cup {NoSlot}]
    <3>1. slots' = [slots EXCEPT ![s] = rest]
      BY <1>1, <1>3, <1>4 DEF rest, list
    <3>2. QED
      BY <1>1, <1>2, <1>5, <3>1
  <2>3. QED
    BY <1>1, <1>9, <2>1, <2>2 DEF WheelTypeOK, Ages
<1>11. AtPlace'
  <2>1. item = None => pos' = 0
    BY <1>9 DEF AtPlace
  <2>2. QED
    BY <1>1, <1>9, <2>1 DEF AtPlace
<1>12. QED
  BY <1>8, <1>10, <1>11

\* The end of a callback: the element of the walk is the one that stood behind.
LEMMA CallbackKeepsLoose ==
    ASSUME LooseInv, CallbackEnd
    PROVE  LooseInv'
<1> USE DEF LooseInv
<1> DEFINE rest == [slots EXCEPT ![currentIdx] = IF Unlinked THEN @ ELSE RemoveAt(@, pos)]
           index == [timer EXCEPT ![item] = NoSlot]
<1>1. /\ walk = "callback" /\ walk' = "walk"
      /\ UNCHANGED <<currentIdx, oldMs, clock, backs, readds>>
      /\ IF Unlinked \/ pos = Len(slots[currentIdx]) THEN item' = None /\ pos' = 0
         ELSE /\ item' = slots[currentIdx][pos + 1]
              /\ pos' = IF item \in Keyless THEN pos + 1 ELSE pos
      /\ IF item \in Keyless THEN UNCHANGED wheel
         ELSE IF item \in Repeated THEN Place(item, rest, index, Skipped)
         ELSE /\ slots' = rest /\ timer' = index
              /\ age' = [Skipped EXCEPT ![item] = Never] /\ UNCHANGED circle
  BY Zenon DEF CallbackEnd, AfterCallback
<1>2. /\ slots \in [Slots -> Seq(Tasks)] /\ timer \in [Tasks -> Slots \cup {NoSlot}]
      /\ age \in [Tasks -> Ages] /\ currentIdx \in Slots /\ pos \in Nat
      /\ item \in Tasks /\ item # None
  BY <1>1 DEF WheelTypeOK, Ages, AtPlace
<1> DEFINE list == slots[currentIdx]
<1>3. list \in Seq(Tasks) /\ Len(list) \in Nat
  BY <1>2
<1>4. ~Unlinked => pos \in 1..Len(list) /\ list[pos] = item
  BY <1>2 DEF Unlinked, AtPlace
<1>5. ASSUME ~Unlinked
      PROVE  /\ RemoveAt(list, pos) \in Seq(Tasks) /\ Len(RemoveAt(list, pos)) = Len(list) - 1
             /\ \A k \in 1..(pos - 1) : RemoveAt(list, pos)[k] = list[k]
             /\ \A k \in pos..(Len(list) - 1) : RemoveAt(list, pos)[k] = list[k + 1]
  <2> HIDE DEF list
  <2>1. pos \in 1..Len(list)
    BY <1>4, <1>5
  <2>2. QED
    BY <1>3, <2>1, RemovedAt
<1>6. rest \in [Slots -> Seq(Tasks)] /\ index \in [Tasks -> Slots \cup {NoSlot}]
  BY <1>2, <1>3, <1>5
<1>7. /\ rest[currentIdx] = IF Unlinked THEN list ELSE RemoveAt(list, pos)
      /\ \A i \in Slots \ {currentIdx} : rest[i] = slots[i]
      /\ index[item] = NoSlot /\ \A u \in Tasks \ {item} : index[u] = timer[u]
  BY <1>2
<1> HIDE DEF rest, index, list
<1>8. \A u \in Tasks : index[u] # NoSlot => Contains(rest[index[u]], u)
  <2> SUFFICES ASSUME NEW u \in Tasks, index[u] # NoSlot
               PROVE  Contains(rest[index[u]], u)
    OBVIOUS
  <2>1. u # item /\ index[u] = timer[u] /\ timer[u] \in Slots
    BY <1>2, <1>7
  <2>2. PICK k \in 1..Len(slots[timer[u]]) : slots[timer[u]][k] = u
    BY <2>1 DEF Named, Contains
  <2>3. CASE Unlinked \/ timer[u] # currentIdx
    BY <1>7, <2>1, <2>2, <2>3 DEF Contains, list
  <2>4. CASE ~Unlinked /\ timer[u] = currentIdx
    <3>1. k \in 1..Len(list) /\ list[k] = u /\ k # pos
      BY <1>4, <2>1, <2>2, <2>4 DEF list
    <3> DEFINE r == RemoveAt(list, pos)
    <3>2. /\ Len(r) = Len(list) - 1 /\ pos \in 1..Len(list)
          /\ \A j \in 1..(pos - 1) : r[j] = list[j]
          /\ \A j \in pos..(Len(list) - 1) : r[j] = list[j + 1]
      BY <1>4, <1>5, <2>4
    <3> HIDE DEF r
    <3>3. CASE k < pos
      <4>1. k \in 1..Len(r) /\ r[k] = u
        BY <1>3, <3>1, <3>2, <3>3
      <4>2. QED
        BY <1>7, <2>1, <2>4, <4>1 DEF Contains, r
    <3>4. CASE k > pos
      <4>1. k - 1 \in pos..(Len(list) - 1) /\ (k - 1) + 1 = k /\ k - 1 \in 1..Len(r)
        BY <1>3, <3>1, <3>2, <3>4
      <4>2. r[k - 1] = u
        BY <3>1, <3>2, <4>1
      <4>3. QED
        BY <1>7, <2>1, <2>4, <4>1, <4>2 DEF Contains, r
    <3>5. QED
      BY <3>1, <3>2, <3>3, <3>4
  <2>5. QED
    BY <2>3, <2>4
<1>9. /\ slots' \in [Slots -> Seq(Tasks)] /\ timer' \in [Tasks -> Slots \cup {NoSlot}]
      /\ circle' \in [Tasks -> Nat] /\ age' \in [Tasks -> Ages] /\ Named'
      /\ item \in Keyless => slots' = slots
      /\ item \notin Keyless =>
           \A p \in Nat : p \in 1..Len(rest[currentIdx]) =>
             p \in 1..Len(slots'[currentIdx]) /\ slots'[currentIdx][p] = rest[currentIdx][p]
  <2>1. CASE item \in Keyless
    BY <1>1, <1>2, <2>1 DEF wheel, Named, WheelTypeOK
  <2>2. CASE item \notin Keyless /\ item \in Repeated
    <3>1. Place(item, rest, index, Skipped) /\ Skipped \in [Tasks -> Ages]
      BY <1>1, <2>2, AgesTyped
    <3>2. QED
      BY <1>2, <1>6, <1>8, <2>2, <3>1, PutIn
  <2>3. CASE item \notin Keyless /\ item \notin Repeated
    <3>1. /\ slots' = rest /\ timer' = index /\ circle' = circle
          /\ age' = [Skipped EXCEPT ![item] = Never]
      BY <1>1, <2>3
    <3>2. age' \in [Tasks -> Ages]
      BY <1>2, <3>1, AgesTyped
    <3>3. circle \in [Tasks -> Nat]
      BY DEF WheelTypeOK
    <3>4. QED
      BY <1>6, <1>8, <2>3, <3>1, <3>2, <3>3 DEF Named
  <2>4. QED
    BY <2>1, <2>2, <2>3
<1>10. /\ item' \in Tasks \cup {None} /\ pos' \in Nat
       /\ item' = None <=> pos' = 0
       /\ pos' # 0 => pos' \in 1..Len(slots'[currentIdx]) /\ slots'[currentIdx][pos'] = item'
  <2>1. CASE Unlinked \/ pos = Len(list)
    BY <1>1, <2>1 DEF list
  <2>2. CASE ~(Unlinked \/ pos = Len(list))
    <3>1. /\ item' = list[pos + 1] /\ pos' = IF item \in Keyless THEN pos + 1 ELSE pos
          /\ pos \in 1..(Len(list) - 1) /\ pos + 1 \in 1..Len(list)
      BY <1>1, <1>3, <1>4, <2>2 DEF list
    <3>2. item' \in Tasks /\ item' # None /\ pos' # 0 /\ pos' \in Nat
      BY <1>3, <3>1, WheelAssumption
    <3>3. CASE item \in Keyless
      BY <1>9, <3>1, <3>2, <3>3 DEF list
    <3>4. CASE item \notin Keyless
      <4>1. /\ rest[currentIdx] = RemoveAt(list, pos) /\ pos \in 1..Len(rest[currentIdx])
            /\ rest[currentIdx][pos] = list[pos + 1]
        BY <1>3, <1>5, <1>7, <2>2, <3>1
      <4>2. QED
        BY <1>2, <1>9, <3>1, <3>2, <3>4, <4>1
    <3>5. QED
      BY <3>3, <3>4
  <2>3. QED
    BY <2>1, <2>2
<1>11. WheelTypeOK'
  BY <1>1, <1>9, <1>10 DEF WheelTypeOK, Ages
<1>12. AtPlace'
  BY <1>1, <1>10 DEF AtPlace, Unlinked
<1>13. QED
  BY <1>9, <1>11, <1>12

\* The element the walk goes to stands at its place.
LEMMA WalksTo ==
    ASSUME NEW list \in Seq(Tasks), NEW k \in Nat \ {0}, WalkTo(list, k)
    PROVE  /\ item' \in Tasks \cup {None} /\ pos' \in Nat
           /\ item' = None <=> pos' = 0
           /\ pos' # 0 => pos' \in 1..Len(list) /\ list[pos'] = item'
  BY WheelAssumption DEF WalkTo

\* The steps of Update but for the end of a callback.
LEMMA RunningKeepsLoose ==
    ASSUME LooseInv, LoopTurn \/ LoopReturn \/ WalkCircle \/ WalkFire \/ WalkEnd
    PROVE  LooseInv'
<1> USE WheelAssumption DEF LooseInv
<1>1. currentIdx \in Slots /\ slots[currentIdx] \in Seq(Tasks) /\ pos \in Nat
  BY DEF WheelTypeOK
<1>2. CASE LoopTurn
  <2>1. age' \in [Tasks -> Ages]
    BY <1>2, AgesTyped DEF LoopTurn
  <2>2. /\ item' \in Tasks \cup {None} /\ pos' \in Nat
        /\ item' = None <=> pos' = 0
        /\ pos' # 0 => pos' \in 1..Len(slots[currentIdx]) /\ slots[currentIdx][pos'] = item'
    <3>1. WalkTo(slots[currentIdx], 1) /\ 1 \in Nat \ {0}
      BY <1>2 DEF LoopTurn
    <3>2. QED
      BY <1>1, <3>1, WalksTo
  <2>3. oldMs' \in 0..MaxTime
    BY <1>2 DEF LoopTurn, From, WheelTypeOK
  <2>4. WheelTypeOK'
    BY <1>2, <2>1, <2>2, <2>3 DEF LoopTurn, WheelTypeOK, Ages
  <2>5. AtPlace'
    BY <1>2, <2>2 DEF LoopTurn, AtPlace, Unlinked
  <2>6. QED
    BY <1>2, <2>4, <2>5 DEF LoopTurn, Named
<1>3. CASE LoopReturn
  BY <1>3 DEF LoopReturn, From, wheel, WheelTypeOK, AtPlace, Named, Unlinked
<1>4. CASE WalkCircle
  <2>1. /\ item' \in Tasks \cup {None} /\ pos' \in Nat
        /\ item' = None <=> pos' = 0
        /\ pos' # 0 => pos' \in 1..Len(slots[currentIdx]) /\ slots[currentIdx][pos'] = item'
    BY <1>1, <1>4, WalksTo DEF WalkCircle
  <2>2. circle' \in [Tasks -> Nat]
    BY <1>4 DEF WalkCircle, WheelTypeOK
  <2>3. WheelTypeOK'
    BY <1>4, <2>1, <2>2 DEF WalkCircle, WheelTypeOK
  <2>4. AtPlace'
    BY <1>4, <2>1 DEF WalkCircle, AtPlace, Unlinked
  <2>5. QED
    BY <1>4, <2>3, <2>4 DEF WalkCircle, Named
<1>5. CASE WalkFire
  BY <1>5 DEF WalkFire, wheel, WheelTypeOK, AtPlace, Named, Unlinked
<1>6. CASE WalkEnd
  <2>1. currentIdx' \in Slots
    BY <1>1, <1>6 DEF WalkEnd, Slots
  <2>2. pos = 0
    BY <1>6 DEF WalkEnd, AtPlace
  <2>3. QED
    BY <1>6, <2>1, <2>2 DEF WalkEnd, wheel, WheelTypeOK, AtPlace, Named, Unlinked
<1>7. QED
  BY <1>2, <1>3, <1>4, <1>5, <1>6

\* The steps between two calls of Update.
LEMMA CallKeepsLoose ==
    ASSUME LooseInv, Tick \/ SetBack \/ UpdateFirst \/ UpdateCall \/ UNCHANGED wheelvars
    PROVE  LooseInv'
<1> USE WheelAssumption DEF LooseInv, wheel
<1>1. CASE Tick
  <2>1. age' \in [Tasks -> Ages]
    BY <1>1, AgesTyped DEF Tick
  <2>2. WheelTypeOK'
    BY <1>1, <2>1 DEF Tick, WheelTypeOK, Ages
  <2>3. QED
    BY <1>1, <2>2 DEF Tick, AtPlace, Named, Unlinked
<1>2. CASE SetBack
  BY <1>2 DEF SetBack, WheelTypeOK, AtPlace, Named, Unlinked
<1>3. CASE UpdateFirst
  BY <1>3 DEF UpdateFirst, WheelTypeOK, AtPlace, Named, Unlinked
<1>4. CASE UpdateCall
  BY <1>4 DEF UpdateCall, WheelTypeOK, AtPlace, Named, Unlinked
<1>5. CASE UNCHANGED wheelvars
  BY <1>5 DEF wheelvars, WheelTypeOK, AtPlace, Named, Unlinked
<1>6. QED
  BY <1>1, <1>2, <1>3, <1>4, <1>5

\* As long as no callback puts in its own task after taking it out, AddTask is
\* of a task that is not the one that was taken out of the walk.
LEMMA AddTaskIs ==
    ASSUME IndexInv, NEW t \in Tasks, AddTask(t), readds' = 0
    PROVE  /\ MayCall /\ ~(t = item /\ Unlinked) /\ (t \in Keyless => ~InWheel(t))
           /\ Place(t, slots, timer, age)
           /\ UNCHANGED <<currentIdx, oldMs, clock, backs, walk, item, Unlinked>>
<1>1. readds \in Nat
  BY WheelAssumption DEF IndexInv, WheelTypeOK
<1>2. ~(t = item /\ Unlinked)
  BY <1>1 DEF AddTask
<1>3. Unlinked' = Unlinked
  BY DEF AddTask, Unlinked
<1>4. QED
  BY <1>2, <1>3 DEF AddTask

\* Where no key stands twice RemoveTask takes the walk's element away exactly
\* if it is of its key.
LEMMA RemoveTaskIs ==
    ASSUME IndexInv, NEW t \in Tasks, RemoveTask(t)
    PROVE  /\ MayCall /\ timer[t] # NoSlot
           /\ slots' = [slots EXCEPT ![timer[t]] = RemoveFirst(@, t)]
           /\ timer' = [timer EXCEPT ![t] = NoSlot]
           /\ age' = [age EXCEPT ![t] = Never]
           /\ Unlinked' = (Unlinked \/ t = item)
           /\ UNCHANGED <<circle, currentIdx, oldMs, clock, backs, walk, item>>
<1> USE DEF IndexInv
<1>1. /\ currentIdx \in Slots /\ slots[currentIdx] \in Seq(Tasks)
      /\ NoRepeat(slots[currentIdx]) /\ pos \in Nat /\ t # None
  BY WheelAssumption DEF WheelTypeOK, ListsOK
<1>2. /\ timer[t] # NoSlot /\ Contains(slots[timer[t]], t)
      /\ pos' = IF timer[t] # currentIdx THEN pos ELSE PlaceWithout(t)
      /\ item' = item
  BY DEF RemoveTask
<1>3. t \in Keyed
  BY <1>2 DEF MapOK, Keyed
<1>4. Unlinked' = (Unlinked \/ t = item)
  <2>1. CASE pos = 0
    <3>1. pos' = 0 \/ timer[t] = currentIdx
      BY <1>2, <2>1
    <3>2. timer[t] = currentIdx => FirstAt(slots[currentIdx], t) \in 1..Len(slots[currentIdx])
      BY <1>1, <1>2, FirstAtIs
    <3>3. pos' = 0
      BY <1>1, <1>2, <2>1, <3>1, <3>2 DEF PlaceWithout
    <3>4. t = item => Unlinked
      BY <1>1, <2>1 DEF Unlinked
    <3>5. QED
      BY <1>1, <1>2, <2>1, <3>3, <3>4 DEF Unlinked
  <2>2. CASE pos # 0
    <3>1. pos \in 1..Len(slots[currentIdx]) /\ slots[currentIdx][pos] = item /\ item # None
      BY <2>2 DEF AtPlace
    <3>2. FirstAt(slots[currentIdx], item) = pos /\ Contains(slots[currentIdx], item)
      <4>1. PICK p \in 1..Len(slots[currentIdx]) : p = pos
        BY <3>1
      <4>2. QED
        BY <1>1, <3>1, <4>1, ByPlace
    <3>3. CASE t = item
      <4>1. timer[t] = currentIdx
        BY <1>1, <1>3, <3>2, <3>3 DEF MapOK
      <4>2. pos' = 0
        BY <1>2, <3>2, <3>3, <4>1 DEF PlaceWithout
      <4>3. QED
        BY <1>2, <3>1, <3>3, <4>2 DEF Unlinked
    <3>4. CASE t # item
      <4>1. pos' # 0
        <5>1. CASE timer[t] # currentIdx
          BY <1>2, <2>2, <5>1
        <5>2. CASE timer[t] = currentIdx
          <6>1. /\ FirstAt(slots[currentIdx], t) \in 1..Len(slots[currentIdx])
                /\ slots[currentIdx][FirstAt(slots[currentIdx], t)] = t
            BY <1>1, <1>2, <5>2, FirstAtIs
          <6>2. pos # FirstAt(slots[currentIdx], t)
            BY <3>1, <3>4, <6>1
          <6>3. QED
            BY <1>1, <1>2, <2>2, <5>2, <6>1, <6>2 DEF PlaceWithout
        <5>3. QED
          BY <5>1, <5>2
      <4>2. QED
        BY <1>2, <2>2, <3>4, <4>1 DEF Unlinked
    <3>5. QED
      BY <3>3, <3>4
  <2>3. QED
    BY <2>1, <2>2
<1>5. QED
  BY <1>2, <1>4 DEF RemoveTask

\* The walk begins with the first element of the slot.
LEMMA LoopTurnIs ==
    ASSUME IndexInv, LoopTurn
    PROVE  item' = FirstOf(slots[currentIdx]) /\ ~Unlinked /\ ~Unlinked'
<1>1. slots[currentIdx] \in Seq(Tasks) /\ WalkTo(slots[currentIdx], 1) /\ item = None
  BY DEF IndexInv, WheelTypeOK, LoopTurn, Walking
<1>2. QED
  BY <1>1 DEF WalkTo, FirstOf, Unlinked

\* It goes on with the next one.
LEMMA WalkCircleIs ==
    ASSUME IndexInv, WalkCircle
    PROVE  item' = NextOf(slots[currentIdx], item) /\ ~Unlinked /\ ~Unlinked'
<1> USE DEF IndexInv
<1>1. /\ slots[currentIdx] \in Seq(Tasks) /\ NoRepeat(slots[currentIdx])
      /\ WalkTo(slots[currentIdx], pos + 1) /\ item # None /\ walk = "walk"
  BY DEF WheelTypeOK, ListsOK, WalkCircle
<1>2. ~Unlinked
  BY <1>1 DEF AtPlace
<1>3. PICK p \in 1..Len(slots[currentIdx]) : p = pos /\ slots[currentIdx][p] = item
  BY <1>1, <1>2 DEF Unlinked, AtPlace, WheelTypeOK
<1>4. NextOf(slots[currentIdx], item) =
        IF p < Len(slots[currentIdx]) THEN slots[currentIdx][p + 1] ELSE None
  BY <1>1, <1>3, ByPlace
<1>5. item' = NextOf(slots[currentIdx], item) /\ ~Unlinked'
  BY <1>1, <1>3, <1>4 DEF WalkTo, Unlinked
<1>6. QED
  BY <1>2, <1>5

\* AddTask.
LEMMA AddTaskKeepsIndex ==
    ASSUME IndexInv, LooseInv', NEW t \in Tasks, AddTask(t), readds' = 0
    PROVE  IndexInv'
<1> USE DEF IndexInv, LooseInv
<1>1. /\ MayCall /\ ~(t = item /\ Unlinked) /\ (t \in Keyless => ~InWheel(t))
      /\ Place(t, slots, timer, age)
      /\ UNCHANGED <<currentIdx, oldMs, clock, backs, walk, item, Unlinked>>
  BY AddTaskIs
<1>2. CASE timer[t] # NoSlot
  <2>1. UNCHANGED wheel
    BY <1>1, <1>2 DEF Place, wheel
  <2>2. QED
    BY <1>1, <2>1 DEF Walking, wheel
<1>3. CASE timer[t] = NoSlot
  <2>1. \A i \in Slots : ~Contains(slots[i], t)
    <3>1. NoSlot \notin Slots
      BY WheelAssumption DEF NoSlot, Slots
    <3>2. QED
      BY <1>1, <1>3, <3>1 DEF MapOK, Keyed, InWheel
  <2>2. /\ ListsOK(slots') /\ MapOK(slots', timer')
        /\ \A i \in Slots : slots'[i] = IF i = IdxOf(t) THEN Append(slots[i], t) ELSE slots[i]
        /\ \A u \in Tasks \ {t} : timer'[u] = timer[u]
        /\ circle' = [circle EXCEPT ![t] = CircleOf(t)]
        /\ age' = [age EXCEPT ![t] = Born(t)]
    BY <1>1, <1>3, <2>1, Placed
  <2>4. \A u \in Tasks : Contains(slots[currentIdx], u) => Contains(slots'[currentIdx], u)
    <3>1. currentIdx \in Slots
      BY DEF WheelTypeOK
    <3>2. slots[currentIdx] \in Seq(Tasks) /\ NoRepeat(slots[currentIdx])
      BY <3>1 DEF ListsOK
    <3>3. QED
      BY <2>1, <2>2, <3>1, <3>2, Appended
  <2>5. Walking'
    <3>1. item \in Tasks \cup {None} /\ Unlinked \in BOOLEAN
      BY DEF WheelTypeOK, Unlinked
    <3>2. walk = "callback" => item # t \/ ~Unlinked
      BY <1>1
    <3>3. QED
      BY <1>1, <2>2, <2>4, <3>1, <3>2 DEF Walking, MayCall
  <2>6. QED
    BY <2>2, <2>5
<1>4. QED
  BY <1>2, <1>3

\* RemoveTask: the task it unlinks may be the one whose callback runs.
LEMMA RemoveTaskKeepsIndex ==
    ASSUME IndexInv, LooseInv', NEW t \in Tasks, RemoveTask(t)
    PROVE  IndexInv'
<1> USE DEF IndexInv, LooseInv
<1>1. /\ MayCall /\ timer[t] # NoSlot
      /\ slots' = [slots EXCEPT ![timer[t]] = RemoveFirst(@, t)]
      /\ timer' = [timer EXCEPT ![t] = NoSlot]
      /\ age' = [age EXCEPT ![t] = Never]
      /\ Unlinked' = (Unlinked \/ t = item)
      /\ UNCHANGED <<circle, currentIdx, oldMs, clock, backs, walk, item>>
  BY RemoveTaskIs
<1>2. t \in Keyed /\ timer[t] \in Slots
  BY <1>1 DEF MapOK, Keyed
<1>3. /\ ListsOK(slots') /\ MapOK(slots', timer') /\ timer'[t] = NoSlot
      /\ \A i \in Slots, u \in Tasks \ {t} : Contains(slots'[i], u) <=> Contains(slots[i], u)
      /\ \A u \in Tasks \ {t} : timer'[u] = timer[u]
  <2>1. PICK s \in Slots : s = timer[t]
    BY <1>2
  <2>2. TakesOut(t, s, slots', timer')
    BY <1>1, <2>1 DEF TakesOut
  <2>3. QED
    BY <1>2, <2>2, TakenOut
<1>4. Walking'
  <2>1. currentIdx \in Slots /\ item \in Tasks \cup {None} /\ Unlinked \in BOOLEAN
    BY DEF WheelTypeOK, Unlinked
  <2>2. CASE walk = "idle"
    <3>1. item = None /\ ~Unlinked /\ t # item
      BY <2>2, WheelAssumption DEF Walking
    <3>2. QED
      BY <1>1, <2>2, <3>1 DEF Walking
  <2>3. CASE walk = "callback"
    <3>1. item # None /\ IF Unlinked THEN item \in Keyed /\ timer[item] = NoSlot
                         ELSE Contains(slots[currentIdx], item)
      BY <2>3 DEF Walking
    <3>2. CASE t = item
      BY <1>1, <1>2, <1>3, <2>3, <3>1, <3>2 DEF Walking
    <3>3. CASE t # item
      <4>1. Unlinked' = Unlinked
        BY <1>1, <2>1, <3>3
      <4>2. QED
        BY <1>1, <1>3, <2>1, <2>3, <3>1, <3>3, <4>1 DEF Walking
    <3>4. QED
      BY <3>2, <3>3
  <2>4. QED
    BY <1>1, <2>2, <2>3 DEF MayCall
<1>5. QED
  BY <1>3, <1>4

\* What a callback leaves when it returns: a task without a key stays where it
\* is, one with a key is taken out, and put in again if it repeats.
LEMMA CallbackLeaves ==
    ASSUME IndexInv, CallbackEnd
    PROVE  /\ item \in Tasks /\ currentIdx \in Slots
           /\ walk = "callback" /\ walk' = "walk" /\ Unlinked' = FALSE
           /\ item' = IF Unlinked THEN None ELSE NextOf(slots[currentIdx], item)
           /\ UNCHANGED <<currentIdx, oldMs, clock, backs>>
           /\ \/ item \in Keyless /\ ~Unlinked /\ UNCHANGED wheel
              \/ /\ item \in Keyed
                 /\ \E lists, index :
                      /\ TakesOut(item, currentIdx, lists, index)
                      /\ \/ Place(item, lists, index, Skipped)
                         \/ /\ slots' = lists /\ timer' = index /\ circle' = circle
                            /\ age' = [Skipped EXCEPT ![item] = Never]
<1> USE DEF IndexInv
<1> DEFINE lists == [slots EXCEPT ![currentIdx] = IF Unlinked THEN @ ELSE RemoveFirst(@, item)]
           index == [timer EXCEPT ![item] = NoSlot]
<1>1. /\ walk = "callback" /\ walk' = "walk" /\ Unlinked' = FALSE
      /\ item' = IF Unlinked THEN None ELSE NextOf(slots[currentIdx], item)
      /\ UNCHANGED <<currentIdx, oldMs, clock, backs>>
      /\ IF item \in Keyless THEN UNCHANGED wheel
         ELSE IF item \in Repeated THEN Place(item, lists, index, Skipped)
         ELSE /\ slots' = lists /\ timer' = index
              /\ age' = [Skipped EXCEPT ![item] = Never] /\ UNCHANGED circle
  <2> DEFINE rest == [slots EXCEPT ![currentIdx] = IF Unlinked THEN @ ELSE RemoveAt(@, pos)]
  <2>1. /\ walk = "callback" /\ walk' = "walk"
        /\ UNCHANGED <<currentIdx, oldMs, clock, backs>>
        /\ IF Unlinked \/ pos = Len(slots[currentIdx]) THEN item' = None /\ pos' = 0
           ELSE /\ item' = slots[currentIdx][pos + 1]
                /\ pos' = IF item \in Keyless THEN pos + 1 ELSE pos
        /\ IF item \in Keyless THEN UNCHANGED wheel
           ELSE IF item \in Repeated THEN Place(item, rest, index, Skipped)
           ELSE /\ slots' = rest /\ timer' = index
                /\ age' = [Skipped EXCEPT ![item] = Never] /\ UNCHANGED circle
    BY Zenon DEF CallbackEnd, AfterCallback
  <2>2. /\ slots \in [Slots -> Seq(Tasks)] /\ currentIdx \in Slots /\ pos \in Nat
        /\ slots[currentIdx] \in Seq(Tasks) /\ NoRepeat(slots[currentIdx]) /\ item # None
    BY <2>1 DEF WheelTypeOK, ListsOK, Walking
  <2>3. CASE Unlinked
    <3>1. rest = lists
      BY <2>3
    <3>2. item' = None /\ pos' = 0
      BY <2>1, <2>3
    <3> HIDE DEF rest, lists, index
    <3>3. Unlinked' = FALSE
      BY <3>2 DEF Unlinked
    <3>4. QED
      BY <2>1, <2>3, <3>1, <3>2, <3>3
  <2>4. CASE ~Unlinked
    <3>1. PICK p \in 1..Len(slots[currentIdx]) : p = pos /\ slots[currentIdx][p] = item
      BY <2>2, <2>4 DEF Unlinked, AtPlace
    <3>2. /\ RemoveFirst(slots[currentIdx], item) = RemoveAt(slots[currentIdx], pos)
          /\ NextOf(slots[currentIdx], item) =
               IF p < Len(slots[currentIdx]) THEN slots[currentIdx][p + 1] ELSE None
      BY <2>2, <3>1, ByPlace
    <3>3. rest = lists
      BY <2>4, <3>2
    <3> HIDE DEF rest, lists, index
    <3>4. item' = NextOf(slots[currentIdx], item)
      BY <2>1, <2>2, <2>4, <3>1, <3>2
    <3>5. Unlinked' = FALSE
      BY <2>1, <2>2, <2>4, <3>1 DEF Unlinked
    <3>6. QED
      BY <2>1, <2>4, <3>3, <3>4, <3>5
  <2>5. QED
    BY <2>3, <2>4
<1>2. /\ item \in Tasks /\ currentIdx \in Slots /\ slots \in [Slots -> Seq(Tasks)]
      /\ IF Unlinked THEN item \in Keyed /\ timer[item] = NoSlot
         ELSE Contains(slots[currentIdx], item)
  BY <1>1 DEF Walking, WheelTypeOK
<1>3. ASSUME item \in Keyed
      PROVE  TakesOut(item, currentIdx, lists, index)
  <2>1. CASE Unlinked
    <3>1. lists = slots /\ timer[item] = NoSlot
      BY <1>2, <2>1
    <3>2. QED
      BY <3>1 DEF TakesOut
  <2>2. CASE ~Unlinked
    <3>1. lists = [slots EXCEPT ![currentIdx] = RemoveFirst(@, item)]
      BY <2>2
    <3>2. timer[item] = currentIdx
      BY <1>2, <1>3, <2>2 DEF MapOK
    <3>3. QED
      BY <3>1, <3>2 DEF TakesOut
  <2>3. QED
    BY <2>1, <2>2
<1> HIDE DEF lists, index
<1>4. CASE item \in Keyless
  <2>1. ~Unlinked /\ UNCHANGED wheel
    BY <1>1, <1>2, <1>4 DEF Keyed
  <2>2. QED
    BY <1>1, <1>2, <1>4, <2>1
<1>5. CASE item \notin Keyless
  <2>1. item \in Keyed
    BY <1>2, <1>5 DEF Keyed
  <2>2. /\ TakesOut(item, currentIdx, lists, index)
        /\ \/ Place(item, lists, index, Skipped)
           \/ /\ slots' = lists /\ timer' = index /\ circle' = circle
              /\ age' = [Skipped EXCEPT ![item] = Never]
    BY <1>1, <1>3, <1>5, <2>1
  <2>3. QED
    BY <1>1, <1>2, <2>1, <2>2
<1>6. QED
  BY <1>4, <1>5

\* The end of a callback.
LEMMA CallbackKeepsIndex ==
    ASSUME IndexInv, LooseInv', CallbackEnd
    PROVE  IndexInv'
<1> USE DEF IndexInv, LooseInv
<1>1. /\ item \in Tasks /\ currentIdx \in Slots
      /\ walk = "callback" /\ walk' = "walk" /\ Unlinked' = FALSE
      /\ item' = IF Unlinked THEN None ELSE NextOf(slots[currentIdx], item)
      /\ UNCHANGED <<currentIdx, oldMs, clock, backs>>
  BY CallbackLeaves
<1>2. /\ item' \in Tasks \cup {None} /\ item' # item
      /\ item' # None => ~Unlinked /\ Contains(slots[currentIdx], item')
  <2>1. CASE Unlinked
    BY <1>1, <2>1, WheelAssumption
  <2>2. CASE ~Unlinked
    <3>1. /\ slots[currentIdx] \in Seq(Tasks) /\ NoRepeat(slots[currentIdx])
          /\ Contains(slots[currentIdx], item)
      BY <1>1, <2>2 DEF ListsOK, Walking
    <3>2. QED
      BY <1>1, <2>2, <3>1, NextIs
  <2>3. QED
    BY <2>1, <2>2
<1>3. CASE item \in Keyless /\ ~Unlinked /\ UNCHANGED wheel
  <2>1. Walking'
    BY <1>1, <1>2, <1>3 DEF Walking, wheel
  <2>2. QED
    BY <1>3, <2>1 DEF wheel
<1>4. ASSUME item \in Keyed, NEW lists, NEW index, TakesOut(item, currentIdx, lists, index),
             \/ Place(item, lists, index, Skipped)
             \/ /\ slots' = lists /\ timer' = index /\ circle' = circle
                /\ age' = [Skipped EXCEPT ![item] = Never]
      PROVE  IndexInv'
  <2>1. /\ ListsOK(lists) /\ MapOK(lists, index) /\ index[item] = NoSlot
        /\ \A i \in Slots : ~Contains(lists[i], item)
        /\ \A i \in Slots, u \in Tasks \ {item} :
             Contains(lists[i], u) <=> Contains(slots[i], u)
    BY <1>1, <1>4, TakenOut
  <2>2. item' # None => Contains(lists[currentIdx], item')
    BY <1>1, <1>2, <2>1
  <2>3. CASE Place(item, lists, index, Skipped)
    <3>1. /\ ListsOK(slots') /\ MapOK(slots', timer')
          /\ \A i \in Slots :
               slots'[i] = IF i = IdxOf(item) THEN Append(lists[i], item) ELSE lists[i]
          /\ circle' = [circle EXCEPT ![item] = CircleOf(item)]
          /\ age' = [Skipped EXCEPT ![item] = Born(item)]
      BY <1>1, <2>1, <2>3, Placed
    <3>2. item' # None => Contains(slots'[currentIdx], item')
      <4>1. lists[currentIdx] \in Seq(Tasks) /\ NoRepeat(lists[currentIdx])
        BY <1>1, <2>1 DEF ListsOK
      <4>2. QED
        BY <1>1, <1>2, <2>1, <2>2, <3>1, <4>1, Appended
    <3>3. QED
      BY <1>1, <3>1, <3>2 DEF Walking
  <2>4. CASE /\ slots' = lists /\ timer' = index /\ circle' = circle
             /\ age' = [Skipped EXCEPT ![item] = Never]
    BY <1>1, <2>1, <2>2, <2>4 DEF Walking
  <2>5. QED
    BY <1>4, <2>3, <2>4
<1>5. QED
  BY <1>3, <1>4, CallbackLeaves

\* The other steps leave lists and map alone.
LEMMA TurnKeepsIndex ==
    ASSUME IndexInv, LooseInv', Tick \/ LoopTurn
    PROVE  IndexInv'
<1> USE WheelAssumption DEF IndexInv, LooseInv
<1>1. CASE Tick
  BY <1>1 DEF Tick, Walking, Unlinked
<1>2. CASE LoopTurn
  <2>1. slots[currentIdx] \in Seq(Tasks)
    BY DEF WheelTypeOK
  <2>2. item' # None => Contains(slots[currentIdx], item')
    BY <1>2, <2>1, FirstIs, LoopTurnIs
  <2>3. Walking'
    BY <1>2, <2>2, LoopTurnIs DEF LoopTurn, Walking
  <2>4. QED
    BY <1>2, <2>3 DEF LoopTurn
<1>3. QED
  BY <1>1, <1>2

\* The walk, but for its callbacks.
LEMMA WalkKeepsIndex ==
    ASSUME IndexInv, LooseInv', WalkCircle \/ WalkFire \/ WalkEnd
    PROVE  IndexInv'
<1> USE WheelAssumption DEF IndexInv, LooseInv
<1>1. currentIdx \in Slots /\ slots[currentIdx] \in Seq(Tasks) /\ NoRepeat(slots[currentIdx])
  BY DEF WheelTypeOK, ListsOK
<1>2. CASE WalkCircle
  <2>1. item \in Tasks /\ Contains(slots[currentIdx], item)
    BY <1>2 DEF WalkCircle, Walking, WheelTypeOK
  <2>2. item' # None => Contains(slots[currentIdx], item')
    BY <1>1, <1>2, <2>1, NextIs, WalkCircleIs
  <2>3. QED
    BY <1>2, <2>2, WalkCircleIs DEF WalkCircle, Walking
<1>3. CASE WalkFire
  <2>1. Unlinked' = Unlinked
    BY <1>3 DEF WalkFire, Unlinked
  <2>2. QED
    BY <1>3, <2>1 DEF WalkFire, wheel, Walking
<1>4. CASE WalkEnd
  <2>1. Unlinked' = Unlinked
    BY <1>4 DEF WalkEnd, Unlinked
  <2>2. QED
    BY <1>4, <2>1 DEF WalkEnd, wheel, Walking
<1>5. QED
  BY <1>2, <1>3, <1>4

\* The steps between two walks that are not a turn.
LEMMA CallKeepsIndex ==
    ASSUME IndexInv, LooseInv',
           SetBack \/ UpdateFirst \/ UpdateCall \/ LoopReturn \/ UNCHANGED wheelvars
    PROVE  IndexInv'
<1> USE DEF IndexInv, LooseInv
<1>1. UNCHANGED <<slots, timer, currentIdx, item, Unlinked>>
  BY DEF SetBack, UpdateFirst, UpdateCall, LoopReturn, wheelvars, wheel, Unlinked
<1>2. \/ walk \in {"idle", "loop"} /\ walk' \in {"idle", "loop"}
      \/ walk' = walk
  BY DEF SetBack, UpdateFirst, UpdateCall, LoopReturn, wheelvars
<1>3. Walking'
  BY <1>1, <1>2 DEF Walking
<1>4. QED
  BY <1>1, <1>3

\* Every step of the wheel is one of these.
LEMMA WheelSteps ==
    ASSUME [WheelNext]_wheelvars
    PROVE  \/ Tick \/ LoopTurn \/ WalkCircle \/ WalkFire \/ WalkEnd \/ CallbackEnd
           \/ SetBack \/ UpdateFirst \/ UpdateCall \/ LoopReturn \/ UNCHANGED wheelvars
           \/ \E t \in Tasks : AddTask(t) \/ RemoveTask(t)
  BY DEF WheelNext, Running

\* The wheel starts empty.
LEMMA StartIsWell ==
    ASSUME WheelInit
    PROVE  IndexInv /\ Named
<1> USE WheelAssumption DEF WheelInit
<1>1. age \in [Tasks -> Ages]
  BY DEF Never, Ages
<1>2. WheelTypeOK
  <2>1. << >> \in Seq(Tasks)
    OBVIOUS
  <2>2. slots \in [Slots -> Seq(Tasks)]
    BY <2>1
  <2>3. timer \in [Tasks -> Slots \cup {NoSlot}] /\ circle \in [Tasks -> Nat] /\ 0 \in Slots
    BY DEF Slots
  <2>4. QED
    BY <1>1, <2>2, <2>3 DEF WheelTypeOK, Ages
<1>3. \A i \in Slots : NoRepeat(slots[i]) /\ \A t : ~Contains(slots[i], t)
  BY DEF NoRepeat, Contains
<1>4. ListsOK(slots)
  BY <1>2, <1>3 DEF ListsOK, WheelTypeOK
<1>5. MapOK(slots, timer)
  <2>1. NoSlot \notin Slots
    BY DEF NoSlot, Slots
  <2>2. QED
    BY <1>2, <1>3, <2>1 DEF MapOK, Keyed, WheelTypeOK
<1>6. AtPlace /\ Walking /\ Named
  BY DEF AtPlace, Walking, Named, Unlinked
<1>7. QED
  BY <1>2, <1>4, <1>5, <1>6 DEF IndexInv

\* LooseInv holds at every step of Update, and whatever its callbacks add and
\* remove.
LEMMA AlwaysLooseInv ==
    WheelSpec => []LooseInv
<1>1. WheelInit => LooseInv
  BY StartIsWell DEF IndexInv, LooseInv
<1>2. LooseInv /\ [WheelNext]_wheelvars => LooseInv'
  BY WheelSteps, AddTaskKeepsLoose, RemoveTaskKeepsLoose, CallbackKeepsLoose,
     RunningKeepsLoose, CallKeepsLoose
<1>3. QED
  BY <1>1, <1>2, PTL DEF WheelSpec

\* A callback that put in its own task again stays counted.
LEMMA ReaddsStay ==
    ASSUME WheelTypeOK, [WheelNext]_wheelvars, readds' = 0
    PROVE  readds = 0
<1>1. readds \in Nat
  BY WheelAssumption DEF WheelTypeOK
<1>2. ASSUME NEW t \in Tasks, AddTask(t)
      PROVE  readds = 0
  BY <1>1, <1>2 DEF AddTask
<1>3. ASSUME NEW t \in Tasks, RemoveTask(t)
      PROVE  readds = 0
  BY <1>3 DEF RemoveTask
<1>4. QED
  BY <1>2, <1>3, WheelSteps DEF Tick, LoopTurn, WalkCircle, WalkFire, WalkEnd, CallbackEnd,
     SetBack, UpdateFirst, UpdateCall, LoopReturn, wheelvars

\* Until a callback first puts in its own task after taking it out.
Regular == readds = 0 => IndexInv

\* Then IndexInv holds at every step of Update, and whatever else callbacks add
\* and remove.
LEMMA AlwaysIndexInv ==
    WheelSpec => []Regular
<1>1. WheelInit => Regular
  BY StartIsWell DEF Regular
<1>2. LooseInv /\ LooseInv' /\ Regular /\ [WheelNext]_wheelvars => Regular'
  <2> SUFFICES ASSUME LooseInv, LooseInv', Regular, [WheelNext]_wheelvars, readds' = 0
               PROVE  IndexInv'
    BY DEF Regular
  <2>1. IndexInv
    BY ReaddsStay DEF LooseInv, Regular
  <2>2. QED
    BY <2>1, WheelSteps, AddTaskKeepsIndex, RemoveTaskKeepsIndex, CallbackKeepsIndex,
       TurnKeepsIndex, WalkKeepsIndex, CallKeepsIndex
<1>3. QED
  BY <1>1, <1>2, AlwaysLooseInv, PTL DEF WheelSpec

\* A key in the map stands in the slot the map names, whatever callbacks do; and
\* until a callback first puts in its own task after taking it out, it stands
\* there once, and no other key stands anywhere: for any tasks, delays, intervals
\* and number of slots, at every step of the walk.
THEOREM WheelIndexAgrees ==
    WheelSpec => []IndexAgrees
<1>1. IndexInv =>
        \A t \in Tasks \ Keyless, i \in Slots :
          Cardinality({j \in 1..Len(slots[i]) : slots[i][j] = t})
            = IF timer[t] = i THEN 1 ELSE 0
  <2> SUFFICES ASSUME IndexInv, NEW t \in Keyed, NEW i \in Slots
               PROVE  Cardinality({j \in 1..Len(slots[i]) : slots[i][j] = t})
                        = IF timer[t] = i THEN 1 ELSE 0
    BY DEF Keyed
  <2> DEFINE P == {j \in 1..Len(slots[i]) : slots[i][j] = t}
  <2>1. Contains(slots[i], t) <=> timer[t] = i
    BY DEF IndexInv, MapOK
  <2>2. CASE timer[t] = i
    <3>1. PICK j \in 1..Len(slots[i]) : slots[i][j] = t
      BY <2>1, <2>2 DEF Contains
    <3>2. P = {j}
      BY <3>1 DEF IndexInv, ListsOK, NoRepeat
    <3>3. QED
      BY <2>2, <3>2, FS_Singleton
  <2>3. CASE timer[t] # i
    <3>1. P = {}
      BY <2>1, <2>3 DEF Contains
    <3>2. QED
      BY <2>3, <3>1, FS_EmptySet
  <2>4. QED
    BY <2>2, <2>3
<1>2. LooseInv /\ Regular => IndexAgrees
  BY <1>1 DEF IndexAgrees, LooseInv, Regular, Named
<1>3. QED
  BY <1>2, AlwaysLooseInv, AlwaysIndexInv, PTL

-----------------------------------------------------------------------------
(* When tasks fire.                                                         *)

\* The tasks whose age is followed have one while they are in the wheel.
Aged ==
    \A t \in Tasks :
      IF t \in Timed /\ timer[t] # NoSlot
      THEN age[t].ticks \in Nat /\ age[t].ms \in Nat /\ age[t].skips \in Nat
      ELSE age[t] = Never

\* The turn a task of age g is due in, and the rotations it may be late.
DueAt(g, t) == IF g.inside THEN Steps(t) ELSE Steps(t) + 1
Late(g, t) == g.skips + (IF g.inside /\ Steps(t) % SlotNum = 0 THEN 1 ELSE 0)

\* r turns from now the task is due, or by so many rotations late.
Hits(g, t, r) == \E k \in 0..Late(g, t) : g.ticks + r = DueAt(g, t) + k * SlotNum

\* Slots from the current one on to the one the task is in, and the turns of
\* the rotations it waits for.
Ahead(t) == IF timer[t] >= currentIdx THEN timer[t] - currentIdx
            ELSE timer[t] - currentIdx + SlotNum
Rounds(t) == circle[t] * SlotNum

\* The walk has not come to the task yet.
Pending(t) == item # None /\ After(slots[currentIdx], item, t)

\* The turn in which the task fires, if nothing skips it, is one it is due in.
Beat(t) ==
    IF walk \in {"idle", "loop"} THEN Hits(age[t], t, Ahead(t) + 1 + Rounds(t))
    ELSE IF timer[t] # currentIdx THEN Hits(age[t], t, Ahead(t) + Rounds(t))
    ELSE IF Unlinked THEN Hits(age[t], t, Rounds(t)) \/ Hits(age[t], t, SlotNum + Rounds(t))
    ELSE IF Pending(t) THEN Hits(age[t], t, Rounds(t))
    ELSE Hits(age[t], t, SlotNum + Rounds(t))

Beats == \A t \in Timed : timer[t] # NoSlot => Beat(t)

\* The wheel does not turn faster than the clock.
Slow ==
    \A t \in Timed : timer[t] # NoSlot /\ ~age[t].inside /\ ~age[t].behind =>
      age[t].ms + Interval > age[t].ticks * Interval + (clock - From)

\* A task whose callback runs has no rotations left.
Firing == walk = "callback" => circle[item] = 0

TimeInv == Aged /\ Beats /\ Slow /\ Firing

\* Division with remainder.
LEMMA Division ==
    ASSUME NEW x \in Nat, NEW d \in Nat \ {0}
    PROVE  /\ x \div d \in Nat /\ x % d \in Nat /\ x % d < d
           /\ x = d * (x \div d) + (x % d)
  OBVIOUS

\* The remainder is the only one.
LEMMA Remainder ==
    ASSUME NEW d \in Nat \ {0}, NEW q \in Nat, NEW r \in Nat, r < d, NEW x, x = d * q + r
    PROVE  x % d = r
<1>1. d * q \in Nat /\ x \in Nat
  OBVIOUS
<1> DEFINE p == x \div d
           s == x % d
<1>2. p \in Nat /\ s \in Nat /\ s < d /\ x = d * p + s
  BY <1>1, Division
<1> HIDE DEF p, s
<1>3. d * (p - q) = d * p - d * q
  BY <1>2
<1>4. d * (p - q) = r - s
  BY <1>1, <1>2, <1>3
<1>5. p = q
  <2>1. CASE p > q
    <3>1. p - q - 1 \in Nat /\ d * (p - q) = d + d * (p - q - 1)
      BY <1>2, <2>1
    <3>2. d * (p - q - 1) \in Nat
      BY <3>1
    <3>3. QED
      BY <1>2, <1>4, <3>1, <3>2
  <2>2. CASE p < q
    <3>1. q - p - 1 \in Nat /\ d * (p - q) = 0 - d - d * (q - p - 1)
      BY <1>2, <2>2
    <3>2. d * (q - p - 1) \in Nat
      BY <3>1
    <3>3. QED
      BY <1>2, <1>4, <3>1, <3>2
  <2>3. QED
    BY <1>2, <2>1, <2>2
<1>6. QED
  BY <1>2, <1>4, <1>5 DEF s

\* Where a task goes, seen from the current slot, and how often it goes round.
LEMMA IdxIsAhead ==
    ASSUME WheelTypeOK, NEW t \in Tasks
    PROVE  LET r == Steps(t) % SlotNum
           IN  /\ r \in Nat /\ r < SlotNum
               /\ Steps(t) = CircleOf(t) * SlotNum + r
               /\ IdxOf(t) = IF currentIdx + r < SlotNum THEN currentIdx + r
                             ELSE currentIdx + r - SlotNum
<1> USE WheelAssumption
<1> DEFINE r == Steps(t) % SlotNum
           q == Steps(t) \div SlotNum
<1>1. Steps(t) \in Nat /\ currentIdx \in Nat /\ currentIdx < SlotNum
  BY IdxAndCircle DEF WheelTypeOK, Slots
<1>2. q \in Nat /\ r \in Nat /\ r < SlotNum /\ Steps(t) = SlotNum * q + r
  BY <1>1, Division
<1>3. CircleOf(t) = q
  BY DEF CircleOf
<1> HIDE DEF q, r
<1>4. q * SlotNum = SlotNum * q /\ SlotNum * q \in Nat /\ SlotNum * (q + 1) = SlotNum * q + SlotNum
  BY <1>2
<1>5. CASE currentIdx + r < SlotNum
  <2>1. currentIdx + Steps(t) = SlotNum * q + (currentIdx + r) /\ currentIdx + r \in Nat
    BY <1>1, <1>2, <1>4
  <2>2. IdxOf(t) = currentIdx + r
    BY <1>2, <1>5, <2>1, Remainder DEF IdxOf
  <2>3. QED
    BY <1>2, <1>3, <1>4, <1>5, <2>2 DEF r
<1>6. CASE ~(currentIdx + r < SlotNum)
  <2>1. /\ currentIdx + Steps(t) = SlotNum * (q + 1) + (currentIdx + r - SlotNum)
        /\ currentIdx + r - SlotNum \in Nat /\ currentIdx + r - SlotNum < SlotNum
        /\ q + 1 \in Nat
    BY <1>1, <1>2, <1>4, <1>6
  <2>2. IdxOf(t) = currentIdx + r - SlotNum
    <3> DEFINE p == q + 1
               v == currentIdx + r - SlotNum
    <3>1. p \in Nat /\ v \in Nat /\ v < SlotNum /\ currentIdx + Steps(t) = SlotNum * p + v
      BY <2>1
    <3> HIDE DEF p, v
    <3>2. (currentIdx + Steps(t)) % SlotNum = v
      BY <3>1, Remainder
    <3>3. QED
      BY <3>2 DEF IdxOf, v
  <2>3. QED
    BY <1>2, <1>3, <1>4, <1>6, <2>2 DEF r
<1>7. QED
  BY <1>5, <1>6

\* A turn brings a task one turn nearer.
LEMMA HitsTurn ==
    ASSUME NEW g \in Ages, NEW t \in Tasks, NEW r \in Int, Hits(g, t, r + 1), NEW m \in Int
    PROVE  Hits([g EXCEPT !.ticks = @ + 1, !.ms = m], t, r)
<1> DEFINE h == [g EXCEPT !.ticks = @ + 1, !.ms = m]
<1>1. /\ h.ticks = g.ticks + 1 /\ h.skips = g.skips /\ h.inside = g.inside
      /\ g.ticks \in Int
  BY DEF Ages
<1> HIDE DEF h
<1>2. h.ticks + r = g.ticks + (r + 1)
  BY <1>1
<1>3. Late(h, t) = Late(g, t) /\ DueAt(h, t) = DueAt(g, t)
  BY <1>1 DEF Late, DueAt
<1>4. QED
  BY <1>2, <1>3 DEF Hits, h

\* A turn that skips a task makes it late by one rotation more at most.
LEMMA HitsSkip ==
    ASSUME NEW g \in Ages, g.skips \in Nat, NEW t \in Tasks, NEW r \in Int,
           Hits(g, t, r) \/ Hits(g, t, SlotNum + r)
    PROVE  Hits([g EXCEPT !.skips = @ + 1], t, SlotNum + r)
<1> USE WheelAssumption
<1> DEFINE h == [g EXCEPT !.skips = @ + 1]
<1>1. h.ticks = g.ticks /\ h.skips = g.skips + 1 /\ h.inside = g.inside /\ g.ticks \in Int
  BY DEF Ages
<1> HIDE DEF h
<1>2. Late(h, t) = Late(g, t) + 1 /\ Late(g, t) \in Nat /\ DueAt(h, t) = DueAt(g, t)
  BY <1>1 DEF Late, DueAt
<1>3. DueAt(g, t) \in Nat
  BY DEF DueAt, Steps
<1>4. CASE Hits(g, t, r)
  <2>1. PICK k \in 0..Late(g, t) : g.ticks + r = DueAt(g, t) + k * SlotNum
    BY <1>4 DEF Hits
  <2>2. k \in Nat /\ k + 1 \in 0..Late(h, t) /\ (k + 1) * SlotNum = k * SlotNum + SlotNum
    BY <1>2, <2>1
  <2>3. k * SlotNum \in Nat
    BY <2>2
  <2>4. h.ticks + (SlotNum + r) = DueAt(h, t) + (k + 1) * SlotNum
    <3> DEFINE ks == k * SlotNum
               k1s == (k + 1) * SlotNum
               e == DueAt(g, t)
    <3>1. ks \in Nat /\ k1s = ks + SlotNum /\ e \in Nat /\ g.ticks + r = e + ks
      BY <1>3, <2>1, <2>2, <2>3
    <3> HIDE DEF ks, k1s, e
    <3>2. g.ticks + (SlotNum + r) = e + k1s
      BY <1>1, <3>1
    <3>3. QED
      BY <1>1, <1>2, <3>2 DEF k1s, e
  <2>5. QED
    BY <2>2, <2>4 DEF Hits, h
<1>5. CASE Hits(g, t, SlotNum + r)
  <2>1. PICK k \in 0..Late(g, t) : g.ticks + (SlotNum + r) = DueAt(g, t) + k * SlotNum
    BY <1>5 DEF Hits
  <2>2. k \in 0..Late(h, t) /\ h.ticks + (SlotNum + r) = DueAt(h, t) + k * SlotNum
    BY <1>1, <1>2, <2>1
  <2>3. QED
    BY <2>2 DEF Hits, h
<1>6. QED
  BY <1>4, <1>5

\* A task that has just been added is due after its delay in whole intervals.
LEMMA HitsBorn ==
    ASSUME WheelTypeOK, NEW t \in Timed
    PROVE  LET c == CircleOf(t) * SlotNum
               r == Steps(t) % SlotNum
           IN  /\ walk = "idle" => Hits(Born(t), t, r + 1 + c)
               /\ walk # "idle" => Hits(Born(t), t, r + c)
               /\ walk # "idle" /\ r = 0 => Hits(Born(t), t, SlotNum + c)
<1> USE WheelAssumption
<1> DEFINE c == CircleOf(t) * SlotNum
           r == Steps(t) % SlotNum
           g == Born(t)
<1>1. t \in Tasks /\ r \in Nat /\ Steps(t) = c + r /\ c \in Nat /\ Steps(t) \in Nat
  <2>1. t \in Tasks
    OBVIOUS
  <2>2. CircleOf(t) \in Nat /\ Steps(t) \in Nat
    BY <2>1, IdxAndCircle
  <2>3. QED
    BY <2>1, <2>2, IdxIsAhead
<1>2. g.ticks = 0 /\ g.skips = 0 /\ (g.inside <=> walk # "idle")
  BY DEF Born
<1>3. /\ DueAt(g, t) = IF walk # "idle" THEN Steps(t) ELSE Steps(t) + 1
      /\ Late(g, t) = IF walk # "idle" /\ r = 0 THEN 1 ELSE 0
  BY <1>2 DEF DueAt, Late
<1> HIDE DEF c, g
<1>4. 0 * SlotNum = 0 /\ 1 * SlotNum = SlotNum /\ SlotNum \in Nat
  OBVIOUS
<1>5. walk = "idle" => Hits(g, t, r + 1 + c)
  <2>1. 0 \in 0..Late(g, t)
    BY <1>3
  <2>2. walk = "idle" => g.ticks + (r + 1 + c) = DueAt(g, t) + 0 * SlotNum
    BY <1>1, <1>2, <1>3, <1>4
  <2>3. QED
    BY <2>1, <2>2 DEF Hits
<1>6. walk # "idle" => Hits(g, t, r + c)
  <2>1. 0 \in 0..Late(g, t)
    BY <1>3
  <2>2. walk # "idle" => g.ticks + (r + c) = DueAt(g, t) + 0 * SlotNum
    BY <1>1, <1>2, <1>3, <1>4
  <2>3. QED
    BY <2>1, <2>2 DEF Hits
<1>7. ASSUME walk # "idle", r = 0
      PROVE  Hits(g, t, SlotNum + c)
  <2>1. 1 \in 0..Late(g, t)
    BY <1>3, <1>7
  <2>2. g.ticks + (SlotNum + c) = DueAt(g, t) + 1 * SlotNum
    BY <1>1, <1>2, <1>3, <1>4, <1>7
  <2>3. QED
    BY <2>1, <2>2 DEF Hits
<1>8. QED
  BY <1>5, <1>6, <1>7 DEF c, g

\* Setting the clock back brings it nearer to the time the wheel has turned to.
LEMMA GapOfClock ==
    ASSUME NEW c \in Nat, NEW d \in Nat, NEW o \in Nat, d < c
    PROVE  LET e == IF o > d THEN d ELSE o
               f == IF o > c THEN c ELSE o
           IN  d - e <= c - f /\ c - f \in Int /\ d - e \in Int
  OBVIOUS

\* Where a task is, and what it waits for, in numbers.
LEMMA WhereItIs ==
    ASSUME IndexInv, NEW t \in Timed, timer[t] # NoSlot
    PROVE  /\ t \in Keyed /\ t \in Tasks /\ timer[t] \in Slots /\ currentIdx \in Slots
           /\ Contains(slots[timer[t]], t)
           /\ age[t] \in Ages /\ circle[t] \in Nat /\ Rounds(t) \in Nat /\ Ahead(t) \in Nat
           /\ timer[t] = currentIdx => Ahead(t) = 0
<1> USE WheelAssumption DEF IndexInv
<1>1. t \in Keyed /\ t \in Tasks
  BY DEF Keyed
<1>2. timer[t] \in Slots /\ currentIdx \in Slots /\ circle[t] \in Nat /\ age[t] \in Ages
  BY <1>1 DEF WheelTypeOK, Ages
<1>3. Contains(slots[timer[t]], t)
  BY <1>1, <1>2 DEF MapOK
<1>4. Rounds(t) \in Nat
  BY <1>2 DEF Rounds
<1>5. Ahead(t) \in Nat /\ (timer[t] = currentIdx => Ahead(t) = 0)
  BY <1>2 DEF Ahead, Slots
<1>6. QED
  BY <1>1, <1>2, <1>3, <1>4, <1>5

\* The steps between two walks that are not a turn.
LEMMA CallKeepsTime ==
    ASSUME IndexInv, TimeInv,
           SetBack \/ UpdateFirst \/ UpdateCall \/ LoopReturn \/ UNCHANGED wheelvars
    PROVE  TimeInv'
<1> USE WheelAssumption DEF TimeInv
<1>1. UNCHANGED <<slots, circle, timer, age, currentIdx>>
  BY DEF SetBack, UpdateFirst, UpdateCall, LoopReturn, wheelvars, wheel
<1>2. \/ walk \in {"idle", "loop"} /\ walk' \in {"idle", "loop"}
      \/ UNCHANGED <<walk, item, Unlinked>>
  BY DEF SetBack, UpdateFirst, UpdateCall, LoopReturn, wheelvars, wheel, Unlinked
<1>3. Aged'
  BY <1>1 DEF Aged
<1>4. Beats'
  BY <1>1, <1>2 DEF Beats, Beat, Ahead, Rounds, Pending
<1>5. Firing'
  <2>1. walk' = "callback" => UNCHANGED <<walk, item>>
    BY <1>2
  <2>2. QED
    BY <1>1, <2>1 DEF Firing
<1>6. clock' - From' <= clock - From /\ clock - From \in Int /\ clock' - From' \in Int
  <2> USE DEF IndexInv, WheelTypeOK, From
  <2>1. CASE SetBack
    <3>1. clock \in Nat /\ oldMs \in Nat /\ clock' \in Nat /\ clock' < clock /\ oldMs' = oldMs
      BY <2>1 DEF SetBack
    <3>2. QED
      BY <3>1, GapOfClock
  <2>2. CASE UpdateFirst
    BY <2>2 DEF UpdateFirst
  <2>3. CASE UpdateCall \/ UNCHANGED wheelvars
    BY <2>3 DEF UpdateCall, wheelvars
  <2>4. CASE LoopReturn
    BY <2>4 DEF LoopReturn
  <2>5. QED
    BY <2>1, <2>2, <2>3, <2>4
<1>7. Slow'
  <2> SUFFICES ASSUME NEW t \in Timed, timer[t] # NoSlot, ~age[t].inside, ~age[t].behind
               PROVE  age[t].ms + Interval > age[t].ticks * Interval + (clock' - From')
    BY <1>1 DEF Slow
  <2>1. age[t].ms + Interval > age[t].ticks * Interval + (clock - From)
    BY DEF Slow
  <2>2. age[t].ms \in Nat /\ age[t].ticks * Interval \in Nat
    BY DEF Aged
  <2>3. QED
    BY <1>6, <2>1, <2>2
<1>8. QED
  BY <1>3, <1>4, <1>5, <1>7

\* Time passes.
LEMMA TickKeepsTime ==
    ASSUME IndexInv, TimeInv, Tick
    PROVE  TimeInv'
<1> USE WheelAssumption DEF TimeInv
<1>1. /\ walk = "idle" /\ clock' = clock + 1 /\ age' = Older(0, 1)
      /\ UNCHANGED <<slots, circle, timer, currentIdx, oldMs, backs, walk, item, Unlinked>>
  BY DEF Tick, Unlinked
<1>2. ASSUME NEW t \in Timed, timer[t] # NoSlot
      PROVE  /\ age'[t].ticks = age[t].ticks /\ age'[t].ms = age[t].ms + 1
             /\ age'[t].skips = age[t].skips /\ age'[t].inside = age[t].inside
             /\ age'[t].behind = age[t].behind /\ age[t].ticks \in Nat /\ age[t].ms \in Nat
             /\ age[t].skips \in Nat
  <2>1. age[t] \in Ages /\ age[t].ticks \in Nat /\ age[t].ms \in Nat /\ age[t].skips \in Nat
    BY <1>2, WhereItIs DEF Aged
  <2>2. age[t] # Never
    BY <2>1 DEF Never
  <2>3. age'[t] = [age[t] EXCEPT !.ticks = @ + 0, !.ms = @ + 1]
    BY <1>1, <2>2 DEF Older
  <2>4. QED
    BY <2>1, <2>3 DEF Ages
<1>3. Aged'
  <2>1. ASSUME NEW t \in Tasks, ~(t \in Timed /\ timer[t] # NoSlot)
        PROVE  age'[t] = Never
    BY <1>1, <2>1 DEF Aged, Older
  <2>2. QED
    BY <1>1, <1>2, <2>1 DEF Aged
<1>4. Beats'
  <2> SUFFICES ASSUME NEW t \in Timed, timer[t] # NoSlot
               PROVE  Beat(t)'
    BY <1>1 DEF Beats
  <2>1. Hits(age[t], t, Ahead(t) + 1 + Rounds(t))
    BY <1>1 DEF Beats, Beat
  <2>2. Hits(age'[t], t, Ahead(t) + 1 + Rounds(t))
    BY <1>2, <2>1 DEF Hits, Late, DueAt
  <2>3. QED
    BY <1>1, <2>2 DEF Beat, Ahead, Rounds
<1>5. Slow'
  <2>1. clock' - From' <= clock - From + 1 /\ clock - From \in Int /\ clock' - From' \in Int
    BY <1>1 DEF From, IndexInv, WheelTypeOK
  <2> SUFFICES ASSUME NEW t \in Timed, timer[t] # NoSlot, ~age'[t].inside, ~age'[t].behind
               PROVE  age'[t].ms + Interval > age'[t].ticks * Interval + (clock' - From')
    BY <1>1 DEF Slow
  <2>2. age[t].ms + Interval > age[t].ticks * Interval + (clock - From)
    BY <1>2 DEF Slow
  <2>3. age[t].ticks * Interval \in Nat
    BY <1>2
  <2>4. QED
    BY <1>2, <2>1, <2>2, <2>3
<1>6. QED
  BY <1>1, <1>3, <1>4, <1>5 DEF Firing

\* A turn of the wheel.
LEMMA TurnKeepsTime ==
    ASSUME IndexInv, TimeInv, LoopTurn
    PROVE  TimeInv'
<1> USE WheelAssumption DEF TimeInv
<1>1. /\ walk = "loop" /\ clock - From >= Interval /\ oldMs' = From + Interval
      /\ age' = Older(1, 0) /\ walk' = "walk" /\ item' = FirstOf(slots[currentIdx])
      /\ UNCHANGED <<slots, circle, timer, currentIdx, clock, backs, Unlinked>>
      /\ ~Unlinked
  <2>1. item' = FirstOf(slots[currentIdx]) /\ ~Unlinked /\ ~Unlinked'
    BY LoopTurnIs
  <2>2. Unlinked' = Unlinked
    BY <2>1 DEF Unlinked
  <2>3. QED
    BY <2>1, <2>2 DEF LoopTurn
<1>2. ASSUME NEW t \in Timed, timer[t] # NoSlot
      PROVE  /\ age'[t].ticks = age[t].ticks + 1 /\ age'[t].ms = age[t].ms
             /\ age'[t].skips = age[t].skips /\ age'[t].inside = age[t].inside
             /\ age'[t].behind = age[t].behind /\ age[t].ticks \in Nat /\ age[t].ms \in Nat
             /\ age[t].skips \in Nat
  <2>1. age[t] \in Ages /\ age[t].ticks \in Nat /\ age[t].ms \in Nat /\ age[t].skips \in Nat
    BY <1>2, WhereItIs DEF Aged
  <2>2. age[t] # Never
    BY <2>1 DEF Never
  <2>3. age'[t] = [age[t] EXCEPT !.ticks = @ + 1, !.ms = @ + 0]
    BY <1>1, <2>2 DEF Older
  <2>4. age[t].ms + 0 = age[t].ms
    BY <2>1
  <2>5. QED
    BY <2>1, <2>3, <2>4 DEF Ages
<1>7. ASSUME NEW t \in Timed, timer[t] # NoSlot
      PROVE  age'[t] = [age[t] EXCEPT !.ticks = @ + 1, !.ms = age[t].ms]
  <2>1. age[t].ticks \in Nat /\ age[t].ms \in Nat
    BY <1>2, <1>7
  <2>2. age[t] # Never /\ age[t].ms + 0 = age[t].ms
    BY <2>1 DEF Never
  <2>3. age'[t] = [age[t] EXCEPT !.ticks = @ + 1, !.ms = @ + 0]
    BY <1>1, <2>2 DEF Older
  <2>4. QED
    BY <2>2, <2>3
<1>3. Aged'
  <2>1. ASSUME NEW t \in Tasks, ~(t \in Timed /\ timer[t] # NoSlot)
        PROVE  age'[t] = Never
    BY <1>1, <2>1 DEF Aged, Older
  <2>2. QED
    BY <1>1, <1>2, <2>1 DEF Aged
<1>4. Beats'
  <2> SUFFICES ASSUME NEW t \in Timed, timer[t] # NoSlot
               PROVE  Beat(t)'
    BY <1>1 DEF Beats
  <2>1. /\ t \in Tasks /\ timer[t] \in Slots /\ Contains(slots[timer[t]], t) /\ age[t] \in Ages
        /\ Rounds(t) \in Nat /\ Ahead(t) \in Nat /\ age[t].ms \in Int
        /\ timer[t] = currentIdx => Ahead(t) = 0
    BY <1>2, WhereItIs
  <2>2. Hits(age[t], t, Ahead(t) + 1 + Rounds(t))
    BY <1>1 DEF Beats, Beat
  <2>3. Hits(age'[t], t, Ahead(t) + Rounds(t))
    <3> DEFINE r == Ahead(t) + Rounds(t)
    <3>1. r \in Int /\ Ahead(t) + 1 + Rounds(t) = r + 1
      BY <2>1
    <3> HIDE DEF r
    <3>2. Hits([age[t] EXCEPT !.ticks = @ + 1, !.ms = age[t].ms], t, r)
      BY <2>1, <2>2, <3>1, HitsTurn
    <3>3. QED
      BY <1>7, <3>2 DEF r
  <2>4. CASE timer[t] # currentIdx
    BY <1>1, <2>3, <2>4 DEF Beat, Ahead, Rounds
  <2>5. CASE timer[t] = currentIdx
    <3>1. Hits(age'[t], t, Rounds(t))
      BY <2>1, <2>3, <2>5
    <3>2. slots[currentIdx] \in Seq(Tasks) /\ Contains(slots[currentIdx], t)
      BY <2>1, <2>5 DEF IndexInv, WheelTypeOK
    <3>3. item' # None /\ After(slots[currentIdx], item', t)
      BY <1>1, <2>1, <3>2, FirstIs
    <3>4. QED
      BY <1>1, <2>5, <3>1, <3>3 DEF Beat, Pending, Rounds
  <2>6. QED
    BY <2>4, <2>5
<1>5. Slow'
  <2>1. /\ clock' - From' = clock - From - Interval
        /\ clock - From \in Int /\ clock' - From' \in Int
    BY <1>1 DEF From, IndexInv, WheelTypeOK
  <2> SUFFICES ASSUME NEW t \in Timed, timer[t] # NoSlot, ~age'[t].inside, ~age'[t].behind
               PROVE  age'[t].ms + Interval > age'[t].ticks * Interval + (clock' - From')
    BY <1>1 DEF Slow
  <2>2. age[t].ms + Interval > age[t].ticks * Interval + (clock - From)
    BY <1>2 DEF Slow
  <2>3. /\ age[t].ticks * Interval \in Nat
        /\ (age[t].ticks + 1) * Interval = age[t].ticks * Interval + Interval
    BY <1>2
  <2>4. age'[t].ticks * Interval = age[t].ticks * Interval + Interval
    BY <1>2, <2>3
  <2>5. QED
    BY <1>2, <2>1, <2>2, <2>3, <2>4
<1>6. QED
  BY <1>1, <1>3, <1>4, <1>5 DEF Firing

\* The walk over a slot, but for its callbacks.
LEMMA WalkKeepsTime ==
    ASSUME IndexInv, TimeInv, WalkCircle \/ WalkFire \/ WalkEnd
    PROVE  TimeInv'
<1> USE WheelAssumption DEF TimeInv
<1>1. walk = "walk" /\ UNCHANGED <<slots, timer, age, oldMs, clock>> /\ ~Unlinked /\ ~Unlinked'
  <2>1. CASE WalkCircle
    BY <2>1, WalkCircleIs DEF WalkCircle
  <2>2. CASE WalkFire \/ WalkEnd
    <3>1. walk = "walk" /\ UNCHANGED <<slots, timer, age, oldMs, clock, item, pos>>
      BY <2>2 DEF WalkFire, WalkEnd, wheel
    <3>2. QED
      BY <3>1 DEF IndexInv, Walking, Unlinked
  <2>3. QED
    BY <2>1, <2>2
<1>2. Aged' /\ Slow'
  BY <1>1 DEF Aged, Slow, From
<1>3. Firing'
  BY DEF WalkCircle, WalkFire, WalkEnd, Firing, wheel
<1>4. Beats'
  <2> SUFFICES ASSUME NEW t \in Timed, timer[t] # NoSlot
               PROVE  Beat(t)'
    BY <1>1 DEF Beats
  <2>1. /\ t \in Keyed /\ t \in Tasks /\ timer[t] \in Slots /\ currentIdx \in Slots
        /\ Contains(slots[timer[t]], t)
        /\ age[t] \in Ages /\ circle[t] \in Nat /\ Rounds(t) \in Nat /\ Ahead(t) \in Nat
    BY WhereItIs
  <2>2. slots[currentIdx] \in Seq(Tasks) /\ NoRepeat(slots[currentIdx])
    BY <2>1 DEF IndexInv, ListsOK
  <2>3. IF timer[t] # currentIdx THEN Hits(age[t], t, Ahead(t) + Rounds(t))
        ELSE IF Pending(t) THEN Hits(age[t], t, Rounds(t))
        ELSE Hits(age[t], t, SlotNum + Rounds(t))
    BY <1>1 DEF Beats, Beat
  <2>4. CASE WalkCircle
    <3>1. /\ item \in Tasks /\ circle[item] \in Nat /\ circle[item] > 0
          /\ circle' = [circle EXCEPT ![item] = @ - 1]
          /\ item' = NextOf(slots[currentIdx], item) /\ walk' = "walk"
          /\ currentIdx' = currentIdx /\ Contains(slots[currentIdx], item)
      BY <2>4, WalkCircleIs DEF WalkCircle, IndexInv, WheelTypeOK, Walking
    <3>2. /\ \A u \in Tasks \ {item} :
               After(slots[currentIdx], item, u)
                 <=> item' # None /\ After(slots[currentIdx], item', u)
          /\ ~After(slots[currentIdx], item', item)
          /\ After(slots[currentIdx], item, item)
      BY <2>2, <3>1, NextIs
    <3>3. item # None
      BY <3>1
    <3>4. CASE t = item
      <4>1. timer[t] = currentIdx
        BY <2>1, <3>1, <3>4 DEF IndexInv, MapOK
      <4>2. Hits(age[t], t, Rounds(t))
        BY <2>3, <3>2, <3>3, <3>4, <4>1 DEF Pending
      <4>3. ~Pending(t)'
        BY <1>1, <3>1, <3>2, <3>4 DEF Pending
      <4>4. SlotNum + (circle[t] - 1) * SlotNum = circle[t] * SlotNum
        BY <2>1
      <4>5. circle'[t] = circle[t] - 1
        BY <3>1, <3>4 DEF IndexInv, WheelTypeOK
      <4>6. Hits(age[t], t, SlotNum + circle'[t] * SlotNum)
        BY <4>2, <4>4, <4>5 DEF Rounds
      <4>7. QED
        BY <1>1, <3>1, <4>1, <4>3, <4>6 DEF Beat, Rounds
    <3>5. CASE t # item
      <4>1. circle'[t] = circle[t]
        BY <2>1, <3>1, <3>5 DEF IndexInv, WheelTypeOK
      <4>2. Rounds(t)' = Rounds(t) /\ Ahead(t)' = Ahead(t)
        BY <1>1, <3>1, <4>1 DEF Rounds, Ahead
      <4>3. Pending(t)' <=> Pending(t)
        BY <1>1, <2>1, <3>1, <3>2, <3>3, <3>5 DEF Pending
      <4>4. QED
        BY <1>1, <2>3, <3>1, <4>2, <4>3 DEF Beat
    <3>6. QED
      BY <3>4, <3>5
  <2>5. CASE WalkFire
    <3>1. walk' = "callback" /\ UNCHANGED <<circle, currentIdx, item>>
      BY <2>5 DEF WalkFire, wheel
    <3>2. QED
      BY <1>1, <2>3, <3>1 DEF Beat, Ahead, Rounds, Pending
  <2>6. CASE WalkEnd
    <3>1. /\ item = None /\ walk' = "loop" /\ circle' = circle
          /\ currentIdx' = IF currentIdx >= SlotNum - 1 THEN 0 ELSE currentIdx + 1
      BY <2>6 DEF WalkEnd, wheel
    <3>2. Ahead(t)' + 1 = IF timer[t] = currentIdx THEN SlotNum ELSE Ahead(t)
      BY <1>1, <2>1, <3>1 DEF Ahead, Slots
    <3>3. Rounds(t)' = Rounds(t)
      BY <3>1 DEF Rounds
    <3>4. Hits(age[t], t, Ahead(t)' + 1 + Rounds(t)')
      <4>1. CASE timer[t] = currentIdx
        BY <2>3, <3>1, <3>2, <3>3, <4>1 DEF Pending
      <4>2. CASE timer[t] # currentIdx
        BY <2>3, <3>2, <3>3, <4>2
      <4>3. QED
        BY <4>1, <4>2
    <3>5. QED
      BY <1>1, <3>1, <3>4 DEF Beat
  <2>7. QED
    BY <2>4, <2>5, <2>6
<1>5. QED
  BY <1>2, <1>3, <1>4

\* A task that is put in stands as many slots ahead as its delay says.
LEMMA ArrivesAhead ==
    ASSUME WheelTypeOK, NEW t \in Timed, timer'[t] = IdxOf(t), currentIdx' = currentIdx,
           circle'[t] = CircleOf(t)
    PROVE  /\ Rounds(t)' = CircleOf(t) * SlotNum
           /\ Ahead(t)' = Steps(t) % SlotNum
           /\ timer'[t] = currentIdx => Steps(t) % SlotNum = 0
           /\ CircleOf(t) * SlotNum \in Nat
<1> USE WheelAssumption
<1> DEFINE r == Steps(t) % SlotNum
<1>1. /\ r \in Nat /\ r < SlotNum
      /\ IdxOf(t) = IF currentIdx + r < SlotNum THEN currentIdx + r
                    ELSE currentIdx + r - SlotNum
      /\ CircleOf(t) \in Nat
  BY IdxIsAhead, IdxAndCircle
<1>2. currentIdx \in Nat /\ currentIdx < SlotNum
  BY DEF WheelTypeOK, Slots
<1> HIDE DEF r
<1>3. Ahead(t)' = r
  BY <1>1, <1>2 DEF Ahead
<1>4. timer'[t] = currentIdx => r = 0
  BY <1>1, <1>2
<1>5. Rounds(t)' = CircleOf(t) * SlotNum
  BY DEF Rounds
<1>6. QED
  BY <1>1, <1>3, <1>4, <1>5 DEF r

\* It has waited for nothing yet, and the wheel is not behind by an interval.
LEMMA BornSlow ==
    ASSUME WheelTypeOK, NEW t \in Timed, ~Born(t).inside, ~Born(t).behind
    PROVE  Born(t).ms + Interval > Born(t).ticks * Interval + (clock - From)
<1> USE WheelAssumption
<1>1. Born(t).ms = 0 /\ Born(t).ticks = 0 /\ ~(clock - oldMs >= Interval)
  BY DEF Born
<1>2. clock \in Nat /\ oldMs \in Nat
  BY DEF WheelTypeOK
<1>3. clock - From \in Int /\ clock - From < Interval
  BY <1>1, <1>2 DEF From
<1>4. 0 * Interval = 0
  OBVIOUS
<1>5. QED
  BY <1>1, <1>3, <1>4

\* AddTask, outside of Update or in a callback.
LEMMA AddTaskKeepsTime ==
    ASSUME IndexInv, TimeInv, NEW t \in Tasks, AddTask(t), readds' = 0
    PROVE  TimeInv'
<1> USE WheelAssumption DEF IndexInv, TimeInv
<1>1. /\ MayCall /\ ~(t = item /\ Unlinked) /\ (t \in Keyless => ~InWheel(t))
      /\ Place(t, slots, timer, age)
      /\ UNCHANGED <<currentIdx, oldMs, clock, backs, walk, item, Unlinked>>
  BY AddTaskIs
<1>2. CASE timer[t] # NoSlot
  <2>1. UNCHANGED wheelvars
    <3>1. UNCHANGED <<wheel, currentIdx, oldMs, clock, backs, walk, item>>
      BY <1>1, <1>2 DEF Place, wheel
    <3>2. UNCHANGED <<pos, readds>>
      <4>1. readds \in Nat
        BY DEF WheelTypeOK
      <4>2. QED
        BY <4>1 DEF AddTask
    <3>3. QED
      BY <3>1, <3>2 DEF wheelvars
  <2>2. QED
    BY <2>1, CallKeepsTime
<1>3. CASE timer[t] = NoSlot
  <2>1. \A i \in Slots : ~Contains(slots[i], t)
    <3>1. NoSlot \notin Slots
      BY DEF NoSlot, Slots
    <3>2. QED
      BY <1>1, <1>3, <3>1 DEF MapOK, Keyed, InWheel
  <2>2. /\ \A i \in Slots : slots'[i] = IF i = IdxOf(t) THEN Append(slots[i], t) ELSE slots[i]
        /\ \A u \in Tasks \ {t} : timer'[u] = timer[u]
        /\ timer'[t] = IF t \in Keyless THEN NoSlot ELSE IdxOf(t)
        /\ circle' = [circle EXCEPT ![t] = CircleOf(t)]
        /\ age' = [age EXCEPT ![t] = Born(t)]
    BY <1>1, <1>3, <2>1, Placed
  <2>3. /\ \A u \in Tasks \ {t} : circle'[u] = circle[u] /\ age'[u] = age[u]
        /\ circle'[t] = CircleOf(t) /\ age'[t] = Born(t)
    BY <2>2 DEF WheelTypeOK
  <2>4. /\ currentIdx \in Slots /\ slots[currentIdx] \in Seq(Tasks) /\ NoRepeat(slots[currentIdx])
        /\ walk \in {"idle", "callback"}
    BY <1>1 DEF WheelTypeOK, ListsOK, MayCall
  <2>5. walk = "callback" /\ ~Unlinked =>
          item \in Tasks \ {t} /\ item # None /\ Contains(slots[currentIdx], item)
    BY <2>1, <2>4 DEF Walking, WheelTypeOK
  <2>6. Aged'
    <3>1. \A u \in Tasks \ {t} : age'[u] = age[u] /\ timer'[u] = timer[u]
      BY <2>2, <2>3
    <3>2. CASE t \in Timed
      <4>1. age'[t].ticks \in Nat /\ age'[t].ms \in Nat /\ age'[t].skips \in Nat
        BY <2>3, <3>2 DEF Born
      <4>2. timer'[t] # NoSlot
        BY <2>2, <3>2, IdxAndCircle DEF NoSlot, Slots
      <4>3. QED
        BY <3>1, <3>2, <4>1, <4>2 DEF Aged
    <3>3. CASE t \notin Timed
      <4>1. age'[t] = Never
        BY <2>3, <3>3 DEF Born
      <4>2. QED
        BY <3>1, <3>3, <4>1 DEF Aged
    <3>4. QED
      BY <3>2, <3>3
  <2>7. Slow'
    <3>1. From' = From /\ clock' = clock
      BY <1>1 DEF From
    <3>2. ASSUME NEW u \in Timed, timer'[u] # NoSlot, ~age'[u].inside, ~age'[u].behind
          PROVE  age'[u].ms + Interval > age'[u].ticks * Interval + (clock' - From')
      <4>1. CASE u = t
        <5>1. age'[u] = Born(t)
          BY <2>3, <4>1
        <5>2. QED
          BY <3>1, <3>2, <4>1, <5>1, BornSlow
      <4>2. CASE u # t
        <5>1. age'[u] = age[u] /\ timer'[u] = timer[u]
          BY <2>2, <2>3, <4>2
        <5>2. QED
          BY <3>1, <3>2, <5>1 DEF Slow
      <4>3. QED
        BY <4>1, <4>2
    <3>3. QED
      BY <3>2 DEF Slow
  <2>8. Firing'
    <3>1. ASSUME walk = "callback"
          PROVE  item # t /\ item \in Tasks
      BY <1>1, <2>5, <3>1 DEF Walking, WheelTypeOK
    <3>2. QED
      BY <1>1, <2>3, <3>1 DEF Firing
  <2>9. ASSUME NEW u \in Timed, u # t, timer'[u] # NoSlot
        PROVE  Beat(u)'
    <3>1. u \in Tasks \ {t} /\ timer'[u] = timer[u] /\ circle'[u] = circle[u] /\ age'[u] = age[u]
      BY <2>2, <2>3, <2>9
    <3>2. Rounds(u)' = Rounds(u) /\ Ahead(u)' = Ahead(u)
      BY <1>1, <3>1 DEF Rounds, Ahead
    <3>3. walk = "callback" /\ ~Unlinked => (Pending(u)' <=> Pending(u))
      <4>1. CASE currentIdx = IdxOf(t)
        <5>1. slots'[currentIdx] = Append(slots[currentIdx], t) /\ ~Contains(slots[currentIdx], t)
          BY <2>1, <2>2, <2>4, <4>1
        <5>2. QED
          BY <1>1, <2>4, <2>5, <3>1, <5>1, Appended DEF Pending
      <4>2. CASE currentIdx # IdxOf(t)
        BY <1>1, <2>2, <2>4, <4>2 DEF Pending
      <4>3. QED
        BY <4>1, <4>2
    <3>4. Beat(u)
      BY <2>9, <3>1 DEF Beats
    <3>5. QED
      BY <1>1, <2>4, <3>1, <3>2, <3>3, <3>4 DEF Beat
  <2>10. ASSUME t \in Timed
         PROVE  Beat(t)'
    <3> DEFINE c == CircleOf(t) * SlotNum
               r == Steps(t) % SlotNum
    <3>1. timer'[t] = IdxOf(t) /\ age'[t] = Born(t)
      BY <2>2, <2>3, <2>10
    <3>2. /\ Rounds(t)' = c /\ Ahead(t)' = r /\ c \in Nat
          /\ timer'[t] = currentIdx => r = 0
      BY <1>1, <2>3, <2>10, <3>1, ArrivesAhead
    <3>3. /\ walk = "idle" => Hits(Born(t), t, r + 1 + c)
          /\ walk # "idle" => Hits(Born(t), t, r + c)
      BY <2>10, HitsBorn
    <3> HIDE DEF c, r
    <3>4. CASE walk = "idle"
      BY <1>1, <3>1, <3>2, <3>3, <3>4 DEF Beat
    <3>5. CASE walk = "callback" /\ timer'[t] # currentIdx
      BY <1>1, <3>1, <3>2, <3>3, <3>5 DEF Beat
    <3>6. CASE walk = "callback" /\ timer'[t] = currentIdx
      <4>1. Hits(age'[t], t, Rounds(t)')
        BY <3>1, <3>2, <3>3, <3>6
      <4>2. ASSUME ~Unlinked
            PROVE  Pending(t)'
        <5>1. slots'[currentIdx] = Append(slots[currentIdx], t) /\ ~Contains(slots[currentIdx], t)
          BY <2>1, <2>2, <2>4, <3>1, <3>6
        <5>2. QED
          BY <1>1, <2>4, <2>5, <3>6, <4>2, <5>1, Appended DEF Pending
      <4>3. QED
        BY <1>1, <3>6, <4>1, <4>2 DEF Beat
    <3>7. QED
      BY <2>4, <3>4, <3>5, <3>6
  <2>11. Beats'
    BY <2>9, <2>10 DEF Beats
  <2>12. QED
    BY <2>6, <2>7, <2>8, <2>11
<1>4. QED
  BY <1>2, <1>3

\* RemoveTask, outside of Update or in a callback.
LEMMA RemoveTaskKeepsTime ==
    ASSUME IndexInv, TimeInv, NEW t \in Tasks, RemoveTask(t)
    PROVE  TimeInv'
<1> USE WheelAssumption DEF IndexInv, TimeInv
<1>1. /\ MayCall /\ timer[t] # NoSlot
      /\ slots' = [slots EXCEPT ![timer[t]] = RemoveFirst(@, t)]
      /\ timer' = [timer EXCEPT ![t] = NoSlot]
      /\ age' = [age EXCEPT ![t] = Never]
      /\ Unlinked' = (Unlinked \/ t = item)
      /\ UNCHANGED <<circle, currentIdx, oldMs, clock, backs, walk, item>>
  BY RemoveTaskIs
<1>2. t \in Keyed /\ timer[t] \in Slots
  BY <1>1 DEF MapOK, Keyed, WheelTypeOK
<1>3. /\ timer'[t] = NoSlot /\ age'[t] = Never
      /\ \A u \in Tasks \ {t} : timer'[u] = timer[u] /\ age'[u] = age[u]
  BY <1>1 DEF WheelTypeOK
<1>4. \A i \in Slots, u, v \in Tasks \ {t} : After(slots'[i], u, v) <=> After(slots[i], u, v)
  <2>1. PICK s \in Slots : s = timer[t]
    BY <1>2
  <2>2. TakesOut(t, s, slots', timer')
    BY <1>1, <2>1 DEF TakesOut
  <2>3. QED
    BY <1>2, <2>2, TakenOut
<1>5. Aged'
  BY <1>3 DEF Aged
<1>6. Slow'
  BY <1>1, <1>3 DEF Slow, From
<1>7. Firing'
  BY <1>1 DEF Firing
<1>8. Beats'
  <2> SUFFICES ASSUME NEW u \in Timed, timer'[u] # NoSlot
               PROVE  Beat(u)'
    BY DEF Beats
  <2>1. u \in Tasks \ {t} /\ timer'[u] = timer[u] /\ age'[u] = age[u]
    BY <1>3
  <2>2. Rounds(u)' = Rounds(u) /\ Ahead(u)' = Ahead(u)
    BY <1>1, <2>1 DEF Rounds, Ahead
  <2>3. Beat(u)
    BY <2>1 DEF Beats
  <2>4. walk \in {"idle", "callback"} /\ Unlinked \in BOOLEAN /\ currentIdx \in Slots
    BY <1>1 DEF MayCall, WheelTypeOK, Unlinked
  <2>5. CASE walk = "idle"
    BY <1>1, <2>1, <2>2, <2>3, <2>5 DEF Beat
  <2>6. CASE walk = "callback" /\ Unlinked'
    BY <1>1, <2>1, <2>2, <2>3, <2>4, <2>6 DEF Beat
  <2>7. CASE walk = "callback" /\ ~Unlinked'
    <3>1. ~Unlinked /\ item # t /\ item \in Tasks \ {t}
      BY <1>1, <2>4, <2>7 DEF Walking, WheelTypeOK
    <3>2. Pending(u)' <=> Pending(u)
      BY <1>1, <1>4, <2>1, <2>4, <3>1 DEF Pending
    <3>3. QED
      BY <1>1, <2>1, <2>2, <2>3, <2>7, <3>1, <3>2 DEF Beat
  <2>8. QED
    BY <2>4, <2>5, <2>6, <2>7
<1>9. QED
  BY <1>5, <1>6, <1>7, <1>8

\* What a cut-short walk does to the age of the other tasks.
LEMMA SkippedIs ==
    ASSUME IndexInv, Aged, NEW u \in Timed, timer[u] # NoSlot
    PROVE  /\ Skipped[u] = IF Unlinked /\ timer[u] = currentIdx
                           THEN [age[u] EXCEPT !.skips = @ + 1] ELSE age[u]
           /\ Skipped[u].ticks = age[u].ticks /\ Skipped[u].ms = age[u].ms
           /\ Skipped[u].skips \in Nat /\ Skipped[u].inside = age[u].inside
           /\ Skipped[u].behind = age[u].behind
<1> USE WheelAssumption
<1>1. /\ u \in Keyed /\ u \in Tasks /\ currentIdx \in Slots /\ age[u] \in Ages
      /\ age[u].ticks \in Nat /\ age[u].skips \in Nat
  BY WhereItIs DEF Aged
<1>2. age[u] # Never
  BY <1>1 DEF Never
<1>3. Contains(slots[currentIdx], u) <=> timer[u] = currentIdx
  BY <1>1 DEF IndexInv, MapOK
<1>4. Skipped[u] = IF Unlinked /\ timer[u] = currentIdx
                   THEN [age[u] EXCEPT !.skips = @ + 1] ELSE age[u]
  BY <1>1, <1>2, <1>3 DEF Skipped
<1>5. CASE Unlinked /\ timer[u] = currentIdx
  <2>1. Skipped[u] = [age[u] EXCEPT !.skips = @ + 1]
    BY <1>4, <1>5
  <2>2. QED
    BY <1>1, <1>4, <2>1 DEF Ages
<1>6. CASE ~(Unlinked /\ timer[u] = currentIdx)
  BY <1>1, <1>4, <1>6
<1>7. QED
  BY <1>5, <1>6

\* What is left of the walk when a callback returns is what stood behind its
\* task, in whatever order callbacks have changed the slot.
LEMMA CallbackWalksOn ==
    ASSUME IndexInv, walk = "callback", ~Unlinked, item' = NextOf(slots[currentIdx], item),
           NEW u \in Tasks \ {item},
           currentIdx' = currentIdx,
           \/ UNCHANGED slots
           \/ /\ item \in Keyed
              /\ \E lists, index :
                   /\ TakesOut(item, currentIdx, lists, index)
                   /\ slots'[currentIdx] \in {lists[currentIdx], Append(lists[currentIdx], item)}
    PROVE  Pending(u)' <=> Pending(u)
<1> USE WheelAssumption DEF IndexInv
<1>1. /\ currentIdx \in Slots /\ slots[currentIdx] \in Seq(Tasks) /\ NoRepeat(slots[currentIdx])
      /\ item \in Tasks /\ item # None /\ Contains(slots[currentIdx], item)
  BY DEF WheelTypeOK, ListsOK, Walking
<1>2. /\ item' \in Tasks \cup {None} /\ item' # item
      /\ item' # None => Contains(slots[currentIdx], item')
      /\ After(slots[currentIdx], item, u)
           <=> item' # None /\ After(slots[currentIdx], item', u)
  BY <1>1, NextIs
<1>3. CASE UNCHANGED slots
  BY <1>1, <1>2, <1>3 DEF Pending
<1>4. ASSUME item \in Keyed, NEW lists, NEW index, TakesOut(item, currentIdx, lists, index),
             slots'[currentIdx] \in {lists[currentIdx], Append(lists[currentIdx], item)},
             item' # None
      PROVE  After(slots'[currentIdx], item', u) <=> After(slots[currentIdx], item', u)
  <2>1. /\ ListsOK(lists) /\ ~Contains(lists[currentIdx], item)
        /\ Contains(lists[currentIdx], item')
        /\ After(lists[currentIdx], item', u) <=> After(slots[currentIdx], item', u)
    <3>1. /\ ListsOK(lists)
          /\ \A i \in Slots : ~Contains(lists[i], item)
          /\ \A i \in Slots, v \in Tasks \ {item} :
               Contains(lists[i], v) <=> Contains(slots[i], v)
          /\ \A i \in Slots, v, x \in Tasks \ {item} :
               After(lists[i], v, x) <=> After(slots[i], v, x)
      BY <1>1, <1>4, TakenOut
    <3>2. item' \in Tasks \ {item}
      BY <1>2, <1>4
    <3>3. QED
      BY <1>1, <1>2, <1>4, <3>1, <3>2
  <2>2. lists[currentIdx] \in Seq(Tasks) /\ NoRepeat(lists[currentIdx])
    BY <1>1, <2>1 DEF ListsOK
  <2>3. After(Append(lists[currentIdx], item), item', u) <=> After(lists[currentIdx], item', u)
    BY <1>1, <1>2, <1>4, <2>1, <2>2, Appended
  <2>4. QED
    BY <1>4, <2>1, <2>3
<1>5. QED
  BY <1>1, <1>2, <1>3, <1>4 DEF Pending

\* The end of a callback.
LEMMA CallbackKeepsTime ==
    ASSUME IndexInv, TimeInv, CallbackEnd
    PROVE  TimeInv'
<1> USE WheelAssumption DEF IndexInv, TimeInv
<1>1. /\ item \in Tasks /\ currentIdx \in Slots
      /\ walk = "callback" /\ walk' = "walk" /\ Unlinked' = FALSE
      /\ item' = IF Unlinked THEN None ELSE NextOf(slots[currentIdx], item)
      /\ UNCHANGED <<currentIdx, oldMs, clock, backs>> /\ Unlinked \in BOOLEAN
  BY CallbackLeaves DEF Unlinked
<1>2. Firing' /\ From' = From
  BY <1>1 DEF Firing, From
<1>3. CASE item \in Keyless /\ ~Unlinked /\ UNCHANGED wheel
  <2>1. UNCHANGED <<slots, circle, timer, age>>
    BY <1>3 DEF wheel
  <2>2. Aged' /\ Slow'
    BY <1>1, <1>2, <2>1 DEF Aged, Slow
  <2>3. ASSUME NEW u \in Timed, timer[u] # NoSlot
        PROVE  Beat(u)'
    <3>1. u \in Tasks \ {item}
      BY <1>3
    <3>2. Pending(u)' <=> Pending(u)
      BY <1>1, <1>3, <2>1, <3>1, CallbackWalksOn
    <3>3. Rounds(u)' = Rounds(u) /\ Ahead(u)' = Ahead(u)
      BY <1>1, <2>1 DEF Rounds, Ahead
    <3>4. Beat(u)
      BY <2>3 DEF Beats
    <3>5. QED
      BY <1>1, <1>3, <2>1, <3>2, <3>3, <3>4 DEF Beat
  <2>4. QED
    BY <1>2, <2>1, <2>2, <2>3 DEF Beats
<1>4. ASSUME item \in Keyed, NEW lists, NEW index, TakesOut(item, currentIdx, lists, index),
             \/ Place(item, lists, index, Skipped)
             \/ /\ slots' = lists /\ timer' = index /\ circle' = circle
                /\ age' = [Skipped EXCEPT ![item] = Never]
      PROVE  TimeInv'
  <2>1. /\ ListsOK(lists) /\ MapOK(lists, index) /\ index[item] = NoSlot
        /\ \A i \in Slots : ~Contains(lists[i], item)
        /\ \A u \in Tasks \ {item} : index[u] = timer[u]
    BY <1>1, <1>4, TakenOut
  <2>2. Skipped \in [Tasks -> Ages] /\ IdxOf(item) \in Slots /\ NoSlot \notin Slots
    BY <1>1, AgesTyped, IdxAndCircle DEF NoSlot, Slots
  <2>3. \/ /\ timer'[item] = NoSlot /\ age'[item] = Never
        \/ /\ timer'[item] = IdxOf(item) /\ age'[item] = Born(item)
           /\ circle'[item] = CircleOf(item)
    <3>1. CASE Place(item, lists, index, Skipped)
      <4>1. /\ timer'[item] = IF item \in Keyless THEN NoSlot ELSE IdxOf(item)
            /\ circle' = [circle EXCEPT ![item] = CircleOf(item)]
            /\ age' = [Skipped EXCEPT ![item] = Born(item)]
        BY <1>1, <2>1, <3>1, Placed
      <4>2. QED
        BY <1>1, <1>4, <2>2, <4>1 DEF WheelTypeOK, Keyed
    <3>2. CASE /\ slots' = lists /\ timer' = index /\ circle' = circle
               /\ age' = [Skipped EXCEPT ![item] = Never]
      BY <1>1, <2>1, <2>2, <3>2
    <3>3. QED
      BY <1>4, <3>1, <3>2
  <2>4. /\ slots'[currentIdx] \in {lists[currentIdx], Append(lists[currentIdx], item)}
        /\ \A u \in Tasks \ {item} :
             timer'[u] = timer[u] /\ circle'[u] = circle[u] /\ age'[u] = Skipped[u]
    <3>1. CASE Place(item, lists, index, Skipped)
      <4>1. /\ \A i \in Slots :
                 slots'[i] = IF i = IdxOf(item) THEN Append(lists[i], item) ELSE lists[i]
            /\ \A u \in Tasks \ {item} : timer'[u] = index[u]
            /\ circle' = [circle EXCEPT ![item] = CircleOf(item)]
            /\ age' = [Skipped EXCEPT ![item] = Born(item)]
        BY <1>1, <2>1, <3>1, Placed
      <4>2. QED
        BY <1>1, <2>1, <2>2, <4>1 DEF WheelTypeOK
    <3>2. CASE /\ slots' = lists /\ timer' = index /\ circle' = circle
               /\ age' = [Skipped EXCEPT ![item] = Never]
      BY <1>1, <2>1, <2>2, <3>2
    <3>3. QED
      BY <1>4, <3>1, <3>2
  <2>5. ASSUME NEW u \in Tasks \ {item}
        PROVE  IF u \in Timed /\ timer'[u] # NoSlot
               THEN age'[u].ticks \in Nat /\ age'[u].ms \in Nat /\ age'[u].skips \in Nat
               ELSE age'[u] = Never
    <3>1. timer'[u] = timer[u] /\ age'[u] = Skipped[u]
      BY <2>4
    <3>2. CASE u \in Timed /\ timer[u] # NoSlot
      <4>1. age[u].ticks \in Nat /\ age[u].ms \in Nat
        BY <3>2 DEF Aged
      <4>2. QED
        BY <3>1, <3>2, <4>1, SkippedIs
    <3>3. CASE ~(u \in Timed /\ timer[u] # NoSlot)
      <4>1. age[u] = Never
        BY <3>3 DEF Aged
      <4>2. Skipped[u] = Never
        BY <4>1 DEF Skipped
      <4>3. QED
        BY <3>1, <3>3, <4>2
    <3>4. QED
      BY <3>2, <3>3
  <2>6. IF item \in Timed /\ timer'[item] # NoSlot
        THEN age'[item].ticks \in Nat /\ age'[item].ms \in Nat /\ age'[item].skips \in Nat
        ELSE age'[item] = Never
    BY <2>2, <2>3 DEF Born
  <2>7. Aged'
    BY <2>5, <2>6 DEF Aged
  <2>8. Slow'
    <3>1. ASSUME NEW u \in Timed, timer'[u] # NoSlot, ~age'[u].inside, ~age'[u].behind
          PROVE  age'[u].ms + Interval > age'[u].ticks * Interval + (clock' - From')
      <4>1. CASE u = item
        <5>1. age'[u] = Born(item)
          BY <2>3, <3>1, <4>1
        <5>2. QED
          BY <1>1, <1>2, <3>1, <4>1, <5>1, BornSlow
      <4>2. CASE u # item
        <5>1. age'[u] = Skipped[u] /\ timer'[u] = timer[u]
          BY <2>4, <4>2
        <5>2. /\ Skipped[u].ticks = age[u].ticks /\ Skipped[u].ms = age[u].ms
              /\ Skipped[u].inside = age[u].inside /\ Skipped[u].behind = age[u].behind
          BY <3>1, <5>1, SkippedIs
        <5>3. QED
          BY <1>1, <1>2, <3>1, <5>1, <5>2 DEF Slow
      <4>3. QED
        BY <4>1, <4>2
    <3>2. QED
      BY <3>1 DEF Slow
  <2>9. ASSUME NEW u \in Timed, u # item, timer'[u] # NoSlot
        PROVE  Beat(u)'
    <3>1. /\ u \in Tasks \ {item} /\ timer'[u] = timer[u] /\ circle'[u] = circle[u]
          /\ age'[u] = Skipped[u]
      BY <2>4, <2>9
    <3>2. Rounds(u)' = Rounds(u) /\ Ahead(u)' = Ahead(u)
      BY <1>1, <3>1 DEF Rounds, Ahead
    <3>3. Beat(u)
      BY <2>9, <3>1 DEF Beats
    <3>4. Skipped[u] = IF Unlinked /\ timer[u] = currentIdx
                       THEN [age[u] EXCEPT !.skips = @ + 1] ELSE age[u]
      BY <2>9, <3>1, SkippedIs
    <3>5. CASE Unlinked /\ timer[u] = currentIdx
      <4>1. Hits(age[u], u, Rounds(u)) \/ Hits(age[u], u, SlotNum + Rounds(u))
        BY <1>1, <3>3, <3>5 DEF Beat
      <4>2. age[u] \in Ages /\ age[u].skips \in Nat /\ Rounds(u) \in Int
        BY <2>9, <3>1, WhereItIs DEF Aged
      <4>3. Hits([age[u] EXCEPT !.skips = @ + 1], u, SlotNum + Rounds(u))
        BY <3>1, <4>1, <4>2, HitsSkip
      <4>4. ~Pending(u)'
        BY <1>1, <3>5 DEF Pending
      <4>5. QED
        BY <1>1, <3>1, <3>2, <3>4, <3>5, <4>3, <4>4 DEF Beat
    <3>6. CASE timer[u] # currentIdx
      BY <1>1, <3>1, <3>2, <3>3, <3>4, <3>6 DEF Beat
    <3>7. CASE ~Unlinked
      <4>1. Pending(u)' <=> Pending(u)
        BY <1>1, <1>4, <2>4, <3>1, <3>7, CallbackWalksOn
      <4>2. QED
        BY <1>1, <3>1, <3>2, <3>3, <3>4, <3>7, <4>1 DEF Beat
    <3>8. QED
      BY <3>5, <3>6, <3>7
  <2>10. ASSUME NEW t \in Timed, t = item, timer'[t] # NoSlot
         PROVE  Beat(t)'
    <3> DEFINE c == CircleOf(t) * SlotNum
               r == Steps(t) % SlotNum
    <3>1. timer'[t] = IdxOf(t) /\ age'[t] = Born(t) /\ circle'[t] = CircleOf(t)
      BY <2>3, <2>10
    <3>2. /\ Rounds(t)' = c /\ Ahead(t)' = r /\ c \in Nat
          /\ timer'[t] = currentIdx => r = 0
      BY <1>1, <2>10, <3>1, ArrivesAhead
    <3>3. /\ Hits(Born(t), t, r + c)
          /\ r = 0 => Hits(Born(t), t, SlotNum + c)
      BY <1>1, <2>10, HitsBorn
    <3> HIDE DEF c, r
    <3>4. CASE timer'[t] # currentIdx
      BY <1>1, <3>1, <3>2, <3>3, <3>4 DEF Beat
    <3>5. CASE timer'[t] = currentIdx
      <4>1. Hits(age'[t], t, Rounds(t)') /\ Hits(age'[t], t, SlotNum + Rounds(t)')
        BY <3>1, <3>2, <3>3, <3>5
      <4>2. QED
        BY <1>1, <3>5, <4>1 DEF Beat
    <3>6. QED
      BY <3>4, <3>5
  <2>11. Beats'
    <3>1. ASSUME NEW u \in Timed, timer'[u] # NoSlot
          PROVE  Beat(u)'
      BY <2>9, <2>10, <3>1
    <3>2. QED
      BY <3>1 DEF Beats
  <2>12. QED
    BY <1>2, <2>7, <2>8, <2>11
<1>5. QED
  BY <1>3, <1>4, CallbackLeaves

\* Until a callback first puts in its own task after taking it out.
Timely == readds = 0 => TimeInv

\* Then TimeInv holds at every step, for any delays, interval and number of slots.
LEMMA AlwaysTimeInv ==
    WheelSpec => []Timely
<1>1. WheelInit => TimeInv
  <2> SUFFICES ASSUME WheelInit
               PROVE  TimeInv
    OBVIOUS
  <2>1. \A t \in Tasks : timer[t] = NoSlot /\ age[t] = Never
    BY DEF WheelInit
  <2>2. Timed \subseteq Tasks /\ walk = "idle"
    BY WheelAssumption DEF WheelInit
  <2>3. Aged /\ Beats /\ Slow
    BY <2>1, <2>2 DEF Aged, Beats, Slow
  <2>4. QED
    BY <2>2, <2>3 DEF TimeInv, Firing
<1>2. LooseInv /\ Regular /\ Timely /\ [WheelNext]_wheelvars => Timely'
  <2> SUFFICES ASSUME LooseInv, Regular, Timely, [WheelNext]_wheelvars, readds' = 0
               PROVE  TimeInv'
    BY DEF Timely
  <2>1. IndexInv /\ TimeInv
    BY ReaddsStay DEF LooseInv, Regular, Timely
  <2>2. QED
    BY <2>1, WheelSteps, AddTaskKeepsTime, RemoveTaskKeepsTime, CallbackKeepsTime,
       TickKeepsTime, TurnKeepsTime, WalkKeepsTime, CallKeepsTime
<1>3. WheelInit => Timely
  BY <1>1 DEF Timely
<1>4. QED
  BY <1>2, <1>3, AlwaysLooseInv, AlwaysIndexInv, PTL DEF WheelSpec

\* A task that fires is due now, or whole rotations ago.
LEMMA FiresWhenDue ==
    ASSUME IndexInv, TimeInv, walk = "callback", age[item] # Never
    PROVE  /\ item \in Timed /\ timer[item] # NoSlot
           /\ \E k \in 0..Late(age[item], item) :
                age[item].ticks = DueAt(age[item], item) + k * SlotNum
<1> USE WheelAssumption DEF IndexInv, TimeInv
<1>1. item \in Tasks /\ currentIdx \in Slots
  BY DEF Walking, WheelTypeOK
<1>2. item \in Timed /\ timer[item] # NoSlot
  BY <1>1 DEF Aged
<1>3. PICK t \in Timed : t = item
  BY <1>2
<1>4. /\ t \in Keyed /\ circle[t] = 0 /\ age[t] \in Ages /\ timer[t] # NoSlot
  BY <1>2, <1>3, WhereItIs DEF Firing
<1>5. ~Unlinked /\ Contains(slots[currentIdx], t)
  BY <1>3, <1>4 DEF Walking
<1>6. timer[t] = currentIdx
  BY <1>1, <1>4, <1>5 DEF MapOK
<1>7. Pending(t)
  <2>1. slots[currentIdx] \in Seq(Tasks) /\ NoRepeat(slots[currentIdx])
    BY <1>1 DEF ListsOK
  <2>2. After(slots[currentIdx], t, t)
    BY <1>1, <1>3, <1>5, <2>1, NextIs
  <2>3. QED
    BY <1>1, <1>3, <2>2 DEF Pending
<1>8. Hits(age[t], t, Rounds(t))
  BY <1>4, <1>5, <1>6, <1>7 DEF Beats, Beat
<1>9. Rounds(t) = 0 /\ age[t].ticks \in Int
  BY <1>4 DEF Rounds, Ages
<1>10. \E k \in 0..Late(age[t], t) : age[t].ticks = DueAt(age[t], t) + k * SlotNum
  <2>1. age[t].ticks + 0 = age[t].ticks
    BY <1>9
  <2>2. QED
    BY <1>8, <1>9, <2>1 DEF Hits
<1>11. QED
  BY <1>2, <1>3, <1>10

\* A task fires in the turn that follows its delay in whole intervals, or whole
\* rotations later, never more than the walks over its slot that callbacks cut
\* short, for any tasks, delays, interval and number of slots, until a callback
\* first puts in its own task after taking it out.
THEOREM WheelOnTime ==
    WheelSpec => []OnTime
<1>1. Regular /\ Timely => OnTime
  <2> SUFFICES ASSUME IndexInv, TimeInv, walk = "callback", age[item] # Never
               PROVE  age[item].ticks \in
                        {DueAt(age[item], item) + k * SlotNum : k \in 0..Late(age[item], item)}
    BY DEF OnTime, DueAt, Late, Regular, Timely
  <2>1. QED
    BY FiresWhenDue
<1>2. QED
  BY <1>1, AlwaysIndexInv, AlwaysTimeInv, PTL

\* A task never fires before the whole intervals of its delay have passed since
\* AddTask, if Update had kept up with the clock then; setting the clock back
\* does not bring a task forward.  So it is until a callback first puts in its
\* own task after taking it out.
THEOREM WheelNeverEarly ==
    WheelSpec => []NeverEarly
<1>1. Regular /\ Timely => NeverEarly
  <2> SUFFICES ASSUME IndexInv, TimeInv, walk = "callback", age[item] # Never,
                      ~age[item].inside, ~age[item].behind
               PROVE  age[item].ms >= Steps(item) * Interval
    BY DEF NeverEarly, Regular, Timely
  <2> USE WheelAssumption
  <2>1. PICK t \in Timed : t = item /\ timer[t] # NoSlot
    BY FiresWhenDue
  <2>2. PICK k \in 0..Late(age[t], t) : age[t].ticks = DueAt(age[t], t) + k * SlotNum
    BY <2>1, FiresWhenDue
  <2> DEFINE n == age[t].ticks
             s == Steps(t)
  <2>3. n \in Nat /\ age[t].ms \in Nat
    BY <2>1 DEF TimeInv, Aged
  <2>4. s \in Nat
    BY <2>1, IdxAndCircle DEF IndexInv
  <2>5. n >= s + 1
    <3>1. k \in Nat /\ k * SlotNum \in Nat
      BY <2>2
    <3>2. DueAt(age[t], t) = s + 1
      BY <2>1 DEF DueAt
    <3>3. QED
      BY <2>2, <2>4, <3>1, <3>2
  <2>6. age[t].ms + Interval > n * Interval + (clock - From)
    BY <2>1 DEF TimeInv, Slow
  <2>7. clock - From \in Nat
    BY DEF From, IndexInv, WheelTypeOK
  <2> HIDE DEF n, s
  <2>8. /\ n - s - 1 \in Nat
        /\ n * Interval = s * Interval + Interval + (n - s - 1) * Interval
    BY <2>3, <2>4, <2>5
  <2>9. (n - s - 1) * Interval \in Nat /\ s * Interval \in Nat
    BY <2>4, <2>8
  <2>10. age[t].ms >= s * Interval
    BY <2>3, <2>6, <2>7, <2>8, <2>9
  <2>11. QED
    BY <2>1, <2>10 DEF s
<1>2. QED
  BY <1>1, AlwaysIndexInv, AlwaysTimeInv, PTL

-----------------------------------------------------------------------------
(* The loop that keeps some elements of a sequence.                         *)

\* The loop over the places starts empty and takes n + 1 or does not.
LEMMA PositionsLoop ==
    ASSUME NEW I
    PROVE  /\ Positions(I) \in [Nat -> Seq(Nat)]
           /\ Positions(I)[0] = << >>
           /\ \A n \in Nat : Positions(I)[n + 1] = IF n + 1 \in I THEN Append(Positions(I)[n], n + 1)
                                                    ELSE Positions(I)[n]
<1> DEFINE h == [p \in Seq(Nat) \X Nat |-> IF p[2] \in I THEN Append(p[1], p[2]) ELSE p[1]]
           Eq(u) == u = [n \in Nat |-> IF n = 0 THEN << >>
                                       ELSE IF n \in I THEN Append(u[n - 1], n) ELSE u[n - 1]]
<1>1. h \in [Seq(Nat) \X Nat -> Seq(Nat)]
  OBVIOUS
<1>2. << >> \in Seq(Nat)
  OBVIOUS
<1>3. \A s \in Seq(Nat), n \in Nat : h[<<s, n>>] = IF n \in I THEN Append(s, n) ELSE s
  OBVIOUS
<1> HIDE DEF h
<1>4. PICK f \in [Nat -> Seq(Nat)] : f[0] = << >> /\ \A n \in Nat : f[n + 1] = h[<<f[n], n + 1>>]
  <2>1. PICK e \in Seq(Nat) : e = << >>
    BY <1>2
  <2>2. PICK S : S = Seq(Nat)
    OBVIOUS
  <2>3. e \in S /\ h \in [S \X Nat -> S]
    BY <1>1, <2>2
  <2>4. \E f \in [Nat -> S] : IsLoop(f, e, h)
    BY <2>3, RecursionExists, Zenon
  <2>5. QED
    BY <2>1, <2>2, <2>4 DEF IsLoop
<1>5. Eq(f)
  <2>1. ASSUME NEW n \in Nat
        PROVE  f[n] = IF n = 0 THEN << >>
                      ELSE IF n \in I THEN Append(f[n - 1], n) ELSE f[n - 1]
    <3>1. CASE n = 0
      BY <1>4, <3>1
    <3>2. CASE n # 0
      <4>1. n - 1 \in Nat /\ (n - 1) + 1 = n
        BY <3>2
      <4>2. f[n] = h[<<f[n - 1], n>>] /\ f[n - 1] \in Seq(Nat)
        BY <1>4, <4>1
      <4>3. QED
        BY <1>3, <3>2, <4>2
    <3>3. QED
      BY <3>1, <3>2
  <2>2. QED
    BY <2>1
<1>6. Positions(I) = CHOOSE u : Eq(u)
  BY DEF Positions
<1> DEFINE P == Positions(I)
<1>7. Eq(P)
  BY <1>5, <1>6
<1>8. \A n \in Nat : P[n] = IF n = 0 THEN << >> ELSE IF n \in I THEN Append(P[n - 1], n) ELSE P[n - 1]
  BY <1>7
<1>9. DOMAIN P = Nat /\ P = [n \in Nat |-> P[n]]
  BY <1>7
<1> HIDE DEF P, Eq
<1>10. P[0] = << >>
  BY <1>8
<1>11. \A n \in Nat : P[n + 1] = IF n + 1 \in I THEN Append(P[n], n + 1) ELSE P[n]
  <2> TAKE n \in Nat
  <2>1. n + 1 \in Nat /\ n + 1 # 0 /\ (n + 1) - 1 = n
    OBVIOUS
  <2>2. QED
    BY <1>8, <2>1
<1>12. \A n \in Nat : P[n] \in Seq(Nat)
  <2> DEFINE S == {n \in Nat : P[n] \in Seq(Nat)}
  <2>1. 0 \in S
    BY <1>2, <1>10
  <2>2. ASSUME NEW n \in Nat, n \in S
        PROVE  n + 1 \in S
    <3>1. P[n] \in Seq(Nat) /\ n + 1 \in Nat
      BY <2>2
    <3>2. Append(P[n], n + 1) \in Seq(Nat)
      BY <3>1
    <3>3. P[n + 1] \in Seq(Nat)
      BY <1>11, <3>1, <3>2
    <3>4. QED
      BY <3>1, <3>3
  <2> HIDE DEF S
  <2>3. \A n \in Nat : n \in S
    BY <2>1, <2>2, Induction
  <2>4. QED
    BY <2>3 DEF S
<1>13. P \in [Nat -> Seq(Nat)]
  BY <1>9, <1>12
<1>14. QED
  BY <1>10, <1>11, <1>13 DEF P

\* The places are places of the sequence and among those that were asked for.
LEMMA PositionsWithin ==
    ASSUME NEW I, NEW n \in Nat
    PROVE  /\ Positions(I)[n] \in Seq(Nat)
           /\ \A k \in 1..Len(Positions(I)[n]) : Positions(I)[n][k] \in 1..n /\ Positions(I)[n][k] \in I
<1> DEFINE Within(m) == \A k \in 1..Len(Positions(I)[m]) :
                           Positions(I)[m][k] \in 1..m /\ Positions(I)[m][k] \in I
           S == {m \in Nat : Within(m)}
<1>1. 0 \in S
  <2>1. Positions(I)[0] = << >>
    BY PositionsLoop
  <2>2. Len(Positions(I)[0]) = 0
    BY <2>1
  <2>3. QED
    BY <2>2
<1>2. ASSUME NEW m \in Nat, m \in S
      PROVE  m + 1 \in S
  <2>1. PICK p \in Seq(Nat) : p = Positions(I)[m]
    BY PositionsLoop
  <2>2. PICK q \in Seq(Nat) : q = Positions(I)[m + 1]
    <3>1. Positions(I) \in [Nat -> Seq(Nat)] /\ m + 1 \in Nat
      BY PositionsLoop
    <3>2. QED
      BY <3>1
  <2>3. q = IF m + 1 \in I THEN Append(p, m + 1) ELSE p
    BY <2>1, <2>2, PositionsLoop
  <2>4. \A k \in 1..Len(p) : p[k] \in 1..m /\ p[k] \in I
    BY <1>2, <2>1
  <2>5. \A k \in 1..Len(q) : q[k] \in 1..(m + 1) /\ q[k] \in I
    BY <2>3, <2>4
  <2>6. QED
    BY <2>2, <2>5
<1> HIDE DEF S
<1>3. \A m \in Nat : m \in S
  BY <1>1, <1>2, Induction
<1>4. Within(n)
  BY <1>3 DEF S
<1>5. Positions(I)[n] \in Seq(Nat)
  BY PositionsLoop
<1>6. QED
  BY <1>4, <1>5

\* They depend on nothing behind the sequence.
LEMMA PositionsAgree ==
    ASSUME NEW I, NEW J, NEW n \in Nat, \A i \in 1..n : i \in I <=> i \in J
    PROVE  Positions(I)[n] = Positions(J)[n]
<1> DEFINE S == {m \in Nat : m <= n => Positions(I)[m] = Positions(J)[m]}
<1>1. 0 \in S
  BY PositionsLoop
<1>2. ASSUME NEW m \in Nat, m \in S
      PROVE  m + 1 \in S
  <2> SUFFICES ASSUME m + 1 <= n PROVE Positions(I)[m + 1] = Positions(J)[m + 1]
    OBVIOUS
  <2>1. m + 1 \in 1..n /\ m <= n
    OBVIOUS
  <2>2. Positions(I)[m] = Positions(J)[m] /\ (m + 1 \in I <=> m + 1 \in J)
    BY <1>2, <2>1
  <2>3. /\ Positions(I)[m + 1] = IF m + 1 \in I THEN Append(Positions(I)[m], m + 1) ELSE Positions(I)[m]
        /\ Positions(J)[m + 1] = IF m + 1 \in J THEN Append(Positions(J)[m], m + 1) ELSE Positions(J)[m]
    BY PositionsLoop
  <2>4. QED
    BY <2>2, <2>3
<1> HIDE DEF S
<1>3. \A m \in Nat : m \in S
  BY <1>1, <1>2, Induction
<1>4. QED
  BY <1>3 DEF S

\* What is selected, place by place.
LEMMA SelectedPlaces ==
    ASSUME NEW A, NEW s \in Seq(A), NEW I
    PROVE  \E p \in Seq(Nat) :
             /\ p = Positions(I)[Len(s)]
             /\ \A k \in 1..Len(p) : p[k] \in 1..Len(s) /\ p[k] \in I
             /\ Selected(s, I) \in Seq(A) /\ Len(Selected(s, I)) = Len(p)
             /\ \A k \in 1..Len(p) : Selected(s, I)[k] = s[p[k]]
<1>1. Len(s) \in Nat
  OBVIOUS
<1>2. PICK p \in Seq(Nat) : p = Positions(I)[Len(s)]
  BY <1>1, PositionsWithin
<1>3. \A k \in 1..Len(p) : p[k] \in 1..Len(s) /\ p[k] \in I
  BY <1>1, <1>2, PositionsWithin
<1>4. Selected(s, I) = [k \in 1..Len(p) |-> s[p[k]]]
  BY <1>2 DEF Selected
<1>5. \A k \in 1..Len(p) : s[p[k]] \in A
  BY <1>3, ElementOfSeq
<1>6. Len(p) \in Nat
  OBVIOUS
<1>7. QED
  BY <1>2, <1>3, <1>4, <1>5, <1>6

\* One more element is selected or not; what was selected stays.
LEMMA SelectedAppend ==
    ASSUME NEW A, NEW s \in Seq(A), NEW x \in A, NEW I, NEW J,
           \A i \in 1..Len(s) : i \in I <=> i \in J
    PROVE  Selected(Append(s, x), J) =
             IF Len(s) + 1 \in J THEN Append(Selected(s, I), x) ELSE Selected(s, I)
<1> DEFINE t == Append(s, x)
           n == Len(s)
<1>1. t \in Seq(A) /\ Len(t) = n + 1 /\ n \in Nat /\ t[n + 1] = x /\ \A i \in 1..n : t[i] = s[i]
  OBVIOUS
<1> HIDE DEF t
<1>2. PICK p \in Seq(Nat) :
             /\ p = Positions(I)[n]
             /\ \A k \in 1..Len(p) : p[k] \in 1..n /\ p[k] \in I
             /\ Selected(s, I) \in Seq(A) /\ Len(Selected(s, I)) = Len(p)
             /\ \A k \in 1..Len(p) : Selected(s, I)[k] = s[p[k]]
  BY SelectedPlaces
<1>3. PICK q \in Seq(Nat) :
             /\ q = Positions(J)[n + 1]
             /\ \A k \in 1..Len(q) : q[k] \in 1..(n + 1) /\ q[k] \in J
             /\ Selected(t, J) \in Seq(A) /\ Len(Selected(t, J)) = Len(q)
             /\ \A k \in 1..Len(q) : Selected(t, J)[k] = t[q[k]]
  <2>1. \E q \in Seq(Nat) :
             /\ q = Positions(J)[Len(t)]
             /\ \A k \in 1..Len(q) : q[k] \in 1..Len(t) /\ q[k] \in J
             /\ Selected(t, J) \in Seq(A) /\ Len(Selected(t, J)) = Len(q)
             /\ \A k \in 1..Len(q) : Selected(t, J)[k] = t[q[k]]
    <3>1. t \in Seq(A)
      BY <1>1
    <3>2. QED
      BY <3>1, SelectedPlaces
  <2>2. QED
    BY <1>1, <2>1
<1>4. p = Positions(J)[n]
  <2>1. n \in Nat /\ \A i \in 1..n : i \in I <=> i \in J
    BY <1>1
  <2>2. Positions(I)[n] = Positions(J)[n]
    BY <2>1, PositionsAgree
  <2>3. QED
    BY <1>2, <2>2
<1>5. q = IF n + 1 \in J THEN Append(p, n + 1) ELSE p
  BY <1>1, <1>3, <1>4, PositionsLoop
<1> HIDE DEF n
<1>6. PICK u \in Seq(A) : u = Selected(s, I)
  BY <1>2
<1>7. PICK v \in Seq(A) : v = Selected(t, J)
  BY <1>3
<1>8. Len(u) = Len(p) /\ \A k \in 1..Len(p) : u[k] = t[p[k]]
  BY <1>1, <1>2, <1>6
<1>9. Len(v) = Len(q) /\ \A k \in 1..Len(q) : v[k] = t[q[k]]
  BY <1>3, <1>7
<1>10. CASE n + 1 \in J
  <2>1. q = Append(p, n + 1)
    BY <1>5, <1>10
  <2>2. Len(q) = Len(p) + 1 /\ q[Len(p) + 1] = n + 1 /\ \A k \in 1..Len(p) : q[k] = p[k]
    BY <1>1, <2>1
  <2>3. PICK w \in Seq(A) : w = Append(u, x)
    <3>1. Append(u, x) \in Seq(A)
      OBVIOUS
    <3>2. QED
      BY <3>1
  <2>4. Len(w) = Len(u) + 1 /\ w[Len(u) + 1] = x /\ \A k \in 1..Len(u) : w[k] = u[k]
    BY <2>3
  <2>5. Len(v) = Len(w) /\ Len(p) \in Nat
    BY <1>8, <1>9, <2>2, <2>4
  <2>6. ASSUME NEW k \in 1..Len(v) PROVE v[k] = w[k]
    <3>1. CASE k = Len(p) + 1
      BY <1>1, <1>8, <1>9, <2>2, <2>4, <3>1
    <3>2. CASE k # Len(p) + 1
      <4>1. k \in 1..Len(p) /\ k \in 1..Len(u) /\ k \in 1..Len(q)
        BY <1>8, <1>9, <2>2, <2>5, <3>2
      <4>2. QED
        BY <1>8, <1>9, <2>2, <2>4, <4>1
    <3>3. QED
      BY <3>1, <3>2
  <2>7. v = w
    BY <2>5, <2>6, SeqEqual
  <2>8. QED
    BY <1>6, <1>7, <1>10, <2>3, <2>7 DEF t, n
<1>11. CASE n + 1 \notin J
  <2>1. q = p
    BY <1>5, <1>11
  <2>2. Len(u) = Len(v) /\ \A k \in 1..Len(u) : u[k] = v[k]
    BY <1>8, <1>9, <2>1
  <2>3. u = v
    BY <2>2, SeqEqual
  <2>4. QED
    BY <1>6, <1>7, <1>11, <2>3 DEF t, n
<1>12. QED
  BY <1>10, <1>11

-----------------------------------------------------------------------------
(* The SQL builder.                                                         *)

Singles == Texts \cup {"limit", "offset", "distinct", "fields"}
Lists == {"where", "join"}
Clauses == Singles \cup Lists \cup {"union"}

\* What a caller may have called since Reset.
CallNames == Clauses \cup {"ignore"}
Args ==
    Values \cup {"a", "*"} \cup ToSet(Unions) \cup Int \cup BOOLEAN \cup Conditions \cup Joins
Calls == {[f |-> "build"]} \cup [f : CallNames, v : Args]

Builders ==
    [table : {""} \cup Values, group : {""} \cup Values, having : {""} \cup Values,
     order : {""} \cup Values,
     fields : {"", "a", "*", "total"}, limit : Int, offset : Int, distinct : BOOLEAN,
     where : Seq(Conditions), join : Seq(Joins), union : SUBSET ToSet(Unions),
     optype : {"", "insert", "update", "delete"}, inc_fields : SUBSET Columns, ignore : BOOLEAN]

\* The fields of a builder.
Fields ==
    Clauses \cup {"optype", "inc_fields", "ignore"}

\* A record with these fields, each of its kind, is a builder.
LEMMA BuilderIs ==
    ASSUME NEW b, b = [x \in Fields |-> b[x]],
           b.table \in {""} \cup Values, b.group \in {""} \cup Values,
           b.having \in {""} \cup Values, b.order \in {""} \cup Values, b.fields \in {"", "a", "*", "total"}, b.limit \in Int,
           b.offset \in Int, b.distinct \in BOOLEAN, b.where \in Seq(Conditions),
           b.join \in Seq(Joins), b.union \in SUBSET ToSet(Unions),
           b.optype \in {"", "insert", "update", "delete"}, b.inc_fields \in SUBSET Columns,
           b.ignore \in BOOLEAN
    PROVE  b \in Builders
  BY DEF Builders, Fields, Clauses, Singles, Texts, Lists

\* Given and GivenLast for any calls, and the arguments that were given.
GivenIn(cs, f) == Selected(cs, {i \in 1..Len(cs) : cs[i].f = f})
LastIn(cs, f, none) == IF GivenIn(cs, f) = << >> THEN none ELSE Last(GivenIn(cs, f)).v
ArgsIn(cs, f) == [k \in 1..Len(GivenIn(cs, f)) |-> GivenIn(cs, f)[k].v]

\* The builder holds what the calls gave it.
Mirrors(b, cs) ==
    /\ \A f \in Singles : b[f] = LastIn(cs, f, Cleared[f])
    /\ \A f \in Lists : b[f] = ArgsIn(cs, f)
    /\ \A u \in ToSet(Unions) :
         u \in b.union <=> \E i \in 1..Len(cs) : cs[i].f = "union" /\ cs[i].v = u
    /\ LastIn(cs, "fields", "*") = IF b.fields = "" THEN "*" ELSE b.fields

\* A statement has the clauses of the builder.
Says(r, b) ==
    /\ r.op # "" => r.table = b.table
    /\ r.op \in {"select", "insert", "update", "delete"} => r.where = ParseWhere(b.where)
    /\ r.op = "select" =>
         /\ r.join = b.join /\ r.distinct = b.distinct
         /\ r.group = b.group /\ r.having = b.having /\ r.order = b.order
         /\ b.union # {} => r.what = FirstUnion(b.union)

\* A page, which has what SqlSelectCount changes for the count.
IsPage(r, b) == r.limit = b.limit /\ r.offset = b.offset /\ r.what = What(b)

SaysAll(stmts, b) ==
    \A i \in 1..Len(stmts) :
      /\ Says(stmts[i], b)
      /\ stmts[i].op = "select" /\ (i = Len(stmts) - 1 \/ Len(stmts) = 1) =>
           IsPage(stmts[i], b)

SqlerInv ==
    /\ dba \in Builders /\ calls \in Seq(Calls)
    /\ Mirrors(dba, calls) /\ SaysAll(sql, dba)

\* Each of them is one.
LEMMA CallsAre ==
    /\ [f |-> "build"] \in Calls
    /\ \A f \in Texts, v \in Values : [f |-> f, v |-> v] \in Calls
    /\ \A v \in {"a", "*"} : [f |-> "fields", v |-> v] \in Calls
    /\ \A v \in ToSet(Unions) : [f |-> "union", v |-> v] \in Calls
    /\ \A f \in {"limit", "offset"}, n \in Int : [f |-> f, v |-> n] \in Calls
    /\ \A f \in {"distinct", "ignore"} : [f |-> f, v |-> TRUE] \in Calls
    /\ \A c \in Conditions : [f |-> "where", v |-> c] \in Calls
    /\ \A j \in Joins : [f |-> "join", v |-> j] \in Calls
<1>1. [f |-> "build"] \in Calls
  BY DEF Calls
<1>2. ASSUME NEW f \in CallNames, NEW x \in Args PROVE [f |-> f, v |-> x] \in Calls
  BY DEF Calls
<1>3. /\ Texts \cup {"limit", "offset", "distinct", "ignore", "where", "join", "fields", "union"}
             \subseteq CallNames
      /\ Values \subseteq Args /\ {"a", "*"} \subseteq Args /\ ToSet(Unions) \subseteq Args
      /\ Int \subseteq Args /\ TRUE \in Args
      /\ Conditions \subseteq Args /\ Joins \subseteq Args
  BY DEF CallNames, Clauses, Singles, Lists, Args
<1>4. QED
  BY <1>1, <1>2, <1>3

\* A call adds itself to what was given for its clause, and to no other.
LEMMA GivenAppend ==
    ASSUME NEW cs \in Seq(Calls), NEW c \in Calls, NEW f
    PROVE  /\ GivenIn(cs, f) \in Seq(Calls)
           /\ GivenIn(Append(cs, c), f) = IF c.f = f THEN Append(GivenIn(cs, f), c) ELSE GivenIn(cs, f)
<1>1. PICK t \in Seq(Calls) : t = Append(cs, c)
  <2>1. Append(cs, c) \in Seq(Calls)
    OBVIOUS
  <2>2. QED
    BY <2>1
<1>2. Len(t) = Len(cs) + 1 /\ t[Len(cs) + 1] = c /\ (\A i \in 1..Len(cs) : t[i] = cs[i]) /\ Len(cs) \in Nat
  BY <1>1
<1>3. PICK I : I = {i \in 1..Len(cs) : cs[i].f = f}
  OBVIOUS
<1>4. PICK J : J = {i \in 1..Len(t) : t[i].f = f}
  OBVIOUS
<1>5. \A i \in 1..Len(cs) : i \in I <=> i \in J
  BY <1>2, <1>3, <1>4
<1>6. Len(cs) + 1 \in J <=> c.f = f
  BY <1>2, <1>4
<1>7. Selected(t, J) = IF Len(cs) + 1 \in J THEN Append(Selected(cs, I), c) ELSE Selected(cs, I)
  BY <1>1, <1>5, SelectedAppend
<1>8. Selected(cs, I) \in Seq(Calls)
  BY SelectedPlaces
<1>9. GivenIn(cs, f) = Selected(cs, I) /\ GivenIn(t, f) = Selected(t, J)
  BY <1>3, <1>4 DEF GivenIn
<1>10. QED
  BY <1>1, <1>6, <1>7, <1>8, <1>9

\* The last argument given.
LEMMA LastAppend ==
    ASSUME NEW cs \in Seq(Calls), NEW c \in Calls, NEW f, NEW none
    PROVE  LastIn(Append(cs, c), f, none) = IF c.f = f THEN c.v ELSE LastIn(cs, f, none)
<1>1. PICK g \in Seq(Calls) : g = GivenIn(cs, f)
  BY GivenAppend
<1>2. PICK h : h = GivenIn(Append(cs, c), f)
  OBVIOUS
<1>3. h = IF c.f = f THEN Append(g, c) ELSE g
  BY <1>1, <1>2, GivenAppend
<1>4. CASE c.f = f
  <2>1. h = Append(g, c) /\ h # << >> /\ Last(h) = c
    BY <1>3, <1>4 DEF Last
  <2>2. QED
    BY <1>2, <1>4, <2>1 DEF LastIn
<1>5. CASE c.f # f
  BY <1>1, <1>2, <1>3, <1>5 DEF LastIn
<1>6. QED
  BY <1>4, <1>5

\* All arguments given.
LEMMA ArgsAppend ==
    ASSUME NEW cs \in Seq(Calls), NEW c \in Calls, NEW f
    PROVE  ArgsIn(Append(cs, c), f) = IF c.f = f THEN Append(ArgsIn(cs, f), c.v) ELSE ArgsIn(cs, f)
<1>1. PICK g \in Seq(Calls) : g = GivenIn(cs, f)
  BY GivenAppend
<1>2. PICK h : h = GivenIn(Append(cs, c), f)
  OBVIOUS
<1>3. h = IF c.f = f THEN Append(g, c) ELSE g
  BY <1>1, <1>2, GivenAppend
<1>4. CASE c.f = f
  <2>1. PICK V : V = {d.v : d \in Calls}
    OBVIOUS
  <2>2. h = Append(g, c)
    BY <1>3, <1>4
  <2>3. Len(h) = Len(g) + 1 /\ Len(g) \in Nat /\ h[Len(g) + 1] = c /\ \A k \in 1..Len(g) : h[k] = g[k]
    BY <2>2
  <2> DEFINE s == [k \in 1..Len(g) |-> g[k].v]
             t == [k \in 1..Len(h) |-> h[k].v]
  <2>4. \A k \in 1..Len(g) : g[k].v \in V
    BY <2>1
  <2>5. s \in Seq(V) /\ Len(s) = Len(g) /\ \A k \in 1..Len(g) : s[k] = g[k].v
    BY <2>3, <2>4
  <2>6. c.v \in V
    BY <2>1
  <2>7. \A k \in 1..Len(h) : h[k].v \in V
    <3> TAKE k \in 1..Len(h)
    <3>1. CASE k = Len(g) + 1
      BY <2>3, <2>6, <3>1
    <3>2. CASE k # Len(g) + 1
      <4>1. k \in 1..Len(g)
        BY <2>3, <3>2
      <4>2. QED
        BY <2>3, <2>4, <4>1
    <3>3. QED
      BY <3>1, <3>2
  <2>8. t \in Seq(V) /\ Len(t) = Len(g) + 1 /\ \A k \in 1..Len(h) : t[k] = h[k].v
    BY <2>3, <2>7
  <2> HIDE DEF s, t
  <2>9. PICK u \in Seq(V) : u = Append(s, c.v)
    <3>1. Append(s, c.v) \in Seq(V)
      BY <2>5, <2>6
    <3>2. QED
      BY <3>1
  <2>10. Len(u) = Len(g) + 1 /\ u[Len(g) + 1] = c.v /\ \A k \in 1..Len(g) : u[k] = s[k]
    BY <2>5, <2>6, <2>9
  <2>11. ASSUME NEW k \in 1..Len(t) PROVE t[k] = u[k]
    <3>1. CASE k = Len(g) + 1
      BY <2>3, <2>8, <2>10, <3>1
    <3>2. CASE k # Len(g) + 1
      <4>1. k \in 1..Len(g) /\ k \in 1..Len(h)
        BY <2>3, <2>8, <3>2
      <4>2. QED
        BY <2>3, <2>5, <2>8, <2>10, <4>1
    <3>3. QED
      BY <3>1, <3>2
  <2>12. t = u
    BY <2>8, <2>10, <2>11, SeqEqual
  <2>13. ArgsIn(cs, f) = s /\ ArgsIn(Append(cs, c), f) = t
    BY <1>1, <1>2 DEF ArgsIn, s, t
  <2>14. QED
    BY <1>4, <2>9, <2>12, <2>13
<1>5. CASE c.f # f
  BY <1>1, <1>2, <1>3, <1>5 DEF ArgsIn
<1>6. QED
  BY <1>4, <1>5

\* The call c changes its own clause and no other.
Follows(b2, b, c) ==
    /\ \A f \in Singles : b2[f] = IF c.f = f THEN c.v ELSE b[f]
    /\ \A f \in Lists : b2[f] = IF c.f = f THEN Append(b[f], c.v) ELSE b[f]
    /\ b2.union = IF c.f = "union" THEN b.union \cup {c.v} ELSE b.union
    /\ c.f = "fields" => c.v # ""

\* Such a call leaves the builder a mirror.
LEMMA MirrorsAppend ==
    ASSUME NEW cs \in Seq(Calls), NEW c \in Calls, NEW b, NEW b2, Mirrors(b, cs), Follows(b2, b, c)
    PROVE  Mirrors(b2, Append(cs, c))
<1>1. ASSUME NEW f \in Singles PROVE b2[f] = LastIn(Append(cs, c), f, Cleared[f])
  <2>1. PICK none : none = Cleared[f]
    OBVIOUS
  <2>2. LastIn(Append(cs, c), f, none) = IF c.f = f THEN c.v ELSE LastIn(cs, f, none)
    BY LastAppend
  <2>3. b2[f] = (IF c.f = f THEN c.v ELSE b[f]) /\ b[f] = LastIn(cs, f, none)
    BY <2>1 DEF Follows, Mirrors
  <2>4. QED
    BY <2>1, <2>2, <2>3
<1>2. ASSUME NEW f \in Lists PROVE b2[f] = ArgsIn(Append(cs, c), f)
  <2>1. ArgsIn(Append(cs, c), f) = IF c.f = f THEN Append(ArgsIn(cs, f), c.v) ELSE ArgsIn(cs, f)
    BY ArgsAppend
  <2>2. b2[f] = (IF c.f = f THEN Append(b[f], c.v) ELSE b[f]) /\ b[f] = ArgsIn(cs, f)
    BY DEF Follows, Mirrors
  <2>3. QED
    BY <2>1, <2>2
<1>3. ASSUME NEW u \in ToSet(Unions)
      PROVE  u \in b2.union <=> \E i \in 1..Len(Append(cs, c)) : Append(cs, c)[i].f = "union" /\ Append(cs, c)[i].v = u
  <2>1. PICK t \in Seq(Calls) : t = Append(cs, c)
    BY AppendProperties
  <2>2. Len(t) = Len(cs) + 1 /\ t[Len(cs) + 1] = c /\ (\A i \in 1..Len(cs) : t[i] = cs[i]) /\ Len(cs) \in Nat
    BY <2>1
  <2>3. u \in b.union <=> \E i \in 1..Len(cs) : cs[i].f = "union" /\ cs[i].v = u
    BY DEF Mirrors
  <2>4. u \in b2.union <=> (u \in b.union \/ (c.f = "union" /\ c.v = u))
    BY DEF Follows
  <2>5. (\E i \in 1..Len(t) : t[i].f = "union" /\ t[i].v = u)
          <=> \/ \E i \in 1..Len(cs) : cs[i].f = "union" /\ cs[i].v = u
              \/ c.f = "union" /\ c.v = u
    <3>1. ASSUME NEW i \in 1..Len(t), t[i].f = "union", t[i].v = u
          PROVE  \/ \E k \in 1..Len(cs) : cs[k].f = "union" /\ cs[k].v = u
                 \/ c.f = "union" /\ c.v = u
      <4>1. CASE i = Len(cs) + 1
        BY <2>2, <3>1, <4>1
      <4>2. CASE i # Len(cs) + 1
        <5>1. i \in 1..Len(cs)
          BY <2>2, <4>2
        <5>2. QED
          BY <2>2, <3>1, <5>1
      <4>3. QED
        BY <4>1, <4>2
    <3>2. ASSUME NEW i \in 1..Len(cs), cs[i].f = "union", cs[i].v = u
          PROVE  \E k \in 1..Len(t) : t[k].f = "union" /\ t[k].v = u
      <4>1. i \in 1..Len(t) /\ t[i] = cs[i]
        BY <2>2
      <4>2. QED
        BY <3>2, <4>1
    <3>3. ASSUME c.f = "union", c.v = u
          PROVE  \E k \in 1..Len(t) : t[k].f = "union" /\ t[k].v = u
      <4>1. Len(cs) + 1 \in 1..Len(t)
        BY <2>2
      <4>2. QED
        BY <2>2, <3>3, <4>1
    <3>4. QED
      BY <3>1, <3>2, <3>3
  <2>6. QED
    BY <2>1, <2>3, <2>4, <2>5
<1>4. LastIn(Append(cs, c), "fields", "*") = IF b2.fields = "" THEN "*" ELSE b2.fields
  <2>1. LastIn(Append(cs, c), "fields", "*") = IF c.f = "fields" THEN c.v ELSE LastIn(cs, "fields", "*")
    BY LastAppend
  <2>2. LastIn(cs, "fields", "*") = IF b.fields = "" THEN "*" ELSE b.fields
    BY DEF Mirrors
  <2>3. b2.fields = (IF c.f = "fields" THEN c.v ELSE b.fields) /\ (c.f = "fields" => c.v # "")
    BY DEF Follows, Singles
  <2>4. QED
    BY <2>1, <2>2, <2>3
<1>5. QED
  BY <1>1, <1>2, <1>3, <1>4 DEF Mirrors

\* An empty builder mirrors no calls.
LEMMA MirrorsNothing ==
    ASSUME NEW b, \A f \in Clauses : b[f] = Cleared[f]
    PROVE  Mirrors(b, << >>)
<1>1. PICK cs \in Seq(Calls) : cs = << >>
  BY EmptySeq
<1>2. Len(cs) = 0
  BY <1>1
<1>3. ASSUME NEW f PROVE GivenIn(cs, f) = << >>
  <2>1. PICK I : I = {i \in 1..Len(cs) : cs[i].f = f}
    OBVIOUS
  <2>2. Positions(I)[0] = << >>
    BY PositionsLoop
  <2>3. Selected(cs, I) \in Seq(Calls) /\ Len(Selected(cs, I)) = Len(Positions(I)[0])
    <3>1. \E p \in Seq(Nat) :
             /\ p = Positions(I)[Len(cs)]
             /\ \A k \in 1..Len(p) : p[k] \in 1..Len(cs) /\ p[k] \in I
             /\ Selected(cs, I) \in Seq(Calls) /\ Len(Selected(cs, I)) = Len(p)
             /\ \A k \in 1..Len(p) : Selected(cs, I)[k] = cs[p[k]]
      BY SelectedPlaces
    <3>2. QED
      BY <1>2, <3>1
  <2>4. Len(Selected(cs, I)) = 0
    BY <2>2, <2>3
  <2>5. Selected(cs, I) = << >>
    BY <2>3, <2>4, EmptySeq
  <2>6. QED
    BY <2>1, <2>5 DEF GivenIn
<1>4. ASSUME NEW f \in Singles PROVE b[f] = LastIn(cs, f, Cleared[f])
  BY <1>3 DEF LastIn, Clauses
<1>5. ASSUME NEW f \in Lists PROVE b[f] = ArgsIn(cs, f)
  <2>1. b[f] = << >>
    BY DEF Clauses, Lists, Cleared
  <2>2. ArgsIn(cs, f) = << >>
    BY <1>3 DEF ArgsIn
  <2>3. QED
    BY <2>1, <2>2
<1>6. ASSUME NEW u \in ToSet(Unions)
      PROVE  u \in b.union <=> \E i \in 1..Len(cs) : cs[i].f = "union" /\ cs[i].v = u
  <2>1. b.union = {}
    BY DEF Clauses, Cleared
  <2>2. QED
    BY <1>2, <2>1
<1>7. LastIn(cs, "fields", "*") = IF b.fields = "" THEN "*" ELSE b.fields
  <2>1. b.fields = ""
    BY DEF Clauses, Singles, Cleared
  <2>2. LastIn(cs, "fields", "*") = "*"
    BY <1>3 DEF LastIn
  <2>3. QED
    BY <2>1, <2>2
<1>8. QED
  BY <1>1, <1>4, <1>5, <1>6, <1>7 DEF Mirrors

\* The clauses of a statement.
LEMMA QuerySays ==
    ASSUME NEW b \in Builders
    PROVE  \/ BuildQuery(b) = << >>
           \/ /\ ~(JoinFails(b.join) \/ WhereFails(b.where))
              /\ \E r : BuildQuery(b) = <<r>> /\ Says(r, b) /\ IsPage(r, b)
<1>1. PICK w : w = What(b)
  OBVIOUS
<1>2. PICK p : p = ParseWhere(b.where)
  OBVIOUS
<1>3. PICK r : r = With([op |-> "select", what |-> w, where |-> p],
                        [f \in Texts \cup {"distinct", "join", "limit", "offset"} |-> b[f]])
  OBVIOUS
<1>4. /\ r.op = "select" /\ r.what = w /\ r.where = p /\ r.table = b.table /\ r.join = b.join
      /\ r.distinct = b.distinct /\ r.group = b.group /\ r.having = b.having
      /\ r.order = b.order /\ r.limit = b.limit /\ r.offset = b.offset
  BY <1>3 DEF With, Texts
<1>5. BuildQuery(b) = << >> \/ (~(JoinFails(b.join) \/ WhereFails(b.where)) /\ BuildQuery(b) = <<r>>)
  BY <1>1, <1>2, <1>3 DEF BuildQuery
<1>6. Says(r, b)
  <2>1. b.union # {} => w = FirstUnion(b.union)
    BY <1>1 DEF What
  <2>2. QED
    BY <1>2, <1>4, <2>1 DEF Says
<1>7. IsPage(r, b)
  BY <1>1, <1>4 DEF IsPage
<1>8. QED
  BY <1>5, <1>6, <1>7

\* The clauses of an insert, an update or a delete.
LEMMA ExecutSays ==
    ASSUME NEW b \in Builders, NEW d, b.optype \in {"insert", "update"}
    PROVE  \/ BuildExecut(b, d) = << >>
           \/ \E r : /\ BuildExecut(b, d) = <<r>> /\ Says(r, b) /\ r.op = b.optype
                     /\ {"op", "table", "where"} \subseteq DOMAIN r
<1>1. PICK p : p = ParseWhere(b.where)
  OBVIOUS
<1>2. PICK x : x = BuildData(b, d)
  OBVIOUS
<1>3. PICK stmt : stmt = [op |-> b.optype, table |-> b.table, where |-> p]
  OBVIOUS
<1>4. PICK k : k = [ignore |-> b.ignore, keys |-> x.keys, rows |-> x.rows]
  OBVIOUS
<1>5. PICK u : u = [set |-> x.set]
  OBVIOUS
<1>6. \/ BuildExecut(b, d) = << >>
      \/ BuildExecut(b, d) = <<With(stmt, k)>> \/ BuildExecut(b, d) = <<With(stmt, u)>>
  BY <1>1, <1>2, <1>3, <1>4, <1>5 DEF BuildExecut
<1>7. ASSUME NEW s
      PROVE  /\ Says(With(stmt, s), b) /\ With(stmt, s).op = b.optype
             /\ {"op", "table", "where"} \subseteq DOMAIN With(stmt, s)
  <2>1. PICK r : r = With(stmt, s)
    OBVIOUS
  <2>2. r.op = b.optype /\ r.table = b.table /\ r.where = p /\ {"op", "table", "where"} \subseteq DOMAIN r
    BY <1>3, <2>1 DEF With
  <2>3. QED
    BY <1>1, <2>1, <2>2 DEF Says
<1>8. QED
  BY <1>6, <1>7

\* Of one statement, or none, that is said of all.
LEMMA SaysOne ==
    ASSUME NEW b, NEW stmts,
           \/ stmts = << >>
           \/ \E r : /\ stmts = <<r>> /\ Says(r, b)
                     /\ r.op = "select" => IsPage(r, b)
    PROVE  SaysAll(stmts, b)
<1>1. CASE stmts = << >>
  BY <1>1 DEF SaysAll
<1>2. CASE stmts # << >>
  <2>1. PICK r : /\ stmts = <<r>> /\ Says(r, b)
                 /\ r.op = "select" => IsPage(r, b)
    BY <1>2
  <2>2. Len(stmts) = 1 /\ stmts[1] = r
    BY <2>1
  <2>3. ASSUME NEW i \in 1..Len(stmts) PROVE stmts[i] = r
    BY <2>2
  <2>4. QED
    BY <2>1, <2>3 DEF SaysAll
<1>3. QED
  BY <1>1, <1>2

\* What a statement says does not depend on the other fields.
LEMMA SaysSame ==
    ASSUME NEW r, NEW b, NEW b2, Says(r, b),
           \A f \in Texts \cup {"where", "join", "distinct", "union"} : b2[f] = b[f]
    PROVE  Says(r, b2)
  BY DEF Says, Texts

\* A call that puts a clause in.
LEMMA PutKeeps ==
    ASSUME SqlerInv, NEW c \in Calls, NEW b \in Builders, Put(c, b), Follows(b, dba, c)
    PROVE  SqlerInv'
<1>1. calls' = Append(calls, c) /\ dba' = b /\ sql' = << >>
  BY DEF Put
<1>2. PICK cs \in Seq(Calls) : cs = calls
  BY DEF SqlerInv
<1>3. PICK b1 : b1 = dba
  OBVIOUS
<1>4. Mirrors(b1, cs)
  BY <1>2, <1>3 DEF SqlerInv
<1>5. Follows(b, b1, c)
  BY <1>3
<1>6. Mirrors(b, Append(cs, c)) /\ Append(cs, c) \in Seq(Calls)
  BY <1>4, <1>5, MirrorsAppend
<1>7. SaysAll(<< >>, b)
  BY SaysOne
<1>8. QED
  BY <1>1, <1>2, <1>6, <1>7 DEF SqlerInv

\* A call that builds statements and may put a clause in as well.
LEMMA BuiltByKeeps ==
    ASSUME SqlerInv, NEW c \in Calls, NEW b \in Builders, NEW stmts, BuiltBy(c, b, stmts),
           Follows(b, dba, c), SaysAll(stmts, b)
    PROVE  SqlerInv'
<1>1. calls' = Append(calls, c) /\ dba' = b /\ sql' = stmts
  BY DEF BuiltBy
<1>2. PICK cs \in Seq(Calls) : cs = calls
  BY DEF SqlerInv
<1>3. PICK b1 : b1 = dba
  OBVIOUS
<1>4. Mirrors(b1, cs)
  BY <1>2, <1>3 DEF SqlerInv
<1>5. Follows(b, b1, c)
  BY <1>3
<1>6. Mirrors(b, Append(cs, c)) /\ Append(cs, c) \in Seq(Calls)
  BY <1>4, <1>5, MirrorsAppend
<1>7. QED
  BY <1>1, <1>2, <1>6 DEF SqlerInv

\* One that changes no clause.
LEMMA BuiltKeeps ==
    ASSUME SqlerInv, NEW b \in Builders, NEW stmts, Built(b, stmts),
           \A f \in Clauses : b[f] = dba[f], SaysAll(stmts, b)
    PROVE  SqlerInv'
<1>1. PICK c \in Calls : c = [f |-> "build"]
  BY CallsAre, Zenon
<1>2. PICK b1 : b1 = dba
  OBVIOUS
<1>3. Follows(b, b1, c)
  <2>1. c.f \notin Singles /\ c.f \notin Lists /\ c.f # "union" /\ c.f # "fields"
    BY <1>1 DEF Singles, Texts, Lists
  <2>2. QED
    BY <1>2, <2>1 DEF Follows, Clauses
<1>4. Follows(b, dba, c)
  BY <1>2, <1>3
<1>5. BuiltBy(c, b, stmts)
  BY <1>1 DEF Built
<1>6. QED
  BY <1>4, <1>5, BuiltByKeeps

\* A new builder mirrors no calls and has built nothing.
LEMMA SqlerInitInv ==
    NewSqler => SqlerInv
<1> HAVE NewSqler
<1>1. calls = << >> /\ sql = << >> /\ dba = With(Cleared, Kept)
  BY DEF NewSqler
<1>2. dba \in Builders
  <2>1. PICK b : b = With(Cleared, Kept)
    OBVIOUS
  <2>2. b = [x \in Fields |-> b[x]]
    BY <2>1 DEF With, Cleared, Kept, Fields, Clauses, Singles, Texts, Lists
  <2>3. /\ b.table = "" /\ b.group = "" /\ b.having = "" /\ b.order = "" /\ b.fields = ""
        /\ b.limit = 0 /\ b.offset = 0 /\ b.distinct = FALSE /\ b.where = << >> /\ b.join = << >>
        /\ b.union = {} /\ b.optype = "" /\ b.inc_fields = {} /\ b.ignore = FALSE
    BY <2>1 DEF With, Cleared, Kept
  <2>4. b.where \in Seq(Conditions) /\ b.join \in Seq(Joins)
    BY <2>3, EmptySeq
  <2>5. /\ b.table \in {""} \cup Values /\ b.group \in {""} \cup Values /\ b.having \in {""} \cup Values
        /\ b.order \in {""} \cup Values /\ b.fields \in {"", "a", "*", "total"} /\ b.limit \in Int
        /\ b.offset \in Int /\ b.distinct \in BOOLEAN /\ b.union \in SUBSET ToSet(Unions)
        /\ b.optype \in {"", "insert", "update", "delete"} /\ b.inc_fields \in SUBSET Columns
        /\ b.ignore \in BOOLEAN
    <3>1. b.table \in {""} \cup Values /\ b.group \in {""} \cup Values /\ b.having \in {""} \cup Values
      BY <2>3, Zenon
    <3>2. b.order \in {""} \cup Values /\ b.fields \in {"", "a", "*", "total"}
      BY <2>3, Zenon
    <3>3. b.limit \in Int /\ b.offset \in Int
      <4>1. b.limit = 0 /\ b.offset = 0
        BY <2>3, Zenon
      <4>2. QED
        BY <4>1
    <3>4. b.distinct \in BOOLEAN /\ b.ignore \in BOOLEAN
      BY <2>3, Zenon
    <3>5. b.union \in SUBSET ToSet(Unions) /\ b.inc_fields \in SUBSET Columns
      BY <2>3, Zenon
    <3>6. b.optype \in {"", "insert", "update", "delete"}
      BY <2>3, Zenon
    <3>7. QED
      BY <3>1, <3>2, <3>3, <3>4, <3>5, <3>6
  <2>6. b \in Builders
    BY <2>2, <2>4, <2>5, BuilderIs, Zenon
  <2>7. QED
    BY <1>1, <2>1, <2>6
<1>3. PICK b : b = dba
  OBVIOUS
<1>4. \A f \in Clauses : b[f] = Cleared[f]
  BY <1>1, <1>3 DEF With, Clauses, Singles, Texts, Lists, Cleared, Kept
<1>5. Mirrors(b, << >>) /\ SaysAll(<< >>, b)
  BY <1>4, MirrorsNothing, SaysOne
<1>6. << >> \in Seq(Calls)
  BY EmptySeq
<1>7. QED
  BY <1>1, <1>2, <1>3, <1>5, <1>6 DEF SqlerInv

\* Reset clears every field a clause is kept in, so the calls begin anew.
LEMMA ResetKeeps ==
    ASSUME SqlerInv, Reset
    PROVE  SqlerInv'
<1>1. PICK b1 \in Builders : b1 = dba
  BY DEF SqlerInv
<1>2. PICK b : b = With(Cleared, b1)
  OBVIOUS
<1>3. calls' = << >> /\ sql' = << >> /\ dba' = b
  BY <1>1, <1>2 DEF Reset
<1>4. b \in Builders
  <2>1. b = [x \in Fields |-> b[x]]
    BY <1>2 DEF With, Cleared, Builders, Fields, Clauses, Singles, Texts, Lists
  <2>2. /\ b.table = "" /\ b.group = "" /\ b.having = "" /\ b.order = "" /\ b.fields = ""
        /\ b.limit = 0 /\ b.offset = 0 /\ b.distinct = FALSE /\ b.where = << >> /\ b.join = << >>
        /\ b.union = {}
    BY <1>2 DEF With, Cleared
  <2>3. /\ b.optype \in {"", "insert", "update", "delete"}
        /\ b.inc_fields \in SUBSET Columns /\ b.ignore \in BOOLEAN
    BY <1>2 DEF With, Cleared, Builders
  <2>4. b.where \in Seq(Conditions) /\ b.join \in Seq(Joins)
    BY <2>2, EmptySeq
  <2>5. /\ b.table \in {""} \cup Values /\ b.group \in {""} \cup Values /\ b.having \in {""} \cup Values
        /\ b.order \in {""} \cup Values /\ b.fields \in {"", "a", "*", "total"} /\ b.limit \in Int
        /\ b.offset \in Int /\ b.distinct \in BOOLEAN /\ b.union \in SUBSET ToSet(Unions)
        /\ b.optype \in {"", "insert", "update", "delete"} /\ b.inc_fields \in SUBSET Columns
        /\ b.ignore \in BOOLEAN
    <3>1. b.table \in {""} \cup Values /\ b.group \in {""} \cup Values /\ b.having \in {""} \cup Values
      BY <2>2, <2>3, Zenon
    <3>2. b.order \in {""} \cup Values /\ b.fields \in {"", "a", "*", "total"}
      BY <2>2, <2>3, Zenon
    <3>3. b.limit \in Int /\ b.offset \in Int
      <4>1. b.limit = 0 /\ b.offset = 0
        BY <2>2, <2>3, Zenon
      <4>2. QED
        BY <4>1
    <3>4. b.distinct \in BOOLEAN /\ b.ignore \in BOOLEAN
      BY <2>2, <2>3, Zenon
    <3>5. b.union \in SUBSET ToSet(Unions) /\ b.inc_fields \in SUBSET Columns
      BY <2>2, <2>3, Zenon
    <3>6. b.optype \in {"", "insert", "update", "delete"}
      BY <2>2, <2>3, Zenon
    <3>7. QED
      BY <3>1, <3>2, <3>3, <3>4, <3>5, <3>6
  <2>6. QED
    BY <2>1, <2>4, <2>5, BuilderIs, Zenon
<1>5. \A f \in Clauses : b[f] = Cleared[f]
  BY <1>2 DEF With, Clauses, Singles, Texts, Lists, Cleared
<1>6. Mirrors(b, << >>) /\ SaysAll(<< >>, b)
  BY <1>5, MirrorsNothing, SaysOne
<1>7. << >> \in Seq(Calls)
  BY EmptySeq
<1>8. QED
  BY <1>3, <1>4, <1>6, <1>7 DEF SqlerInv

\* Each call that puts a clause in changes its own field alone.
LEMMA PuttingKeeps ==
    ASSUME SqlerInv,
           \/ \E f \in Texts, v \in Values : SetText(f, v)
           \/ \E n \in Sizes : Limit(n) \/ Offset(n) \/ Page(n)
           \/ \E c \in Conditions : Where(c)
           \/ \E j \in Joins : Join(j)
           \/ Distinct \/ Ignore
    PROVE  SqlerInv'
<1>1. PICK b1 \in Builders : b1 = dba
  BY DEF SqlerInv
<1>2. ASSUME NEW f \in Texts, NEW v \in Values, SetText(f, v) PROVE SqlerInv'
  <2>1. PICK c \in Calls : c = [f |-> f, v |-> v]
    BY CallsAre, Zenon
  <2>2. PICK b : b = [b1 EXCEPT ![f] = v]
    OBVIOUS
  <2>3. b \in Builders
    <3>1. f = "table" \/ f = "group" \/ f = "having" \/ f = "order"
      BY DEF Texts
    <3>2. CASE f = "table"
      BY <2>2, <3>2 DEF Builders
    <3>3. CASE f = "group"
      BY <2>2, <3>3 DEF Builders
    <3>4. CASE f = "having"
      BY <2>2, <3>4 DEF Builders
    <3>5. CASE f = "order"
      BY <2>2, <3>5 DEF Builders
    <3>6. QED
      BY <3>1, <3>2, <3>3, <3>4, <3>5
  <2>4. Follows(b, b1, c)
    BY <2>1, <2>2 DEF Follows, Builders, Singles, Texts, Lists
  <2>5. Put(c, b) /\ Follows(b, dba, c)
    BY <1>1, <1>2, <2>1, <2>2, <2>4 DEF SetText
  <2>6. QED
    BY <2>3, <2>5, PutKeeps
<1>3. ASSUME NEW g \in {"limit", "offset"}, NEW n \in Int, Put([f |-> g, v |-> n], [dba EXCEPT ![g] = n])
      PROVE  SqlerInv'
  <2>1. PICK c \in Calls : c = [f |-> g, v |-> n]
    BY CallsAre, Zenon
  <2>2. PICK b : b = [b1 EXCEPT ![g] = n]
    OBVIOUS
  <2>3. b \in Builders
    BY <2>2 DEF Builders
  <2>4. Follows(b, b1, c)
    BY <2>1, <2>2 DEF Follows, Builders, Singles, Texts, Lists
  <2>5. Put(c, b) /\ Follows(b, dba, c)
    BY <1>1, <1>3, <2>1, <2>2, <2>4
  <2>6. QED
    BY <2>3, <2>5, PutKeeps
<1>4. ASSUME NEW n \in Sizes, Limit(n) \/ Offset(n) \/ Page(n) PROVE SqlerInv'
  <2>1. n \in Int /\ (n - 1) * b1.limit \in Int
    <3>1. n \in Int
      BY SqlerAssumption
    <3>2. PICK l \in Int : l = b1.limit
      BY DEF Builders
    <3>3. (n - 1) * l \in Int
      BY <3>1
    <3>4. QED
      BY <3>1, <3>2, <3>3
  <2>2. CASE Limit(n)
    BY <1>3, <2>1, <2>2 DEF Limit
  <2>3. CASE Offset(n)
    BY <1>3, <2>1, <2>3 DEF Offset
  <2>4. CASE Page(n)
    <3>1. PICK m \in Int : m = (n - 1) * b1.limit
      BY <2>1
    <3>2. Put([f |-> "offset", v |-> m], [dba EXCEPT !["offset"] = m])
      BY <1>1, <2>4, <3>1 DEF Page
    <3>3. QED
      BY <1>3, <3>2
  <2>5. QED
    BY <1>4, <2>2, <2>3, <2>4
<1>5. ASSUME NEW x \in Conditions, Where(x) PROVE SqlerInv'
  <2>1. PICK c \in Calls : c = [f |-> "where", v |-> x]
    BY CallsAre, Zenon
  <2>2. PICK b : b = [b1 EXCEPT !.where = Append(b1.where, x)]
    OBVIOUS
  <2>3. b \in Builders
    <3>1. b1.where \in Seq(Conditions)
      BY DEF Builders
    <3>2. PICK s \in Seq(Conditions) : s = Append(b1.where, x)
      BY <3>1, AppendProperties
    <3>3. b = [b1 EXCEPT !.where = s]
      BY <2>2, <3>2
    <3>4. QED
      BY <3>3 DEF Builders
  <2>4. Follows(b, b1, c)
    BY <2>1, <2>2 DEF Follows, Builders, Singles, Texts, Lists
  <2>5. Put(c, b) /\ Follows(b, dba, c)
    BY <1>1, <1>5, <2>1, <2>2, <2>4 DEF Where
  <2>6. QED
    BY <2>3, <2>5, PutKeeps
<1>6. ASSUME NEW x \in Joins, Join(x) PROVE SqlerInv'
  <2>1. PICK c \in Calls : c = [f |-> "join", v |-> x]
    BY CallsAre, Zenon
  <2>2. PICK b : b = [b1 EXCEPT !.join = Append(b1.join, x)]
    OBVIOUS
  <2>3. b \in Builders
    <3>1. b1.join \in Seq(Joins)
      BY DEF Builders
    <3>2. PICK s \in Seq(Joins) : s = Append(b1.join, x)
      BY <3>1, AppendProperties
    <3>3. b = [b1 EXCEPT !.join = s]
      BY <2>2, <3>2
    <3>4. QED
      BY <3>3 DEF Builders
  <2>4. Follows(b, b1, c)
    BY <2>1, <2>2 DEF Follows, Builders, Singles, Texts, Lists
  <2>5. Put(c, b) /\ Follows(b, dba, c)
    BY <1>1, <1>6, <2>1, <2>2, <2>4 DEF Join
  <2>6. QED
    BY <2>3, <2>5, PutKeeps
<1>7. ASSUME Distinct PROVE SqlerInv'
  <2>1. PICK c \in Calls : c = [f |-> "distinct", v |-> TRUE]
    BY CallsAre, Zenon
  <2>2. PICK b : b = [b1 EXCEPT !.distinct = TRUE]
    OBVIOUS
  <2>3. b \in Builders
    BY <2>2 DEF Builders
  <2>4. Follows(b, b1, c)
    BY <2>1, <2>2 DEF Follows, Builders, Singles, Texts, Lists
  <2>5. Put(c, b) /\ Follows(b, dba, c)
    BY <1>1, <1>7, <2>1, <2>2, <2>4 DEF Distinct
  <2>6. QED
    BY <2>3, <2>5, PutKeeps
<1>8. ASSUME Ignore PROVE SqlerInv'
  <2>1. PICK c \in Calls : c = [f |-> "ignore", v |-> TRUE]
    BY CallsAre, Zenon
  <2>2. PICK b : b = [b1 EXCEPT !.ignore = TRUE]
    OBVIOUS
  <2>3. b \in Builders
    BY <2>2 DEF Builders
  <2>4. Follows(b, b1, c)
    BY <2>1, <2>2 DEF Follows, Builders, Singles, Texts, Lists
  <2>5. Put(c, b) /\ Follows(b, dba, c)
    BY <1>1, <1>8, <2>1, <2>2, <2>4 DEF Ignore
  <2>6. QED
    BY <2>3, <2>5, PutKeeps
<1>9. QED
  BY <1>2, <1>4, <1>5, <1>6, <1>7, <1>8

\* A query leaves every clause as it is.
LEMMA QueryKeeps ==
    ASSUME SqlerInv, NEW b \in Builders, Built(b, BuildQuery(b)),
           \A f \in Clauses : b[f] = dba[f]
    PROVE  SqlerInv'
<1>1. PICK stmts : stmts = BuildQuery(b)
  OBVIOUS
<1>2. SaysAll(stmts, b)
  BY <1>1, QuerySays, SaysOne
<1>3. Built(b, stmts)
  BY <1>1
<1>4. QED
  BY <1>2, <1>3, BuiltKeeps

\* One that puts a clause in first.
LEMMA QueryByKeeps ==
    ASSUME SqlerInv, NEW c \in Calls, NEW b \in Builders, BuiltBy(c, b, BuildQuery(b)),
           Follows(b, dba, c)
    PROVE  SqlerInv'
<1>1. PICK stmts : stmts = BuildQuery(b)
  OBVIOUS
<1>2. SaysAll(stmts, b)
  BY <1>1, QuerySays, SaysOne
<1>3. BuiltBy(c, b, stmts)
  BY <1>1
<1>4. QED
  BY <1>2, <1>3, BuiltByKeeps

\* Select keeps the fields it is told.
LEMMA SelectKeeps ==
    ASSUME SqlerInv, Select \/ SelectFields("a")
    PROVE  SqlerInv'
<1>1. PICK b1 \in Builders : b1 = dba
  BY DEF SqlerInv
<1>2. CASE Select
  <2>1. Built(b1, BuildQuery(b1))
    BY <1>1, <1>2 DEF Select
  <2>2. QED
    BY <1>1, <2>1, QueryKeeps
<1>3. CASE SelectFields("a")
  <2>1. PICK c \in Calls : c = [f |-> "fields", v |-> "a"]
    BY CallsAre, Zenon
  <2>2. PICK b : b = [b1 EXCEPT !.fields = "a"]
    OBVIOUS
  <2>3. b \in Builders
    BY <2>2 DEF Builders
  <2>4. Follows(b, b1, c)
    BY <2>1, <2>2 DEF Follows, Builders, Singles, Texts, Lists
  <2>5. BuiltBy(c, b, BuildQuery(b)) /\ Follows(b, dba, c)
    BY <1>1, <1>3, <2>1, <2>2, <2>4 DEF SelectFields
  <2>6. QED
    BY <2>3, <2>5, QueryByKeeps
<1>4. QED
  BY <1>2, <1>3

\* An aggregate stays set.
LEMMA UnionKeeps ==
    ASSUME SqlerInv, NEW u \in ToSet(Unions), Union(u)
    PROVE  SqlerInv'
<1>1. PICK b1 \in Builders : b1 = dba
  BY DEF SqlerInv
<1>2. PICK us : us = b1.union \cup {u}
  OBVIOUS
<1>3. us \in SUBSET ToSet(Unions)
  BY <1>2 DEF Builders
<1>4. PICK b : b = [b1 EXCEPT !.union = us]
  OBVIOUS
<1>5. b \in Builders
  BY <1>3, <1>4 DEF Builders
<1>6. PICK c \in Calls : c = [f |-> "union", v |-> u]
  BY CallsAre, Zenon
<1>7. Follows(b, b1, c)
  BY <1>2, <1>4, <1>6 DEF Follows, Builders, Singles, Texts, Lists
<1>8. BuiltBy(c, b, BuildQuery(b)) /\ Follows(b, dba, c)
  BY <1>1, <1>2, <1>4, <1>6, <1>7 DEF Union, BuildUnion
<1>9. QED
  BY <1>5, <1>8, QueryByKeeps

\* Insert, InsertBatch and Update.
LEMMA ExecutKeeps ==
    ASSUME SqlerInv, NEW b \in Builders, NEW d, Built(b, BuildExecut(b, d)), b.optype \in {"insert", "update"},
           \A f \in Clauses : b[f] = dba[f]
    PROVE  SqlerInv'
<1>1. PICK stmts : stmts = BuildExecut(b, d)
  OBVIOUS
<1>2. SaysAll(stmts, b)
  BY <1>1, ExecutSays, SaysOne
<1>3. Built(b, stmts)
  BY <1>1
<1>4. QED
  BY <1>2, <1>3, BuiltKeeps

\* Inserting, as a builder.
LEMMA InsertingIs ==
    ASSUME SqlerInv
    PROVE  \E b \in Builders : /\ b = Inserting /\ b.optype = "insert"
                               /\ \A f \in Clauses : b[f] = dba[f]
<1>1. PICK b1 \in Builders : b1 = dba
  BY DEF SqlerInv
<1>2. PICK b : b = [b1 EXCEPT !.optype = "insert"]
  OBVIOUS
<1>3. b \in Builders /\ b.optype = "insert" /\ \A f \in Clauses : b[f] = b1[f]
  BY <1>2 DEF Builders, Clauses, Singles, Texts, Lists
<1>4. QED
  BY <1>1, <1>2, <1>3 DEF Inserting

\* Insert and InsertBatch set the operation alone.
LEMMA InsertKeeps ==
    ASSUME SqlerInv, NEW d, Insert(d) \/ InsertBatch(d)
    PROVE  SqlerInv'
<1>1. PICK b \in Builders : /\ b = Inserting /\ b.optype = "insert"
                            /\ \A f \in Clauses : b[f] = dba[f]
  BY InsertingIs
<1>2. b.optype \in {"insert", "update"}
  BY <1>1
<1>3. PICK e : e = Struct2Map(d)
  OBVIOUS
<1>4. Built(b, BuildExecut(b, e)) \/ Built(b, BuildExecut(b, d))
  BY <1>1, <1>3 DEF Insert, InsertBatch
<1>5. QED
  BY <1>1, <1>2, <1>4, ExecutKeeps

\* The clause of InsertDuplicate, put to a statement or to an error.
LEMMA DuplicateSays ==
    ASSUME NEW r, NEW b, NEW set,
           \/ r = [op |-> ""]
           \/ Says(r, b) /\ r.op = "insert" /\ {"op", "table", "where"} \subseteq DOMAIN r
    PROVE  Says(With(r, [duplicate |-> set]), b) /\ With(r, [duplicate |-> set]).op # "select"
<1>1. PICK q : q = With(r, [duplicate |-> set])
  OBVIOUS
<1>2. CASE r = [op |-> ""]
  <2>1. q.op = ""
    BY <1>1, <1>2 DEF With
  <2>2. QED
    BY <1>1, <2>1 DEF Says
<1>3. CASE Says(r, b) /\ r.op = "insert" /\ {"op", "table", "where"} \subseteq DOMAIN r
  <2>1. q.op = "insert" /\ q.table = r.table /\ q.where = r.where
    BY <1>1, <1>3 DEF With
  <2>2. r.table = b.table /\ r.where = ParseWhere(b.where)
    BY <1>3 DEF Says
  <2>3. QED
    BY <1>1, <2>1, <2>2 DEF Says
<1>4. QED
  BY <1>2, <1>3

\* InsertDuplicate builds on what Insert returned.
LEMMA InsertDuplicateKeeps ==
    ASSUME SqlerInv, NEW d, NEW keys, NEW inc, InsertDuplicate(d, keys, inc)
    PROVE  SqlerInv'
<1>1. PICK b \in Builders : /\ b = Inserting /\ b.optype = "insert"
                            /\ \A f \in Clauses : b[f] = dba[f]
  BY InsertingIs
<1>2. PICK insert : insert = BuildExecut(b, d)
  OBVIOUS
<1>3. PICK set : set = {<<c, c \in inc>> : c \in d.cols \ keys}
  OBVIOUS
<1>4. PICK stmt : stmt = IF insert = << >> THEN [op |-> ""] ELSE insert[1]
  OBVIOUS
<1>5. PICK q : q = With(stmt, [duplicate |-> set])
  OBVIOUS
<1>6. Built(b, <<q>>)
  BY <1>1, <1>2, <1>3, <1>4, <1>5 DEF InsertDuplicate
<1>7. \/ stmt = [op |-> ""]
      \/ Says(stmt, b) /\ stmt.op = "insert" /\ {"op", "table", "where"} \subseteq DOMAIN stmt
  <2>1. b.optype \in {"insert", "update"}
    BY <1>1
  <2>2. CASE insert = << >>
    BY <1>4, <2>2
  <2>3. CASE insert # << >>
    <3>1. PICK r : /\ insert = <<r>> /\ Says(r, b) /\ r.op = b.optype
                   /\ {"op", "table", "where"} \subseteq DOMAIN r
      BY <1>2, <2>1, <2>3, ExecutSays
    <3>2. stmt = r
      BY <1>4, <2>3, <3>1
    <3>3. QED
      BY <1>1, <3>1, <3>2
  <2>4. QED
    BY <2>2, <2>3
<1>8. Says(q, b) /\ q.op # "select"
  BY <1>5, <1>7, DuplicateSays
<1>9. PICK stmts : stmts = <<q>>
  OBVIOUS
<1>10. SaysAll(stmts, b)
  BY <1>8, <1>9, SaysOne
<1>11. Built(b, stmts)
  BY <1>6, <1>9
<1>12. QED
  BY <1>1, <1>10, <1>11, BuiltKeeps

\* WithInc, as a builder.
LEMMA WithIncIs ==
    ASSUME SqlerInv, NEW inc \in SUBSET Columns
    PROVE  \E b \in Builders : b = WithInc(inc) /\ \A f \in Clauses : b[f] = dba[f]
<1>1. PICK b1 \in Builders : b1 = dba
  BY DEF SqlerInv
<1>2. PICK i \in SUBSET Columns : i = IF inc = {} THEN b1.inc_fields ELSE inc
  BY DEF Builders
<1>3. PICK b : b = [b1 EXCEPT !.inc_fields = i]
  OBVIOUS
<1>4. b \in Builders /\ \A f \in Clauses : b[f] = b1[f]
  BY <1>3 DEF Builders, Clauses, Singles, Texts, Lists
<1>5. b = WithInc(inc)
  BY <1>1, <1>2, <1>3 DEF WithInc
<1>6. QED
  BY <1>1, <1>4, <1>5

\* Update sets the operation and the increments.
LEMMA UpdateKeeps ==
    ASSUME SqlerInv, NEW d, NEW inc \in SUBSET Columns, Update(d, inc)
    PROVE  SqlerInv'
<1>1. PICK b1 \in Builders : b1 = WithInc(inc) /\ \A f \in Clauses : b1[f] = dba[f]
  BY WithIncIs
<1>2. PICK b : b = [b1 EXCEPT !.optype = "update"]
  OBVIOUS
<1>3. b \in Builders /\ b.optype \in {"insert", "update"} /\ \A f \in Clauses : b[f] = b1[f]
  BY <1>2 DEF Builders, Clauses, Singles, Texts, Lists
<1>4. PICK e : e = Struct2Map(d)
  OBVIOUS
<1>5. Built(b, BuildExecut(b, e))
  BY <1>1, <1>2, <1>4 DEF Update
<1>6. QED
  BY <1>1, <1>3, <1>5, ExecutKeeps

\* UpdateBatch has the table and no condition.
LEMMA UpdateBatchKeeps ==
    ASSUME SqlerInv, NEW d, NEW keys, NEW inc \in SUBSET Columns, UpdateBatch(d, keys, inc)
    PROVE  SqlerInv'
<1>1. PICK b \in Builders : b = WithInc(inc) /\ \A f \in Clauses : b[f] = dba[f]
  BY WithIncIs
<1>2. PICK set : set = {<<c, c \in b.inc_fields>> : c \in d.cols \ keys}
  OBVIOUS
<1>3. PICK n : n = d.n
  OBVIOUS
<1>4. PICK q : q = [op |-> "updatebatch", table |-> b.table, ids |-> n, set |-> set]
  OBVIOUS
<1>5. b.table = dba.table
  BY <1>1 DEF Clauses, Singles, Texts
<1>6. Built(b, <<q>>)
  BY <1>1, <1>2, <1>3, <1>4, <1>5 DEF UpdateBatch
<1>7. Says(q, b) /\ q.op # "select"
  <2>1. q.op = "updatebatch" /\ q.table = b.table
    BY <1>4
  <2>2. QED
    BY <2>1 DEF Says
<1>8. PICK stmts : stmts = <<q>>
  OBVIOUS
<1>9. SaysAll(stmts, b)
  BY <1>7, <1>8, SaysOne
<1>10. Built(b, stmts)
  BY <1>6, <1>8
<1>11. QED
  BY <1>1, <1>9, <1>10, BuiltKeeps

\* Delete has the table and all conditions.
LEMMA DeleteKeeps ==
    ASSUME SqlerInv, Delete
    PROVE  SqlerInv'
<1>1. PICK b1 \in Builders : b1 = dba
  BY DEF SqlerInv
<1>2. PICK b : b = [b1 EXCEPT !.optype = "delete"]
  OBVIOUS
<1>3. b \in Builders /\ \A f \in Clauses : b[f] = b1[f]
  BY <1>2 DEF Builders, Clauses, Singles, Texts, Lists
<1>4. b.table = b1.table /\ b.where = b1.where
  BY <1>3 DEF Clauses, Singles, Texts, Lists
<1>5. PICK p : p = ParseWhere(b.where)
  OBVIOUS
<1>6. PICK q : q = [op |-> "delete", table |-> b.table, where |-> p]
  OBVIOUS
<1>7. PICK stmts : stmts = IF WhereFails(b.where) THEN << >> ELSE <<q>>
  OBVIOUS
<1>8. Built(b, stmts)
  BY <1>1, <1>2, <1>4, <1>5, <1>6, <1>7 DEF Delete
<1>9. Says(q, b) /\ q.op # "select"
  <2>1. q.op = "delete" /\ q.table = b.table /\ q.where = p
    BY <1>6
  <2>2. QED
    BY <1>5, <2>1 DEF Says
<1>10. stmts = << >> \/ stmts = <<q>>
  BY <1>7
<1>11. SaysAll(stmts, b)
  BY <1>9, <1>10, SaysOne
<1>12. QED
  BY <1>1, <1>3, <1>8, <1>11, BuiltKeeps

\* A query and another.
LEMMA OneAndOne ==
    ASSUME NEW r, NEW q
    PROVE  Len(<<r>> \o <<q>>) = 2 /\ (<<r>> \o <<q>>)[1] = r /\ (<<r>> \o <<q>>)[2] = q
<1> DEFINE S == {r, q}
<1>1. <<r>> \in Seq(S) /\ <<q>> \in Seq(S)
  OBVIOUS
<1>2. Len(<<r>>) = 1 /\ <<r>>[1] = r /\ Len(<<q>>) = 1 /\ <<q>>[1] = q
  OBVIOUS
<1>3. PICK s \in Seq(S), t \in Seq(S) : s = <<r>> /\ t = <<q>>
  BY <1>1
<1>4. Len(s) = 1 /\ s[1] = r /\ Len(t) = 1 /\ t[1] = q
  BY <1>2, <1>3
<1> HIDE DEF S
<1>5. Len(s \o t) = 2 /\ (s \o t)[1] = r /\ (s \o t)[2] = q
  BY <1>4, ConcatProperties
<1>6. QED
  BY <1>3, <1>5

\* The page has the limit it is told, the count the one from before; the other
\* clauses of both are the builder's.
LEMMA SqlSelectCountKeeps ==
    ASSUME SqlerInv, NEW o \in Int, NEW n \in Int, SqlSelectCount(o, n)
    PROVE  SqlerInv'
<1>1. PICK b1 \in Builders : b1 = dba
  BY DEF SqlerInv
<1>2. PICK cs \in Seq(Calls) : cs = calls
  BY DEF SqlerInv
<1>3. PICK c1 \in Calls : c1 = [f |-> "offset", v |-> o]
  BY CallsAre, Zenon
<1>4. PICK c2 \in Calls : c2 = [f |-> "limit", v |-> n]
  BY CallsAre, Zenon
<1>18. PICK c3 \in Calls : c3 = [f |-> "fields", v |-> "*"]
  BY CallsAre, Zenon
<1>5. PICK mid : mid = [b1 EXCEPT !.offset = o]
  OBVIOUS
<1>19. PICK mid2 : mid2 = [b1 EXCEPT !.offset = o, !.limit = n]
  OBVIOUS
<1>6. PICK page : page = [b1 EXCEPT !.offset = o, !.limit = n, !.fields = "*"]
  OBVIOUS
<1>7. PICK copy : copy = [b1 EXCEPT !.fields = "total"]
  OBVIOUS
<1>8. calls' = cs \o <<c1, c2, c3>> /\ dba' = page /\ sql' = BuildQuery(page) \o BuildQuery(copy)
  BY <1>1, <1>2, <1>3, <1>4, <1>18, <1>6, <1>7 DEF SqlSelectCount
<1>9. mid \in Builders /\ page \in Builders /\ copy \in Builders
  <2>1. mid \in Builders
    BY <1>5 DEF Builders
  <2>2. page \in Builders
    BY <1>6 DEF Builders
  <2>3. copy \in Builders
    BY <1>7 DEF Builders
  <2>4. QED
    BY <2>1, <2>2, <2>3
<1>10. Follows(mid, b1, c1)
  BY <1>3, <1>5 DEF Follows, Builders, Singles, Texts, Lists
<1>11. Follows(mid2, mid, c2)
  BY <1>4, <1>5, <1>19 DEF Follows, Builders, Singles, Texts, Lists
<1>20. Follows(page, mid2, c3)
  BY <1>6, <1>18, <1>19 DEF Follows, Builders, Clauses, Singles, Texts, Lists
<1>12. PICK cs1 \in Seq(Calls) : cs1 = Append(cs, c1)
  BY AppendProperties
<1>13. PICK cs2 \in Seq(Calls) : cs2 = Append(cs1, c2)
  BY AppendProperties
<1>21. PICK cs3 \in Seq(Calls) : cs3 = Append(cs2, c3)
  BY AppendProperties
<1>14. Mirrors(page, cs3)
  <2>1. Mirrors(b1, cs)
    BY <1>1, <1>2 DEF SqlerInv
  <2>2. Mirrors(mid, cs1)
    BY <1>10, <1>12, <2>1, MirrorsAppend
  <2>3. Mirrors(mid2, cs2)
    BY <1>11, <1>13, <2>2, MirrorsAppend
  <2>4. QED
    BY <1>20, <1>21, <2>3, MirrorsAppend
<1>15. calls' = cs3
  <2>1. cs \o <<c1, c2, c3>> = cs3
    BY <1>12, <1>13, <1>21
  <2>2. QED
    BY <1>8, <2>1
<1>16. SaysAll(BuildQuery(page) \o BuildQuery(copy), page)
  <2>1. page.where = copy.where /\ page.join = copy.join
    BY <1>6, <1>7 DEF Builders
  <2>2. CASE JoinFails(page.join) \/ WhereFails(page.where)
    <3>1. BuildQuery(page) = << >> /\ BuildQuery(copy) = << >>
      BY <2>1, <2>2 DEF BuildQuery
    <3>2. BuildQuery(page) \o BuildQuery(copy) = << >>
      BY <3>1
    <3>3. QED
      BY <3>2, SaysOne
  <2>3. CASE ~(JoinFails(page.join) \/ WhereFails(page.where))
    <3>1. BuildQuery(page) # << >> /\ BuildQuery(copy) # << >>
      BY <2>1, <2>3 DEF BuildQuery
    <3>2. PICK r : BuildQuery(page) = <<r>> /\ Says(r, page) /\ IsPage(r, page)
      BY <1>9, <3>1, QuerySays
    <3>3. PICK q : BuildQuery(copy) = <<q>> /\ Says(q, copy)
      BY <1>9, <3>1, QuerySays
    <3>4. \A f \in Texts \cup {"where", "join", "distinct", "union"} : page[f] = copy[f]
      BY <1>6, <1>7 DEF Builders, Texts
    <3>5. Says(q, page)
      BY <3>3, <3>4, SaysSame
    <3>6. PICK stmts : stmts = BuildQuery(page) \o BuildQuery(copy)
      OBVIOUS
    <3>7. Len(stmts) = 2 /\ stmts[1] = r /\ stmts[2] = q
      <4>1. stmts = <<r>> \o <<q>>
        BY <3>2, <3>3, <3>6
      <4>2. QED
        BY <4>1, OneAndOne
    <3>8. ASSUME NEW i \in 1..Len(stmts)
          PROVE  /\ Says(stmts[i], page)
                 /\ stmts[i].op = "select" /\ (i = Len(stmts) - 1 \/ Len(stmts) = 1) =>
                      IsPage(stmts[i], page)
      <4>1. i = 1 \/ i = 2
        BY <3>7
      <4>2. CASE i = 1
        BY <3>2, <3>7, <4>2
      <4>3. CASE i = 2
        BY <3>5, <3>7, <4>3
      <4>4. QED
        BY <4>1, <4>2, <4>3
    <3>9. QED
      BY <3>6, <3>8 DEF SaysAll
  <2>4. QED
    BY <2>2, <2>3
<1>17. QED
  BY <1>8, <1>9, <1>14, <1>15, <1>16 DEF SqlerInv

\* Every call keeps the invariant.
LEMMA SqlerNextInv ==
    SqlerInv /\ [SqlerNext]_sqler => SqlerInv'
<1> SUFFICES ASSUME SqlerInv, [SqlerNext]_sqler PROVE SqlerInv'
  OBVIOUS
<1>1. CASE UNCHANGED sqler
  BY <1>1 DEF SqlerInv, sqler
<1>2. CASE \/ \E f \in Texts, v \in Values : SetText(f, v)
           \/ \E n \in Sizes : Limit(n) \/ Offset(n) \/ Page(n)
           \/ \E c \in Conditions : Where(c)
           \/ \E j \in Joins : Join(j)
           \/ Distinct \/ Ignore
  BY <1>2, PuttingKeeps
<1>3. CASE Reset
  BY <1>3, ResetKeeps
<1>4. CASE Delete
  BY <1>4, DeleteKeeps
<1>5. CASE Select \/ SelectFields("a")
  BY <1>5, SelectKeeps
<1>6. CASE \E d \in Datas : Insert(d) \/ InsertBatch(d)
  BY <1>6, InsertKeeps
<1>7. CASE \E d \in Datas, inc \in {{}} \cup {{c} : c \in Columns} :
             \/ Update(d, inc)
             \/ \E key \in Columns : InsertDuplicate(d, {key}, inc) \/ UpdateBatch(d, {key}, inc)
  <2>1. PICK d \in Datas, inc \in {{}} \cup {{c} : c \in Columns} :
             \/ Update(d, inc)
             \/ \E key \in Columns : InsertDuplicate(d, {key}, inc) \/ UpdateBatch(d, {key}, inc)
    BY <1>7
  <2>2. inc \in SUBSET Columns
    OBVIOUS
  <2>3. CASE Update(d, inc)
    BY <2>2, <2>3, UpdateKeeps
  <2>4. CASE \E key \in Columns : InsertDuplicate(d, {key}, inc) \/ UpdateBatch(d, {key}, inc)
    <3>1. PICK keys : InsertDuplicate(d, keys, inc) \/ UpdateBatch(d, keys, inc)
      BY <2>4
    <3>2. QED
      BY <2>2, <3>1, InsertDuplicateKeeps, UpdateBatchKeeps
  <2>5. QED
    BY <2>1, <2>3, <2>4
<1>8. CASE \E u \in ToSet(Unions) : Union(u)
  BY <1>8, UnionKeeps
<1>9. CASE \E o \in Sizes, n \in Sizes : SqlSelectCount(o, n)
  <2>1. Sizes \subseteq Int
    BY SqlerAssumption
  <2>2. QED
    BY <1>9, <2>1, SqlSelectCountKeeps
<1>10. QED
  BY <1>1, <1>2, <1>3, <1>4, <1>5, <1>6, <1>7, <1>8, <1>9 DEF SqlerNext

ArgsOf(w, given) == Len(w) = Len(given) /\ \A k \in 1..Len(given) : w[k] = given[k].v

\* The conditions of a statement are the ones that were given, but for those it
\* passes over and the first relation.
LEMMA WhereAsked ==
    ASSUME NEW given \in Seq(Calls), NEW w \in Seq(Conditions),
           ArgsOf(w, given)
    PROVE  LET asked == Selected(given, {k \in 1..Len(given) : Usable(given[k].v)})
           IN  /\ Len(ParseWhere(w)) = Len(asked)
               /\ \A k \in 1..Len(asked) : ParseWhere(w)[k].n = asked[k].v.n
               /\ \A k \in 2..Len(asked) : ParseWhere(w)[k] = asked[k].v
<1>1. PICK I : I = {i \in 1..Len(w) : Usable(w[i])}
  OBVIOUS
<1>2. PICK J : J = {k \in 1..Len(given) : Usable(given[k].v)}
  OBVIOUS
<1>3. Len(w) = Len(given) /\ Len(w) \in Nat /\ \A k \in 1..Len(w) : w[k] = given[k].v
  BY DEF ArgsOf
<1>4. I = J
  BY <1>1, <1>2, <1>3
<1>5. PICK p \in Seq(Nat) :
         /\ p = Positions(I)[Len(w)]
         /\ \A k \in 1..Len(p) : p[k] \in 1..Len(w) /\ p[k] \in I
         /\ Selected(w, I) \in Seq(Conditions) /\ Len(Selected(w, I)) = Len(p)
         /\ \A k \in 1..Len(p) : Selected(w, I)[k] = w[p[k]]
  BY SelectedPlaces
<1>6. PICK q \in Seq(Nat) :
         /\ q = Positions(J)[Len(given)]
         /\ \A k \in 1..Len(q) : q[k] \in 1..Len(given) /\ q[k] \in J
         /\ Selected(given, J) \in Seq(Calls) /\ Len(Selected(given, J)) = Len(q)
         /\ \A k \in 1..Len(q) : Selected(given, J)[k] = given[q[k]]
  BY SelectedPlaces
<1>7. p = q
  BY <1>3, <1>4, <1>5, <1>6
<1>8. PICK kept \in Seq(Conditions) : kept = Selected(w, I)
  BY <1>5
<1>9. PICK asked \in Seq(Calls) : asked = Selected(given, J)
  BY <1>6
<1>10. Len(kept) = Len(asked) /\ \A k \in 1..Len(asked) : kept[k] = asked[k].v
  BY <1>3, <1>5, <1>6, <1>7, <1>8, <1>9
<1>11. PICK x : x = ParseWhere(w)
  OBVIOUS
<1>12. x = IF kept = << >> THEN << >> ELSE [kept EXCEPT ![1].rel = "and"]
  BY <1>1, <1>8, <1>11 DEF ParseWhere
<1>13. CASE kept = << >>
  <2>1. Len(kept) = 0 /\ Len(x) = 0
    BY <1>12, <1>13
  <2>2. /\ Len(x) = Len(asked)
        /\ \A k \in 1..Len(asked) : x[k].n = asked[k].v.n
        /\ \A k \in 2..Len(asked) : x[k] = asked[k].v
    BY <1>10, <2>1
  <2>3. QED
    BY <1>2, <1>9, <1>11, <2>2
<1>14. CASE kept # << >>
  <2>1. Len(kept) > 0 /\ 1 \in 1..Len(kept)
    BY <1>14, EmptySeq
  <2>2. PICK c \in Conditions : c = kept[1]
    BY <2>1
  <2>3. c \in [rel : {"and", "or"}, n : Nat, ok : BOOLEAN]
    BY SqlerAssumption
  <2>4. PICK e : e = [c EXCEPT !.rel = "and"]
    OBVIOUS
  <2>5. e.n = c.n
    BY <2>3, <2>4
  <2>6. x = [kept EXCEPT ![1] = e]
    BY <1>12, <1>14, <2>2, <2>4
  <2>7. Len(x) = Len(kept) /\ x[1] = e /\ \A k \in 2..Len(kept) : x[k] = kept[k]
    BY <2>1, <2>6
  <2>8. ASSUME NEW k \in 1..Len(asked) PROVE x[k].n = asked[k].v.n
    <3>1. CASE k = 1
      BY <1>10, <2>2, <2>5, <2>7, <3>1
    <3>2. CASE k # 1
      <4>1. k \in 2..Len(kept)
        BY <1>10, <3>2
      <4>2. QED
        BY <1>10, <2>7, <4>1
    <3>3. QED
      BY <3>1, <3>2
  <2>9. ASSUME NEW k \in 2..Len(asked) PROVE x[k] = asked[k].v
    BY <1>10, <2>7
  <2>10. QED
    BY <1>2, <1>9, <1>10, <1>11, <2>7, <2>8, <2>9
<1>15. QED
  BY <1>13, <1>14

\* A statement that has the clauses of a mirror says what was asked.
LEMMA SqlerSays ==
    SqlerInv => SaysWhatWasAsked
<1> SUFFICES ASSUME SqlerInv, NEW i \in 1..Len(sql)
             PROVE  /\ sql[i].op # "" => sql[i].table = GivenLast("table", "")
                    /\ sql[i].op \in {"select", "insert", "update", "delete"} =>
                         LET given == Given("where")
                             asked == Selected(given, {k \in 1..Len(given) : Usable(given[k].v)})
                         IN  /\ Len(sql[i].where) = Len(asked)
                             /\ \A k \in 1..Len(asked) : sql[i].where[k].n = asked[k].v.n
                             /\ \A k \in 2..Len(asked) : sql[i].where[k] = asked[k].v
                    /\ sql[i].op = "select" =>
                         /\ sql[i].join = [k \in 1..Len(Given("join")) |-> Given("join")[k].v]
                         /\ \A f \in {"group", "having", "order"} : sql[i][f] = GivenLast(f, "")
                         /\ sql[i].distinct = GivenLast("distinct", FALSE)
                         /\ Aggregates # {} => sql[i].what = FirstUnion(Aggregates)
                         /\ i = Len(sql) - 1 \/ Len(sql) = 1 =>
                              /\ sql[i].limit = GivenLast("limit", 0)
                              /\ sql[i].offset = GivenLast("offset", 0)
                              /\ Aggregates = {} => sql[i].what = GivenLast("fields", "*")
  BY DEF SaysWhatWasAsked
<1>1. PICK b \in Builders : b = dba
  BY DEF SqlerInv
<1>2. PICK cs \in Seq(Calls) : cs = calls
  BY DEF SqlerInv
<1>3. PICK r : r = sql[i]
  OBVIOUS
<1>4. Mirrors(b, cs)
  BY <1>1, <1>2 DEF SqlerInv
<1>5. /\ Says(r, b)
      /\ r.op = "select" /\ (i = Len(sql) - 1 \/ Len(sql) = 1) => IsPage(r, b)
  BY <1>1, <1>3 DEF SqlerInv, SaysAll
<1>6. \A f : Given(f) = GivenIn(cs, f)
  BY <1>2 DEF Given, GivenIn
<1>7. \A f, none : GivenLast(f, none) = LastIn(cs, f, none)
  BY <1>6 DEF GivenLast, LastIn
<1>8. /\ b.table = GivenLast("table", "") /\ b.group = GivenLast("group", "")
      /\ b.having = GivenLast("having", "") /\ b.order = GivenLast("order", "")
      /\ b.limit = GivenLast("limit", 0) /\ b.offset = GivenLast("offset", 0)
      /\ b.distinct = GivenLast("distinct", FALSE)
  <2>1. /\ Cleared["table"] = "" /\ Cleared["group"] = "" /\ Cleared["having"] = ""
        /\ Cleared["order"] = "" /\ Cleared["limit"] = 0 /\ Cleared["offset"] = 0
        /\ Cleared["distinct"] = FALSE
    BY DEF Cleared
  <2>2. \A f \in {"table", "group", "having", "order", "limit", "offset", "distinct"} :
          b[f] = LastIn(cs, f, Cleared[f])
    BY <1>4 DEF Mirrors, Singles, Texts
  <2>3. QED
    BY <1>7, <2>1, <2>2
<1>9. PICK given \in Seq(Calls) : given = GivenIn(cs, "where")
  <2>1. PICK c \in Calls : TRUE
    BY CallsAre
  <2>2. QED
    BY <2>1, GivenAppend
<1>10. b.where \in Seq(Conditions) /\ b.where = [k \in 1..Len(given) |-> given[k].v]
  <2>1. b.where \in Seq(Conditions)
    BY DEF Builders
  <2>2. b.where = ArgsIn(cs, "where")
    BY <1>4 DEF Mirrors, Lists
  <2>3. QED
    BY <1>9, <2>1, <2>2 DEF ArgsIn
<1>11. b.join = [k \in 1..Len(Given("join")) |-> Given("join")[k].v]
  <2>1. b.join = ArgsIn(cs, "join")
    BY <1>4 DEF Mirrors, Lists
  <2>2. QED
    BY <1>6, <2>1 DEF ArgsIn
<1>12. ASSUME r.op \in {"select", "insert", "update", "delete"}
       PROVE  LET asked == Selected(given, {k \in 1..Len(given) : Usable(given[k].v)})
              IN  /\ Len(r.where) = Len(asked)
                  /\ \A k \in 1..Len(asked) : r.where[k].n = asked[k].v.n
                  /\ \A k \in 2..Len(asked) : r.where[k] = asked[k].v
  <2>1. PICK w \in Seq(Conditions) : w = b.where
    BY <1>10
  <2>2. r.where = ParseWhere(w)
    BY <1>5, <1>12, <2>1 DEF Says
  <2>3. ArgsOf(w, given)
    BY <1>10, <2>1 DEF ArgsOf
  <2>4. QED
    BY <2>2, <2>3, WhereAsked
<1>17. b.union = Aggregates
  <2>1. \A u \in ToSet(Unions) :
          u \in b.union <=> \E k \in 1..Len(calls) : calls[k].f = "union" /\ calls[k].v = u
    BY <1>2, <1>4 DEF Mirrors
  <2>2. b.union \subseteq ToSet(Unions)
    BY DEF Builders
  <2>3. QED
    BY <2>1, <2>2 DEF Aggregates
<1>18. GivenLast("fields", "*") = IF b.fields = "" THEN "*" ELSE b.fields
  BY <1>4, <1>7 DEF Mirrors
<1>13. r.op # "" => r.table = GivenLast("table", "")
  BY <1>5, <1>8 DEF Says
<1>14. r.op = "select" =>
         /\ r.join = [k \in 1..Len(Given("join")) |-> Given("join")[k].v]
         /\ \A f \in {"group", "having", "order"} : r[f] = GivenLast(f, "")
         /\ r.distinct = GivenLast("distinct", FALSE)
         /\ Aggregates # {} => r.what = FirstUnion(Aggregates)
  BY <1>5, <1>8, <1>11, <1>17 DEF Says
<1>19. ASSUME r.op = "select", i = Len(sql) - 1 \/ Len(sql) = 1
       PROVE  /\ r.limit = GivenLast("limit", 0) /\ r.offset = GivenLast("offset", 0)
              /\ Aggregates = {} => r.what = GivenLast("fields", "*")
  BY <1>5, <1>8, <1>17, <1>18, <1>19 DEF IsPage, What
<1>15. given = Given("where")
  BY <1>6, <1>9
<1>16. QED
  BY <1>3, <1>12, <1>13, <1>14, <1>15, <1>19

\* However a builder is used, with or without Reset, a select, insert, update or
\* delete has the table and all usable conditions that were put into it since the
\* last Reset, a query the joins, the other clauses and the first aggregate too,
\* and an UpdateBatch the table, for any conditions, joins, data and sizes, and
\* calls without end.
THEOREM SqlerSaysWhatWasAsked == SqlerSpec => []SaysWhatWasAsked
<1>1. NewSqler => SqlerInv
  BY SqlerInitInv
<1>2. SqlerInv /\ [SqlerNext]_sqler => SqlerInv'
  BY SqlerNextInv
<1>3. SqlerInv => SaysWhatWasAsked
  BY SqlerSays
<1>4. QED
  BY <1>1, <1>2, <1>3, PTL DEF SqlerSpec

-----------------------------------------------------------------------------
(* The word filter.                                                         *)

\* The trie: every beginning of a path is a path, and words end on paths.
TrieInv ==
    /\ paths \subseteq Seq(Runes) /\ ends \subseteq paths
    /\ \A p \in paths : \A n \in 1..Len(p) : SubSeq(p, 1, n) \in paths

\* A set of numbers that has a bound has a greatest one.
LEMMA GreatestNumber ==
    ASSUME NEW T \in SUBSET Nat, T # {}, NEW m \in Nat, \A x \in T : x <= m
    PROVE  \E x \in T : \A y \in T : x >= y
<1> DEFINE B == {u \in Nat : \A x \in T : x <= u}
<1>1. B \in SUBSET Nat /\ m \in B
  OBVIOUS
<1>2. PICK u \in B : \A v \in B : u <= v
  <2> HIDE DEF B
  <2>1. QED
    BY <1>1, LeastNumber
<1>3. u \in Nat /\ \A x \in T : x <= u
  BY <1>2
<1>4. u \in T
  <2> SUFFICES ASSUME u \notin T PROVE FALSE
    OBVIOUS
  <2>1. \A x \in T : x <= u - 1
    BY <1>3
  <2>2. u - 1 \in Nat
    <3>1. PICK x \in T : TRUE
      OBVIOUS
    <3>2. x \in Nat /\ x <= u - 1
      BY <2>1
    <3>3. QED
      BY <1>3, <3>2
  <2>3. u - 1 \in B
    BY <2>1, <2>2
  <2>4. u <= u - 1
    BY <1>2, <2>3
  <2>5. QED
    BY <1>3, <2>4
<1>5. QED
  BY <1>3, <1>4

\* A part of the text that goes on to j on a path is on it at k.
LEMMA PartOfPath ==
    ASSUME TrieInv, NEW A, NEW text \in Seq(A), NEW i \in Nat, NEW j \in Nat, NEW k \in Nat,
           1 <= i, i <= k, k <= j, j <= Len(text), SubSeq(text, i, j) \in paths
    PROVE  SubSeq(text, i, k) \in paths
<1>1. PICK p : p = SubSeq(text, i, j)
  OBVIOUS
<1>2. i \in 1..Len(text) /\ j \in 1..Len(text) /\ 1 \in 1..(j - i + 1) /\ k - i + 1 \in 1..(j - i + 1)
  OBVIOUS
<1>3. Len(p) = j - i + 1
  <2>1. \A x \in i..j : text[x] \in A
    OBVIOUS
  <2>2. i \in Int /\ j \in Int /\ i <= j
    OBVIOUS
  <2>3. Len(SubSeq(text, i, j)) = IF i <= j THEN j - i + 1 ELSE 0
    BY <2>1, <2>2, SubSeqProperties
  <2>4. QED
    BY <1>1, <2>2, <2>3
<1>4. SubSeq(p, 1, k - i + 1) \in paths
  BY <1>1, <1>2, <1>3 DEF TrieInv
<1>5. SubSeq(SubSeq(text, i, j), 1, k - i + 1) = SubSeq(text, i + 1 - 1, i + (k - i + 1) - 1)
  BY <1>2, SubSeqOfSubSeq
<1>6. i + 1 - 1 = i /\ i + (k - i + 1) - 1 = k
  OBVIOUS
<1>7. QED
  BY <1>1, <1>4, <1>5, <1>6

\* Where words end that begin at start.
WordEnds(text, start, end) == {i \in start..(end - 1) : SearcWord(SubSeq(text, start, i))}

\* What Longest returns: nothing, if no word stands there, or the longest.
LEMMA LongestIs ==
    ASSUME NEW text, NEW start \in Nat, NEW end \in Nat
    PROVE  \/ Longest(text, start, end) = << >> /\ WordEnds(text, start, end) = {}
           \/ \E m \in Nat : /\ Longest(text, start, end) = <<<<start, m>>>>
                             /\ m \in WordEnds(text, start, end)
                             /\ \A j \in WordEnds(text, start, end) : m >= j
<1>1. PICK H : H = WordEnds(text, start, end)
  OBVIOUS
<1>2. Longest(text, start, end) =
        IF H = {} THEN << >> ELSE <<<<start, CHOOSE i \in H : \A j \in H : i >= j>>>>
  BY <1>1 DEF Longest, WordEnds
<1>3. CASE H = {}
  BY <1>1, <1>2, <1>3
<1>4. CASE H # {}
  <2>1. H \in SUBSET Nat /\ \A x \in H : x <= end
    BY <1>1 DEF WordEnds
  <2>2. \E i \in H : \A j \in H : i >= j
    BY <1>4, <2>1, GreatestNumber
  <2>3. PICK m : m = CHOOSE i \in H : \A j \in H : i >= j
    OBVIOUS
  <2>4. m \in H /\ \A j \in H : m >= j
    BY <2>2, <2>3
  <2>5. Longest(text, start, end) = <<<<start, m>>>>
    BY <1>2, <1>4, <2>3
  <2>6. QED
    BY <1>1, <2>1, <2>4, <2>5
<1>5. QED
  BY <1>3, <1>4

-----------------------------------------------------------------------------
(* The loop of searcSentence.                                               *)

Matches == Seq(Nat \X Nat)
States == [start : Nat, startsWith : BOOLEAN, found : Matches]

\* What Longest returns is a list of pairs.
LEMMA LongestTyped ==
    ASSUME NEW text, NEW start \in Nat, NEW end \in Nat
    PROVE  Longest(text, start, end) \in Matches
<1>1. << >> \in Matches
  BY EmptySeq DEF Matches
<1>2. ASSUME NEW m \in Nat PROVE <<<<start, m>>>> \in Matches
  <2>1. PICK x \in Nat \X Nat : x = <<start, m>>
    OBVIOUS
  <2>2. PICK S : S = Nat \X Nat
    OBVIOUS
  <2>3. <<x>> \in Seq(S)
    BY <2>2
  <2>4. QED
    BY <2>1, <2>2, <2>3 DEF Matches
<1>3. QED
  BY <1>1, <1>2, LongestIs

\* So a turn leaves a state of the loop.
LEMMA TurnTyped ==
    ASSUME NEW text, NEW s \in States, NEW end \in Nat
    PROVE  Turn(text, s, end) \in States
<1>1. s.start \in Nat /\ s.found \in Matches
  BY DEF States
<1>2. CASE StartsWith(SubSeq(text, s.start, end))
  BY <1>2 DEF Turn, States
<1>3. CASE ~StartsWith(SubSeq(text, s.start, end))
  <2>1. PICK l : l = IF s.startsWith THEN Longest(text, s.start, end) ELSE << >>
    OBVIOUS
  <2>2. l \in Matches
    <3>1. << >> \in Matches
      BY EmptySeq DEF Matches
    <3>2. Longest(text, s.start, end) \in Matches
      BY <1>1, LongestTyped
    <3>3. QED
      BY <2>1, <3>1, <3>2
  <2>3. PICK f \in Matches : f = s.found \o l
    BY <1>1, <2>2, ConcatProperties DEF Matches
  <2>4. Turn(text, s, end) = [start |-> end, startsWith |-> FALSE, found |-> f]
    BY <1>3, <2>1, <2>3 DEF Turn
  <2>5. QED
    BY <2>4 DEF States
<1>4. QED
  BY <1>2, <1>3

NewState == [start |-> 1, startsWith |-> FALSE, found |-> << >>]

\* The loop starts anew and takes one turn after another.
LEMMA LoopTurns ==
    ASSUME NEW text
    PROVE  /\ Loop(text)[0] = NewState
           /\ \A n \in Nat : Loop(text)[n] \in States /\ Loop(text)[n + 1] = Turn(text, Loop(text)[n], n + 1)
<1>1. PICK h : h = [p \in States \X Nat |-> Turn(text, p[1], p[2])]
  OBVIOUS
<1>2. h \in [States \X Nat -> States]
  <2>1. ASSUME NEW p \in States \X Nat PROVE Turn(text, p[1], p[2]) \in States
    BY TurnTyped
  <2>2. QED
    BY <1>1, <2>1
<1>3. \A s \in States, n \in Nat : h[<<s, n>>] = Turn(text, s, n)
  BY <1>1
<1>4. PICK a \in States : a = NewState
  <2>1. PICK e \in Matches : e = << >>
    BY EmptySeq DEF Matches
  <2>2. [start |-> 1, startsWith |-> FALSE, found |-> e] \in States
    BY DEF States
  <2>3. QED
    BY <2>1, <2>2 DEF NewState
<1>5. PICK f \in [Nat -> States] : IsLoop(f, a, h)
  BY <1>2, RecursionExists, Zenon
<1>6. f[0] = NewState /\ \A n \in Nat : f[n + 1] = Turn(text, f[n], n + 1)
  <2>1. f[0] = a /\ \A n \in Nat : f[n + 1] = h[<<f[n], n + 1>>]
    BY <1>5 DEF IsLoop
  <2>2. ASSUME NEW n \in Nat PROVE f[n + 1] = Turn(text, f[n], n + 1)
    <3>1. f[n] \in States /\ n + 1 \in Nat
      OBVIOUS
    <3>2. h[<<f[n], n + 1>>] = Turn(text, f[n], n + 1)
      BY <1>3, <3>1
    <3>3. QED
      BY <2>1, <3>2
  <2>3. QED
    BY <1>4, <2>1, <2>2
<1> DEFINE Eq(u) == u = [end \in Nat |->
                           IF end = 0 THEN [start |-> 1, startsWith |-> FALSE, found |-> << >>]
                           ELSE Turn(text, u[end - 1], end)]
<1>7. Eq(f)
  <2>1. ASSUME NEW n \in Nat
        PROVE  f[n] = IF n = 0 THEN NewState ELSE Turn(text, f[n - 1], n)
    <3>1. CASE n = 0
      BY <1>6, <3>1
    <3>2. CASE n # 0
      <4>1. n - 1 \in Nat /\ (n - 1) + 1 = n
        BY <3>2
      <4>2. QED
        BY <1>6, <3>2, <4>1
    <3>3. QED
      BY <3>1, <3>2
  <2>2. QED
    BY <2>1 DEF NewState
<1>8. Loop(text) = CHOOSE u : Eq(u)
  BY DEF Loop
<1> DEFINE P == Loop(text)
<1>9. Eq(P)
  BY <1>7, <1>8
<1>10. \A n \in Nat : P[n] = IF n = 0 THEN NewState ELSE Turn(text, P[n - 1], n)
  BY <1>9 DEF NewState
<1> HIDE DEF P, Eq
<1>11. P[0] = NewState
  BY <1>10
<1>12. \A n \in Nat : P[n + 1] = Turn(text, P[n], n + 1)
  <2> TAKE n \in Nat
  <2>1. n + 1 \in Nat /\ n + 1 # 0 /\ (n + 1) - 1 = n
    OBVIOUS
  <2>2. QED
    BY <1>10, <2>1
<1>13. \A n \in Nat : P[n] \in States
  <2> DEFINE S == {n \in Nat : P[n] \in States}
  <2>1. 0 \in S
    BY <1>4, <1>11
  <2>2. ASSUME NEW n \in Nat, n \in S PROVE n + 1 \in S
    <3>1. P[n] \in States /\ n + 1 \in Nat
      BY <2>2
    <3>2. Turn(text, P[n], n + 1) \in States
      BY <3>1, TurnTyped
    <3>3. QED
      BY <1>12, <3>1, <3>2
  <2>3. PICK S1 : S1 = S
    OBVIOUS
  <2> HIDE DEF S
  <2>4. 0 \in S1 /\ \A n \in Nat : n \in S1 => n + 1 \in S1
    BY <2>1, <2>2, <2>3
  <2>5. \A n \in Nat : n \in S1
    BY <2>4, Induction
  <2>6. QED
    BY <2>3, <2>5 DEF S
<1>14. QED
  BY <1>11, <1>12, <1>13 DEF P

\* A mark of the search: a word, the longest at its place, before lim.
Mark(text, a, b, lim) ==
    /\ 1 <= a /\ a <= b /\ b < lim /\ Occurs(text, a, b)
    /\ \A j \in b + 1..Len(text) : ~Occurs(text, a, j)

\* What was found before lim is right, and in order.
Right(text, f, lim) ==
    \A k \in 1..Len(f) : /\ Mark(text, f[k][1], f[k][2], lim)
                         /\ k > 1 => f[k - 1][2] < f[k][1]

\* A word at i that the search is to see.
Seen(text, i) == \E j \in i..Len(text) : Occurs(text, i, j) /\ (i = 1 \/ i < j)

\* i is within a mark, or behind the beginning of a path.
Covered(text, f, i) ==
    (\E k \in 1..Len(f) : i \in f[k][1]..f[k][2]) \/ Behind(text, i)

\* Nothing before lim was missed.
Complete(text, f, lim) == \A i \in 1..(lim - 1) : Seen(text, i) => Covered(text, f, i)

\* Where the loop is after n turns: at a path that begins at start, or at the
\* rune that did not fit; up to start all is done.
LoopInv(text, s, n) ==
    /\ s \in States
    /\ Right(text, s.found, s.start) /\ Complete(text, s.found, s.start)
    /\ n = 0 => s.start = 1 /\ ~s.startsWith
    /\ n > 0 => s.start \in 1..n
    /\ n > 0 /\ s.startsWith => SubSeq(text, s.start, n) \in paths
    /\ n > 0 /\ ~s.startsWith => s.start = n
    /\ n = 1 /\ ~s.startsWith => SubSeq(text, 1, 1) \notin paths

\* No word that begins at start goes past n, where the path ended.
LEMMA NoneBeyond ==
    ASSUME TrieInv, NEW A, NEW text \in Seq(A), NEW start \in Nat, NEW n \in Nat,
           1 <= start, start <= n + 1,
           n = Len(text) \/ (n < Len(text) /\ SubSeq(text, start, n + 1) \notin paths)
    PROVE  \A j \in n + 1..Len(text) : ~Occurs(text, start, j)
<1> SUFFICES ASSUME NEW j \in n + 1..Len(text), Occurs(text, start, j) PROVE FALSE
  OBVIOUS
<1>1. j \in Nat /\ n + 1 \in Nat /\ start <= n + 1 /\ n + 1 <= j /\ j <= Len(text) /\ n < Len(text)
  OBVIOUS
<1>2. SubSeq(text, start, j) \in paths
  BY DEF Occurs, TrieInv
<1>3. SubSeq(text, start, n + 1) \in paths
  BY <1>1, <1>2, PartOfPath
<1>4. QED
  BY <1>1, <1>3

\* What is found stays when more is put behind it.
LEMMA CoveredStays ==
    ASSUME NEW text, NEW f \in Matches, NEW g \in Matches, NEW i, Covered(text, f, i)
    PROVE  Covered(text, f \o g, i)
<1>1. CASE Behind(text, i)
  BY <1>1 DEF Covered
<1>2. CASE ~Behind(text, i)
  <2>1. PICK k \in 1..Len(f) : i \in f[k][1]..f[k][2]
    BY <1>2 DEF Covered
  <2>2. Len(f) \in Nat /\ Len(g) \in Nat /\ Len(f \o g) = Len(f) + Len(g) /\ (f \o g)[k] = f[k]
    BY ConcatProperties DEF Matches
  <2>3. k \in 1..Len(f \o g)
    BY <2>2
  <2>4. QED
    BY <2>1, <2>2, <2>3 DEF Covered
<1>3. QED
  BY <1>1, <1>2

\* A place inside a path that has begun before is behind it.
LEMMA InsideIsBehind ==
    ASSUME TrieInv, NEW A, NEW text \in Seq(A), NEW start \in Nat, NEW n \in Nat, NEW i \in Nat,
           1 <= start, start < i, i <= n, n <= Len(text), SubSeq(text, start, n) \in paths
    PROVE  Behind(text, i)
<1>1. SubSeq(text, start, i) \in paths
  BY PartOfPath
<1>2. start \in 1..(i - 1)
  OBVIOUS
<1>3. QED
  BY <1>1, <1>2 DEF Behind

\* More found behind a limit.
LEMMA RightStays ==
    ASSUME NEW text, NEW f, NEW lim \in Nat, NEW lim2 \in Nat, lim <= lim2, f \in Matches,
           Right(text, f, lim)
    PROVE  Right(text, f, lim2)
<1> SUFFICES ASSUME NEW k \in 1..Len(f)
             PROVE  Mark(text, f[k][1], f[k][2], lim2) /\ (k > 1 => f[k - 1][2] < f[k][1])
  BY DEF Right
<1>1. Mark(text, f[k][1], f[k][2], lim) /\ (k > 1 => f[k - 1][2] < f[k][1])
  BY DEF Right
<1>2. PICK b \in Nat : b = f[k][2]
  BY DEF Matches
<1>3. b < lim
  BY <1>1, <1>2 DEF Mark
<1>4. b < lim2
  BY <1>3
<1>5. QED
  BY <1>1, <1>2, <1>4 DEF Mark

\* One more mark, behind those before it.
LEMMA RightAppend ==
    ASSUME NEW text, NEW f \in Matches, NEW start \in Nat, NEW m \in Nat, NEW lim \in Nat,
           start <= lim, Right(text, f, start), Mark(text, start, m, lim)
    PROVE  Right(text, f \o <<<<start, m>>>>, lim)
<1>1. PICK x \in Nat \X Nat : x = <<start, m>> /\ x[1] = start /\ x[2] = m
  <2>1. <<start, m>> \in Nat \X Nat
    OBVIOUS
  <2>2. <<start, m>>[1] = start /\ <<start, m>>[2] = m
    OBVIOUS
  <2>3. QED
    BY <2>1, <2>2, Zenon
<1>2. PICK S : S = Nat \X Nat
  OBVIOUS
<1>3. PICK e \in Seq(S) : e = <<x>> /\ Len(e) = 1 /\ e[1] = x
  <2>1. <<x>> \in Seq(S) /\ Len(<<x>>) = 1 /\ <<x>>[1] = x
    BY <1>2
  <2>2. QED
    BY <2>1
<1>4. f \in Seq(S)
  BY <1>2 DEF Matches
<1>5. PICK g \in Seq(S) : g = f \o e
  BY <1>4, ConcatProperties
<1>6. Len(f) \in Nat /\ Len(g) = Len(f) + 1 /\ g[Len(f) + 1] = x /\ \A k \in 1..Len(f) : g[k] = f[k]
  BY <1>3, <1>4, <1>5, ConcatProperties
<1>7. Right(text, f, lim)
  BY RightStays
<1>8. ASSUME NEW k \in 1..Len(g)
      PROVE  Mark(text, g[k][1], g[k][2], lim) /\ (k > 1 => g[k - 1][2] < g[k][1])
  <2>1. CASE k = Len(f) + 1
    <3>1. Mark(text, g[k][1], g[k][2], lim)
      BY <1>1, <1>6, <2>1
    <3>2. ASSUME k > 1 PROVE g[k - 1][2] < g[k][1]
      <4>1. k - 1 \in 1..Len(f)
        BY <1>6, <2>1, <3>2
      <4>2. f[k - 1][2] < start
        BY <4>1 DEF Right, Mark
      <4>3. QED
        BY <1>1, <1>6, <2>1, <4>1, <4>2
    <3>3. QED
      BY <3>1, <3>2
  <2>2. CASE k # Len(f) + 1
    <3>1. k \in 1..Len(f) /\ (k > 1 => k - 1 \in 1..Len(f))
      BY <1>6, <2>2
    <3>2. Mark(text, f[k][1], f[k][2], lim) /\ (k > 1 => f[k - 1][2] < f[k][1])
      BY <1>7, <3>1 DEF Right
    <3>3. QED
      BY <1>6, <3>1, <3>2
  <2>3. QED
    BY <2>1, <2>2
<1>9. QED
  BY <1>1, <1>3, <1>5, <1>8 DEF Right

\* When the path ends at n, or the text does, all before n + 1 is done: the
\* longest word at start is marked, the places behind it are behind a path.
LEMMA AllDone ==
    ASSUME TrieInv, NEW A, NEW text \in Seq(A), NEW n \in Nat, NEW s, LoopInv(text, s, n),
           n = Len(text) \/ (n < Len(text) /\ SubSeq(text, s.start, n + 1) \notin paths)
    PROVE  \E f \in Matches :
             /\ f = s.found \o (IF s.startsWith THEN Longest(text, s.start, n + 1) ELSE << >>)
             /\ Right(text, f, n + 1) /\ Complete(text, f, n + 1)
<1>1. PICK start \in Nat : start = s.start
  BY DEF LoopInv, States
<1>2. PICK g \in Matches : g = s.found
  BY DEF LoopInv, States
<1>3. Right(text, g, start) /\ Complete(text, g, start)
  BY <1>1, <1>2 DEF LoopInv
<1>4. 1 <= start /\ start <= n + 1 /\ n <= Len(text) /\ n + 1 \in Nat /\ Len(text) \in Nat
  <2>1. CASE n = 0
    BY <1>1, <2>1 DEF LoopInv
  <2>2. CASE n > 0
    BY <1>1, <2>2 DEF LoopInv
  <2>3. QED
    BY <2>1, <2>2
<1>5. \A j \in n + 1..Len(text) : ~Occurs(text, start, j)
  BY <1>1, <1>4, NoneBeyond
<1>6. CASE ~s.startsWith
  <2>1. g \o << >> = g
    BY ConcatEmptySeq DEF Matches
  <2>2. Right(text, g, n + 1)
    BY <1>3, <1>4, RightStays
  <2>3. Complete(text, g, n + 1)
    <3> SUFFICES ASSUME NEW i \in 1..((n + 1) - 1), Seen(text, i) PROVE Covered(text, g, i)
      BY DEF Complete
    <3>1. n > 0 /\ i \in Nat /\ 1 <= i /\ i <= n
      OBVIOUS
    <3>2. start = n
      BY <1>1, <1>6, <3>1 DEF LoopInv
    <3>3. CASE i < start
      <4>1. i \in 1..(start - 1)
        BY <3>1, <3>3
      <4>2. QED
        BY <1>3, <4>1 DEF Complete
    <3>4. CASE i = start
      <4>1. PICK j \in i..Len(text) : Occurs(text, i, j) /\ (i = 1 \/ i < j)
        BY DEF Seen
      <4>2. ~(j \in n + 1..Len(text))
        BY <1>5, <3>4, <4>1
      <4>3. j = n /\ i = n /\ i = 1
        BY <1>4, <3>1, <3>2, <3>4, <4>1, <4>2
      <4>4. SubSeq(text, 1, 1) \in paths
        BY <4>1, <4>3 DEF Occurs, TrieInv
      <4>5. SubSeq(text, 1, 1) \notin paths
        BY <1>6, <4>3 DEF LoopInv
      <4>6. QED
        BY <4>4, <4>5
    <3>5. QED
      BY <3>1, <3>2, <3>3, <3>4
  <2>4. QED
    BY <1>2, <1>6, <2>1, <2>2, <2>3
<1>7. CASE s.startsWith
  <2>1. n > 0 /\ start <= n /\ SubSeq(text, start, n) \in paths
    <3>1. n > 0
      BY <1>7 DEF LoopInv
    <3>2. start \in 1..n /\ SubSeq(text, start, n) \in paths
      BY <1>1, <1>7, <3>1 DEF LoopInv
    <3>3. QED
      BY <3>1, <3>2
  <2>2. PICK l \in Matches : l = Longest(text, start, n + 1)
    BY <1>4, LongestTyped
  <2>3. PICK f \in Matches : f = g \o l
    BY ConcatProperties DEF Matches
  <2>4. Right(text, f, n + 1) /\ (Seen(text, start) => Covered(text, f, start))
    <3>1. CASE l = << >> /\ WordEnds(text, start, n + 1) = {}
      <4>1. f = g
        BY <2>3, <3>1, ConcatEmptySeq DEF Matches
      <4>2. Right(text, f, n + 1)
        BY <1>3, <1>4, <4>1, RightStays
      <4>3. ~Seen(text, start)
        <5> SUFFICES ASSUME NEW j \in start..Len(text), Occurs(text, start, j) PROVE FALSE
          BY DEF Seen
        <5>1. j \in start..((n + 1) - 1)
          BY <1>4, <1>5
        <5>2. j \in WordEnds(text, start, n + 1)
          BY <5>1 DEF WordEnds, SearcWord, Occurs
        <5>3. QED
          BY <3>1, <5>2
      <4>4. QED
        BY <4>2, <4>3
    <3>2. ASSUME NEW m \in Nat, l = <<<<start, m>>>>, m \in WordEnds(text, start, n + 1),
                 \A j \in WordEnds(text, start, n + 1) : m >= j
          PROVE  Right(text, f, n + 1) /\ Covered(text, f, start)
      <4>1. start <= m /\ m < n + 1 /\ SubSeq(text, start, m) \in ends
        <5>1. m \in start..((n + 1) - 1) /\ SubSeq(text, start, m) \in ends
          BY <3>2 DEF WordEnds, SearcWord
        <5>2. QED
          BY <5>1
      <4>2. Mark(text, start, m, n + 1)
        <5>1. Occurs(text, start, m)
          BY <1>4, <4>1 DEF Occurs
        <5>2. ASSUME NEW j \in m + 1..Len(text), Occurs(text, start, j) PROVE FALSE
          <6>1. j \in start..((n + 1) - 1)
            BY <1>4, <1>5, <4>1, <5>2
          <6>2. j \in WordEnds(text, start, n + 1)
            BY <5>2, <6>1 DEF WordEnds, SearcWord, Occurs
          <6>3. m >= j
            BY <3>2, <6>2
          <6>4. QED
            BY <6>3
        <5>3. QED
          BY <1>4, <4>1, <5>1, <5>2 DEF Mark
      <4>3. Right(text, g \o <<<<start, m>>>>, n + 1)
        BY <1>3, <1>4, <4>2, RightAppend
      <4>4. Covered(text, f, start)
        <5>1. PICK k : k = Len(g) + 1
          OBVIOUS
        <5>2. Len(l) = 1 /\ l[1] = <<start, m>> /\ l[1][1] = start /\ l[1][2] = m
          BY <3>2
        <5>3. Len(g) \in Nat /\ Len(f) = Len(g) + 1 /\ f[k] = l[1]
          <6>1. PICK S : S = Nat \X Nat
            OBVIOUS
          <6>2. PICK g1 \in Seq(S) : g1 = g
            BY <6>1 DEF Matches
          <6>3. PICK l1 \in Seq(S) : l1 = l /\ Len(l1) = 1
            BY <5>2, <6>1 DEF Matches
          <6>4. PICK f1 : f1 = g1 \o l1
            OBVIOUS
          <6>5. Len(g1) \in Nat /\ Len(f1) = Len(g1) + 1 /\ f1[Len(g1) + 1] = l1[1]
            BY <6>3, <6>4, ConcatProperties
          <6>6. QED
            BY <2>3, <5>1, <6>2, <6>3, <6>4, <6>5
        <5>4. k \in 1..Len(f) /\ start \in start..m
          BY <4>1, <5>1, <5>3
        <5>5. QED
          BY <5>2, <5>3, <5>4 DEF Covered
      <4>5. QED
        BY <2>3, <3>2, <4>3, <4>4
    <3>3. QED
      <4>1. \/ Longest(text, start, n + 1) = << >> /\ WordEnds(text, start, n + 1) = {}
            \/ \E m \in Nat : /\ Longest(text, start, n + 1) = <<<<start, m>>>>
                              /\ m \in WordEnds(text, start, n + 1)
                              /\ \A j \in WordEnds(text, start, n + 1) : m >= j
        BY <1>4, LongestIs
      <4>2. QED
        BY <2>2, <3>1, <3>2, <4>1
  <2>5. Complete(text, f, n + 1)
    <3> SUFFICES ASSUME NEW i \in 1..((n + 1) - 1), Seen(text, i) PROVE Covered(text, f, i)
      BY DEF Complete
    <3>1. i \in Nat /\ 1 <= i /\ i <= n
      OBVIOUS
    <3>2. CASE i < start
      <4>1. i \in 1..(start - 1)
        BY <3>1, <3>2
      <4>2. Covered(text, g, i)
        BY <1>3, <4>1 DEF Complete
      <4>3. QED
        BY <2>3, <4>2, CoveredStays
    <3>3. CASE i = start
      BY <2>4, <3>3
    <3>4. CASE i > start
      <4>1. Behind(text, i)
        BY <1>4, <2>1, <3>1, <3>4, InsideIsBehind
      <4>2. QED
        BY <4>1 DEF Covered
    <3>5. QED
      BY <3>1, <3>2, <3>3, <3>4
  <2>6. QED
    BY <1>1, <1>2, <1>7, <2>2, <2>3, <2>4, <2>5
<1>8. s.startsWith \in BOOLEAN
  BY DEF LoopInv, States
<1>9. QED
  BY <1>6, <1>7

\* One turn.
LEMMA TurnKeeps ==
    ASSUME TrieInv, NEW A, NEW text \in Seq(A), NEW n \in Nat, n < Len(text), NEW s, LoopInv(text, s, n)
    PROVE  LoopInv(text, Turn(text, s, n + 1), n + 1)
<1>1. s \in States /\ s.start \in Nat
  BY DEF LoopInv, States
<1>2. PICK t \in States : t = Turn(text, s, n + 1)
  <2>1. n + 1 \in Nat
    OBVIOUS
  <2>2. QED
    BY <1>1, <2>1, TurnTyped
<1>3. CASE StartsWith(SubSeq(text, s.start, n + 1))
  <2>1. t = [s EXCEPT !.startsWith = TRUE]
    BY <1>2, <1>3 DEF Turn
  <2>2. t.start = s.start /\ t.startsWith = TRUE /\ t.found = s.found
    BY <1>1, <2>1 DEF States
  <2>3. Right(text, t.found, t.start) /\ Complete(text, t.found, t.start)
    BY <2>2 DEF LoopInv
  <2>4. t.start \in 1..(n + 1)
    <3>1. CASE n = 0
      BY <2>2, <3>1 DEF LoopInv
    <3>2. CASE n > 0
      BY <2>2, <3>2 DEF LoopInv
    <3>3. QED
      BY <3>1, <3>2
  <2>5. SubSeq(text, t.start, n + 1) \in paths
    BY <1>3, <2>2 DEF StartsWith
  <2>6. LoopInv(text, t, n + 1)
    BY <2>2, <2>3, <2>4, <2>5 DEF LoopInv
  <2>7. QED
    BY <1>2, <2>6
<1>4. CASE ~StartsWith(SubSeq(text, s.start, n + 1))
  <2>1. SubSeq(text, s.start, n + 1) \notin paths
    BY <1>4 DEF StartsWith
  <2>2. PICK f \in Matches :
          /\ f = s.found \o (IF s.startsWith THEN Longest(text, s.start, n + 1) ELSE << >>)
          /\ Right(text, f, n + 1) /\ Complete(text, f, n + 1)
    BY <2>1, AllDone
  <2>3. t = [start |-> n + 1, startsWith |-> FALSE, found |-> f]
    BY <1>2, <1>4, <2>2 DEF Turn
  <2>4. t.start = n + 1 /\ t.startsWith = FALSE /\ t.found = f
    BY <2>3
  <2>5. Right(text, t.found, t.start) /\ Complete(text, t.found, t.start)
    BY <2>2, <2>4
  <2>6. n + 1 = 1 => SubSeq(text, 1, 1) \notin paths
    <3> SUFFICES ASSUME n = 0 PROVE SubSeq(text, 1, 1) \notin paths
      OBVIOUS
    <3>1. s.start = 1 /\ n + 1 = 1
      BY DEF LoopInv
    <3>2. QED
      BY <2>1, <3>1
  <2>7. LoopInv(text, t, n + 1)
    BY <2>4, <2>5, <2>6 DEF LoopInv
  <2>8. QED
    BY <1>2, <2>7
<1>5. QED
  BY <1>3, <1>4

\* All turns.
LEMMA LoopKeeps ==
    ASSUME TrieInv, NEW A, NEW text \in Seq(A)
    PROVE  LoopInv(text, Loop(text)[Len(text)], Len(text))
<1> DEFINE S == {n \in Nat : n <= Len(text) => LoopInv(text, Loop(text)[n], n)}
<1>1. 0 \in S
  <2>1. PICK s \in States : s = Loop(text)[0]
    BY LoopTurns
  <2>2. s = NewState
    BY <2>1, LoopTurns
  <2>3. s.start = 1 /\ s.startsWith = FALSE /\ s.found = << >>
    BY <2>2 DEF NewState
  <2>4. Right(text, << >>, 1) /\ Complete(text, << >>, 1)
    BY DEF Right, Complete
  <2>5. Right(text, s.found, s.start) /\ Complete(text, s.found, s.start)
    BY <2>3, <2>4
  <2>6. LoopInv(text, s, 0)
    BY <2>3, <2>5 DEF LoopInv
  <2>7. QED
    BY <2>1, <2>6
<1>2. ASSUME NEW n \in Nat, n \in S PROVE n + 1 \in S
  <2> SUFFICES ASSUME n + 1 <= Len(text) PROVE LoopInv(text, Loop(text)[n + 1], n + 1)
    OBVIOUS
  <2>1. n <= Len(text) /\ n < Len(text)
    OBVIOUS
  <2>2. PICK s : s = Loop(text)[n]
    OBVIOUS
  <2>3. LoopInv(text, s, n)
    BY <1>2, <2>1, <2>2
  <2>4. Loop(text)[n + 1] = Turn(text, s, n + 1)
    BY <2>2, LoopTurns
  <2>5. LoopInv(text, Turn(text, s, n + 1), n + 1)
    BY <2>1, <2>3, TurnKeeps
  <2>6. QED
    BY <2>4, <2>5
<1>3. PICK S1 : S1 = S
  OBVIOUS
<1> HIDE DEF S
<1>4. 0 \in S1 /\ \A n \in Nat : n \in S1 => n + 1 \in S1
  BY <1>1, <1>2, <1>3
<1>5. \A n \in Nat : n \in S1
  BY <1>4, Induction
<1>6. Len(text) \in Nat /\ Len(text) <= Len(text)
  OBVIOUS
<1>7. QED
  BY <1>3, <1>5, <1>6 DEF S

\* The search is right and complete.
LEMMA SearchAgrees ==
    ASSUME TrieInv, NEW A, NEW text \in Seq(A)
    PROVE  \E f \in Matches : /\ f = SearcSentence(text)
                              /\ Right(text, f, Len(text) + 1) /\ Complete(text, f, Len(text) + 1)
<1>1. PICK n \in Nat : n = Len(text)
  OBVIOUS
<1>2. PICK s : s = Loop(text)[n]
  OBVIOUS
<1>3. LoopInv(text, s, n)
  BY <1>1, <1>2, LoopKeeps
<1>4. PICK f \in Matches :
        /\ f = s.found \o (IF s.startsWith THEN Longest(text, s.start, n + 1) ELSE << >>)
        /\ Right(text, f, n + 1) /\ Complete(text, f, n + 1)
  BY <1>1, <1>3, AllDone
<1>5. f = SearcSentence(text)
  BY <1>1, <1>2, <1>4 DEF SearcSentence
<1>6. QED
  BY <1>1, <1>4, <1>5

\* FilterAgrees, of any sentence and what was found in it.
AgreesOn(text, f) ==
    /\ \A k \in 1..Len(f) :
         /\ Occurs(text, f[k][1], f[k][2])
         /\ \A j \in f[k][2] + 1..Len(text) : ~Occurs(text, f[k][1], j)
         /\ k > 1 => f[k - 1][2] < f[k][1]
    /\ \A i \in 1..Len(text) :
         (\E j \in i..Len(text) : Occurs(text, i, j) /\ (i = 1 \/ i < j)) =>
            \/ \E k \in 1..Len(f) : i \in f[k][1]..f[k][2]
            \/ Behind(text, i)

\* The same in the words of FilterAgrees.
LEMMA SearchAgreesOn ==
    ASSUME TrieInv, NEW A, NEW text \in Seq(A)
    PROVE  AgreesOn(text, SearcSentence(text))
<1>1. PICK f \in Matches : /\ f = SearcSentence(text)
                           /\ Right(text, f, Len(text) + 1) /\ Complete(text, f, Len(text) + 1)
  BY SearchAgrees
<1>2. \A k \in 1..Len(f) :
         /\ Occurs(text, f[k][1], f[k][2])
         /\ \A j \in f[k][2] + 1..Len(text) : ~Occurs(text, f[k][1], j)
         /\ k > 1 => f[k - 1][2] < f[k][1]
  BY <1>1 DEF Right, Mark
<1>3. ASSUME NEW i \in 1..Len(text) PROVE Seen(text, i) => Covered(text, f, i)
  <2>1. i \in 1..((Len(text) + 1) - 1)
    OBVIOUS
  <2>2. QED
    BY <1>1, <2>1 DEF Complete
<1>4. AgreesOn(text, f)
  BY <1>2, <1>3 DEF AgreesOn, Seen, Covered
<1>5. QED
  BY <1>1, <1>4

\* A sentence without its blanks is a sequence of runes, an empty one stays so.
LEMMA StrippedTyped ==
    ASSUME NEW A, NEW text \in Seq(A)
    PROVE  Stripped(text) \in Seq(A) /\ (Len(text) = 0 => Len(Stripped(text)) = 0)
<1>1. PICK I : I = {i \in 1..Len(text) : text[i] \notin Blanks}
  OBVIOUS
<1>2. PICK p \in Seq(Nat) :
         /\ p = Positions(I)[Len(text)]
         /\ \A k \in 1..Len(p) : p[k] \in 1..Len(text) /\ p[k] \in I
         /\ Selected(text, I) \in Seq(A) /\ Len(Selected(text, I)) = Len(p)
         /\ \A k \in 1..Len(p) : Selected(text, I)[k] = text[p[k]]
  BY SelectedPlaces
<1>3. Stripped(text) = Selected(text, I)
  BY <1>1 DEF Stripped
<1>4. ASSUME Len(text) = 0 PROVE Len(p) = 0
  <2>1. Positions(I)[0] = << >>
    BY PositionsLoop
  <2>2. QED
    BY <1>2, <1>4, <2>1
<1>5. QED
  BY <1>2, <1>3, <1>4

-----------------------------------------------------------------------------
(* The steps of the filter.                                                 *)

FilterInv == TrieInv /\ FilterAgrees

\* With no sentence there is nothing to agree on.
LEMMA NothingAgrees ==
    AgreesOn(Stripped(<< >>), << >>)
<1>1. PICK text \in Seq(Runes) : text = << >>
  BY EmptySeq
<1>2. Len(text) = 0
  BY <1>1
<1>3. Len(Stripped(text)) = 0
  BY <1>2, StrippedTyped
<1>4. Len(Stripped(<< >>)) = 0
  BY <1>1, <1>3
<1>5. QED
  BY <1>4 DEF AgreesOn

\* FilterAgrees is AgreesOn for the sentence that was handled last.
LEMMA AgreesIs ==
    ASSUME AgreesOn(Stripped(sentence), found), found = << >> => handled = sentence
    PROVE  FilterAgrees
  BY DEF FilterAgrees, AgreesOn

\* The empty trie, before any sentence.
LEMMA FilterInitInv ==
    NewDFAUtil => FilterInv
<1> HAVE NewDFAUtil
<1>1. paths = {<< >>} /\ ends = {} /\ sentence = << >> /\ found = << >> /\ handled = << >>
  BY DEF NewDFAUtil
<1>2. TrieInv
  <2>1. << >> \in Seq(Runes)
    BY EmptySeq
  <2>2. \A p \in paths : Len(p) = 0
    BY <1>1
  <2>3. QED
    BY <1>1, <2>1, <2>2 DEF TrieInv
<1>3. AgreesOn(Stripped(sentence), found)
  BY <1>1, NothingAgrees
<1>4. FilterAgrees
  BY <1>1, <1>3, AgreesIs
<1>5. QED
  BY <1>2, <1>4 DEF FilterInv

\* The beginnings of a word, and of its beginnings, are beginnings of it.
LEMMA InsertKeepsTrie ==
    ASSUME TrieInv, NEW word \in Seq(Runes), DFAInsertWord(word)
    PROVE  TrieInv'
<1>1. PICK B : B = {SubSeq(word, 1, n) : n \in 0..Len(word)}
  OBVIOUS
<1>2. paths' = paths \cup B /\ ends' = ends \cup {word}
  BY <1>1 DEF DFAInsertWord
<1>3. \A n \in 0..Len(word) : SubSeq(word, 1, n) \in Seq(Runes) /\ Len(SubSeq(word, 1, n)) = n
  <2> TAKE n \in 0..Len(word)
  <2>1. n \in Int /\ 1 \in Int /\ (1 <= n \/ n = 0) /\ \A i \in 1..n : word[i] \in Runes
    OBVIOUS
  <2>2. /\ SubSeq(word, 1, n) \in Seq(Runes)
        /\ Len(SubSeq(word, 1, n)) = IF 1 <= n THEN n - 1 + 1 ELSE 0
    BY <2>1, SubSeqProperties
  <2>3. QED
    BY <2>1, <2>2
<1>4. B \subseteq Seq(Runes)
  BY <1>1, <1>3
<1>5. word \in B
  <2>1. SubSeq(word, 1, Len(word)) = word /\ Len(word) \in 0..Len(word)
    BY SubSeqFull
  <2>2. QED
    BY <1>1, <2>1
<1>6. ASSUME NEW p \in B, NEW k \in 1..Len(p) PROVE SubSeq(p, 1, k) \in B
  <2>1. PICK n \in 0..Len(word) : p = SubSeq(word, 1, n)
    BY <1>1
  <2>2. Len(p) = n
    BY <1>3, <2>1
  <2>3. /\ 1 \in 1..Len(word) /\ n \in 1..Len(word) /\ k \in 0..Len(word)
        /\ 1 \in 1..(n - 1 + 1) /\ k \in 1..(n - 1 + 1)
    BY <2>2
  <2>4. SubSeq(SubSeq(word, 1, n), 1, k) = SubSeq(word, 1 + 1 - 1, 1 + k - 1)
    BY <2>3, SubSeqOfSubSeq
  <2>5. 1 + 1 - 1 = 1 /\ 1 + k - 1 = k
    BY <2>3
  <2>6. QED
    BY <1>1, <2>1, <2>3, <2>4, <2>5
<1>7. QED
  BY <1>2, <1>4, <1>5, <1>6 DEF TrieInv

\* Every step keeps the trie and what was found in order.
LEMMA FilterNextInv ==
    FilterInv /\ [FilterNext]_filter => FilterInv'
<1> SUFFICES ASSUME FilterInv, [FilterNext]_filter PROVE FilterInv'
  OBVIOUS
<1>1. TrieInv
  BY DEF FilterInv
<1>2. CASE UNCHANGED filter
  <2>1. FilterAgrees'
    <3>1. paths' = paths /\ ends' = ends /\ sentence' = sentence /\ found' = found /\ handled' = handled
      BY <1>2 DEF filter
    <3>2. QED
      BY <3>1 DEF FilterInv, FilterAgrees, Occurs, Behind
  <2>2. TrieInv'
    BY <1>1, <1>2 DEF TrieInv, filter
  <2>3. QED
    BY <2>1, <2>2 DEF FilterInv
<1>3. ASSUME NEW word \in Words, DFAInsertWord(word) PROVE FilterInv'
  <2>1. word \in Seq(Runes)
    BY FilterAssumption
  <2>2. TrieInv'
    BY <1>1, <1>3, <2>1, InsertKeepsTrie
  <2>3. sentence' = << >> /\ found' = << >> /\ handled' = << >>
    BY <1>3 DEF DFAInsertWord
  <2>4. AgreesOn(Stripped(sentence), found)'
    <3>1. AgreesOn(Stripped(<< >>), << >>)'
      BY NothingAgrees, PTL
    <3>2. QED
      BY <2>3, <3>1
  <2>5. FilterAgrees'
    BY <2>3, <2>4 DEF FilterAgrees, AgreesOn
  <2>6. QED
    BY <2>2, <2>5 DEF FilterInv
<1>4. ASSUME NEW text \in BoundedSeq(Runes \cup Blanks, MaxSentence), HandleWord(text) PROVE FilterInv'
  <2>1. PICK A : A = Runes \cup Blanks
    OBVIOUS
  <2>2. text \in Seq(A)
    <3>1. PICK m \in 0..MaxSentence : text \in [1..m -> A]
      BY <2>1 DEF BoundedSeq, SeqOf
    <3>2. m \in Nat
      BY FilterAssumption
    <3>3. QED
      BY <3>1, <3>2
  <2>3. PICK t \in Seq(A) : t = Stripped(text)
    BY <2>2, StrippedTyped
  <2>4. PICK f : f = SearcSentence(t)
    OBVIOUS
  <2>5. AgreesOn(t, f)
    BY <1>1, <2>4, SearchAgreesOn
  <2>6. /\ paths' = paths /\ ends' = ends /\ sentence' = text /\ found' = f
        /\ handled' = IF f = << >> THEN text ELSE Masked(t, f)
    BY <1>4, <2>3, <2>4 DEF HandleWord
  <2>7. TrieInv'
    BY <1>1, <2>6 DEF TrieInv
  <2>8. Stripped(sentence)' = t
    BY <2>3, <2>6 DEF Stripped
  <2>9. AgreesOn(t, f)'
    BY <2>5, <2>6 DEF AgreesOn, Occurs, Behind
  <2>10. FilterAgrees'
    BY <2>6, <2>8, <2>9 DEF FilterAgrees, AgreesOn
  <2>11. QED
    BY <2>7, <2>10 DEF FilterInv
<1>5. QED
  BY <1>2, <1>3, <1>4 DEF FilterNext

\* Whatever words are inserted and whatever sentences are handled, of any
\* length, the search marks only words of the list, each the longest at its
\* place and none overlapping another, and misses one only where the code does
\* not look.
THEOREM FilterAlwaysAgrees == FilterSpec => []FilterAgrees
<1>1. NewDFAUtil => FilterInv
  BY FilterInitInv
<1>2. FilterInv /\ [FilterNext]_filter => FilterInv'
  BY FilterNextInv
<1>3. FilterInv => FilterAgrees
  BY DEF FilterInv
<1>4. QED
  BY <1>1, <1>2, <1>3, PTL DEF FilterSpec
=============================================================================
