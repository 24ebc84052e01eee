------------------------------- MODULE LogFile -------------------------------
(***************************************************************************)
(* The log files (src/util/loghelper.go): goroutines write lines into a    *)
(* file per day, with an index behind its name once it is full.  The file  *)
(* is chosen under logMu; the line is written after the unlock, through    *)
(* the global logger, which another goroutine may replace in between.      *)
(* specialWriteLog does the same for the statistics.                       *)
(*                                                                         *)
(* A file is a pair of day and index, its size the number of its lines.    *)
(***************************************************************************)
EXTENDS Integers, FiniteSets, FiniteSetsExt

CONSTANTS
    Writers,    \* goroutines
    Levels, Level,  \* levels of lines, and the lowest that is written
    MaxSize,    \* the argument of InitLog
    Max_File_Bites,
    MaxDay, MaxLines  \* bounds: days and lines

ASSUME LogAssumption ==
    /\ IsFiniteSet(Writers) /\ Levels \subseteq Nat /\ Level \in Nat
    /\ MaxSize \in Int /\ Max_File_Bites \in Nat \ {0} /\ MaxDay \in Nat /\ MaxLines \in Nat

VARIABLES
    day, lines,           \* the date; lines given to writeLog so far
    fileName, size,       \* the file that is open; lines in each file
    at,                   \* where each goroutine is
    locked,               \* logMu is held by a goroutine that panicked
    lost,                 \* lines written to a file that was closed
    misses                \* history: times the size of the open file was not to be had

logfile == <<day, lines, fileName, size, at, locked, lost, misses>>

Files == (0..MaxDay) \X (0..MaxLines)
LogMaxSize == IF MaxSize <= 0 THEN Max_File_Bites ELSE MaxSize

LogInit ==
    /\ day = 0 /\ lines = 0 /\ lost = 0 /\ misses = 0
    /\ fileName = <<0, 0>>
    /\ size = [f \in Files |-> 0]
    /\ at = [w \in Writers |-> "idle"] /\ locked = FALSE

NextDay ==
    /\ day < MaxDay /\ day' = day + 1
    /\ UNCHANGED <<lines, fileName, size, at, locked, lost, misses>>

\* InitLog of a process that starts again: the files of the day are there.
InitLog ==
    /\ fileName' = <<day, 0>> /\ at' = [w \in Writers |-> "idle"] /\ locked' = FALSE
    /\ UNCHANGED <<day, lines, size, lost, misses>>

FirstWithRoom(d, from) == Min({i \in from..MaxLines : size[<<d, i>>] < LogMaxSize})

\* Mutant: the size of a file with an index is not looked at.
BugChosen ==
    IF fileName # <<day, 0>> THEN {<<day, 0>>}
    ELSE {<<day, IF size[<<day, 0>>] < LogMaxSize THEN 0 ELSE 1>>}

\* The file the next line is for.  A name that is not the first of today, be
\* it yesterday's or one with an index, is closed for the first of today, full
\* or not; only if that is the open one the first that has room is taken.  The
\* date is read again for every name, so that at midnight the indices go on
\* with the new date.
Chosen ==
    IF fileName # <<day, 0>> THEN {<<day, 0>>}
    ELSE LET first == FirstWithRoom(day, 0)
         IN  {<<day, first>>} \cup
             {<<day + 1, FirstWithRoom(day + 1, i)>> : i \in IF day < MaxDay THEN 1..first ELSE {}}

\* writeLog goes to a file, and closes the one that was open.  Whoever has the
\* old logger in hand has a closed file.
Open(w, level, f, next) ==
    /\ at[w] = "idle" /\ level >= Level /\ lines < MaxLines /\ ~locked
    /\ lines' = lines + 1 /\ fileName' = f /\ day' = f[1]
    /\ at' = [v \in Writers |-> IF v = w THEN next
                                ELSE IF at[v] = "open" /\ f # fileName THEN "closed"
                                ELSE at[v]]
    /\ UNCHANGED <<size, lost>>

WriteLog(w, level) ==
    /\ \E f \in Chosen : Open(w, level, f, "unlocked")
    /\ UNCHANGED <<locked, misses>>

\* The files writeLog comes to on its way there.
Tried ==
    IF fileName # <<day, 0>> THEN {<<day, 0>>}
    ELSE LET first == FirstWithRoom(day, 0)
         IN  {<<day, i>> : i \in 0..first} \cup
             {<<day + 1, i>> : i \in IF day < MaxDay THEN 1..FirstWithRoom(day + 1, first) ELSE {}}

\* newLogger cannot open one of them and panics: nobody unlocks logMu, and the
\* global logger stays the one whose file was closed.
NewLoggerPanics(w, level) ==
    /\ \E f \in Tried \ {fileName} : Open(w, level, f, "idle")
    /\ locked' = TRUE /\ UNCHANGED misses

\* fileLogging.Stat fails: the file it has come to is taken, full or not.
StatFails(w, level) ==
    /\ fileName = <<day, 0>>
    /\ \E f \in Tried : Open(w, level, f, "unlocked")
    /\ misses' = misses + 1 /\ UNCHANGED locked

\* The global logger is read, without the lock.
Load(w) ==
    /\ at[w] = "unlocked"
    /\ at' = [at EXCEPT ![w] = IF locked THEN "closed" ELSE "open"]
    /\ UNCHANGED <<day, lines, fileName, size, locked, lost, misses>>

\* Printf; an error of the write is dropped by the log package.
Printf(w) ==
    /\ at[w] \in {"open", "closed"}
    /\ at' = [at EXCEPT ![w] = "idle"]
    /\ IF at[w] = "open" THEN size' = [size EXCEPT ![fileName] = @ + 1] /\ UNCHANGED lost
       ELSE lost' = lost + 1 /\ UNCHANGED size
    /\ UNCHANGED <<day, lines, fileName, locked, misses>>

LogNext ==
    \/ NextDay \/ InitLog
    \/ \E w \in Writers :
         \/ Load(w) \/ Printf(w)
         \/ \E level \in Levels :
              WriteLog(w, level) \/ NewLoggerPanics(w, level) \/ StatFails(w, level)

LogSpec == LogInit /\ [][LogNext]_logfile

-----------------------------------------------------------------------------
(* Properties.                                                              *)

\* Though the size is read under the lock and the line written after it, a file
\* with an index exceeds the limit by at most one line of every other goroutine,
\* and by one more of every goroutine for each time its size was not to be had;
\* neither midnight nor a newLogger that panics adds to this.  Nothing of the
\* kind holds for the first file of a day: every line put into a file with an
\* index leads back to it, full as it is.
SizeBounded ==
    \A d \in 0..MaxDay, i \in 1..MaxLines :
      size[<<d, i>>] <= LogMaxSize - 1 + Cardinality(Writers) * (1 + misses)
=============================================================================
