------------------------------- MODULE Library -------------------------------
(***************************************************************************)
(* The parts of the library that do not share state with each other: the   *)
(* SQL builder, the word filter, the message registry, the session         *)
(* manager, the event queue, timers and calendar and the log files.  They  *)
(* are independent, so a behaviour is one of one part: all interleavings   *)
(* of their steps would only be the product of these.                      *)
(***************************************************************************)
EXTENDS Sqler, WordFilter, Registry, SessionManager, EventQueue, Timer, LogFile

VARIABLE part  \* the part this behaviour is about

libvars ==
    <<part, sqler, filter, registry, managervars, queuevars, timers, calendar, logfile>>

LibraryInit ==
    /\ part \in {"sqler", "filter", "registry", "manager", "queue", "timer", "calendar", "log"}
    /\ NewSqler /\ NewDFAUtil /\ RegistryInit /\ ManagerInit /\ QueueInit
    /\ TimerInit /\ CalendarInit /\ LogInit

\* It is about p: the other parts stand still.
Only(p) ==
    /\ part = p /\ UNCHANGED part
    /\ IF p = "sqler" THEN TRUE ELSE UNCHANGED sqler
    /\ IF p = "filter" THEN TRUE ELSE UNCHANGED filter
    /\ IF p = "registry" THEN TRUE ELSE UNCHANGED registry
    /\ IF p = "manager" THEN TRUE ELSE UNCHANGED managervars
    /\ IF p = "queue" THEN TRUE ELSE UNCHANGED queuevars
    /\ IF p = "timer" THEN TRUE ELSE UNCHANGED timers
    /\ IF p = "calendar" THEN TRUE ELSE UNCHANGED calendar
    /\ IF p = "log" THEN TRUE ELSE UNCHANGED logfile

LibraryNext ==
    \/ Only("sqler") /\ SqlerNext
    \/ Only("filter") /\ FilterNext
    \/ Only("registry") /\ RegistryNext
    \/ Only("manager") /\ ManagerNext
    \/ Only("queue") /\ QueueNext
    \/ Only("timer") /\ TimerNext
    \/ Only("calendar") /\ CalendarNext
    \/ Only("log") /\ LogNext

\* The loop of the event queue runs when it can; a select between a ready
\* channel and the ticker is a fair draw.  A callback returns unless it waits
\* for room.
LibraryFairness ==
    /\ WF_libvars(Only("queue") /\ LoopRuns)
    /\ SF_libvars(Only("queue") /\ Take)

LibrarySpec == LibraryInit /\ [][LibraryNext]_libvars /\ LibraryFairness
=============================================================================
