------------------------------ MODULE Executor ------------------------------
(***************************************************************************)
(* What a node expects of its event queue: callbacks are run one after the *)
(* other in the order in which they were accepted, each exactly once, and  *)
(* a stop lets those accepted before it finish and runs none accepted      *)
(* after it.                                                               *)
(***************************************************************************)
EXTENDS Integers, Sequences

CONSTANT Callbacks

VARIABLES
    pending,  \* accepted and not finished
    done,     \* finished, in order
    limit,    \* how many are to finish before the stop, or NoLimit
    ended     \* the stop took effect

\* No stop yet.
NoLimit == -1

Init ==
    /\ pending = << >> /\ done = << >>
    /\ limit = NoLimit /\ ended = FALSE

Accept(c) ==
    /\ pending' = Append(pending, c)
    /\ UNCHANGED <<done, limit, ended>>

\* The first pending callback finishes, unless it came after the stop.
Finish ==
    /\ pending # << >> /\ ~ended
    /\ limit # NoLimit => Len(done) < limit
    /\ done' = Append(done, Head(pending))
    /\ pending' = Tail(pending)
    /\ UNCHANGED <<limit, ended>>

\* The first stop fixes what is still to be run.
Stop ==
    /\ limit = NoLimit
    /\ limit' = Len(done) + Len(pending)
    /\ UNCHANGED <<pending, done, ended>>

End ==
    /\ limit # NoLimit /\ ~ended
    /\ Len(done) = limit
    /\ ended' = TRUE
    /\ UNCHANGED <<pending, done, limit>>

Next == (\E c \in Callbacks : Accept(c)) \/ Finish \/ Stop \/ End

vars == <<pending, done, limit, ended>>

Spec == Init /\ [][Next]_vars
=============================================================================
