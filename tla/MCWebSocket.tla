----------------------------- MODULE MCWebSocket -----------------------------
(***************************************************************************)
(* Instance of WebSocket for TLC: one sender, one Close and one Stop, the  *)
(* queue of a gate (a channel smaller than the limit Send compares with)   *)
(* and three failed reads instead of a thousand before the library panics. *)
(***************************************************************************)
EXTENDS WebSocket

CONSTANTS s1, c1, t1, nil
=============================================================================
