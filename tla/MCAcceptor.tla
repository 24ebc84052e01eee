----------------------------- MODULE MCAcceptor -----------------------------
(***************************************************************************)
(* An instance of Acceptor for TLC: two connections, two launches, and one *)
(* goroutine that stops the acceptor twice.                                *)
(***************************************************************************)
EXTENDS Acceptor

CONSTANTS c1, c2, t1
=============================================================================
