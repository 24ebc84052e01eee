----------------------------- MODULE MCConnector -----------------------------
(***************************************************************************)
(* Instances of Connector for TLC: one Stop, one other caller of Close,    *)
(* a heartbeat and at most three connections.                              *)
(***************************************************************************)
EXTENDS Connector

CONSTANTS h1, c1, t1, nil
=============================================================================
