----------------------------- MODULE MCDiscovery -----------------------------
(***************************************************************************)
(* Instance of Discovery for TLC: two processes configured with the same   *)
(* identity in zone 10, and the watcher of zone 1, whose prefix matches    *)
(* that zone too.                                                          *)
(***************************************************************************)
EXTENDS Discovery

CONSTANTS p1, p2, none
=============================================================================
