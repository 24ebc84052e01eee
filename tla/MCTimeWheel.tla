----------------------------- MODULE MCTimeWheel -----------------------------
(***************************************************************************)
(* An instance of TimeWheel for TLC: two slots of 2 ms, a repeated task of *)
(* a whole rotation and one shorter than a slot, which both come back to   *)
(* the slot they leave, and a task of a slot without a key.                *)
(***************************************************************************)
EXTENDS TimeWheel

CONSTANTS again, soon, free, none

MCDelay == [t \in Tasks |-> CASE t = again -> 4 [] t = soon -> 1 [] t = free -> 2]

MCSpec == WheelSpec /\ WheelFairness
=============================================================================
