------------------------------ MODULE MCSession ------------------------------
(***************************************************************************)
(* Instances of Session for TLC.  The goroutines and Nil are model values; *)
(* the configurations choose the sizes: sendQueueMaxLen = 2000 becomes 1   *)
(* or 2.                                                                   *)
(***************************************************************************)
EXTENDS Session

CONSTANTS s1, h1, c1, nil
=============================================================================
