------------------------------ MODULE MCFraming ------------------------------
(***************************************************************************)
(* Instance of Framing for TLC: length fields of 0 to 7, blocks of 2, the  *)
(* limits 4, 7 (a buffer of 9, cut) and 9 (a limit set directly).          *)
(* k2 is no key for AES, and the id 9 is cut to 1.                         *)
(***************************************************************************)
EXTENDS Framing

CONSTANTS k1, k2, none, rsa

Msg(id, seqId, len, transmit) ==
    [id |-> id, seqId |-> seqId, len |-> len, transmit |-> transmit]

MCMessages ==
    {Msg(1, 0, 0, FALSE), Msg(1, 0, 4, FALSE), Msg(6, 0, 1, FALSE), Msg(6, 0, 2, FALSE),
     Msg(2, 0, 3, FALSE), Msg(3, 0, 1, FALSE), Msg(9, 5, 3, TRUE), Msg(3, 5, 8, TRUE)}

MCGarbage == [len : {1}, id : {1, 3}, seqId : {0}, flag : {0}]
=============================================================================
