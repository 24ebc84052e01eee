----------------------------- MODULE Selection -----------------------------
(***************************************************************************)
(* The loop that goes through a sequence and keeps some of its elements,   *)
(* in their order, as parseWhere and the stripping of a sentence do.  It   *)
(* is SelectSeq with the places that are kept instead of a test, and a     *)
(* recursive function, so that it can be reasoned about.                   *)
(***************************************************************************)
EXTENDS Naturals, Sequences

\* The members of I from 1 to n, in order.
Positions(I) ==
    LET upTo[n \in Nat] == IF n = 0 THEN << >>
                           ELSE IF n \in I THEN Append(upTo[n - 1], n) ELSE upTo[n - 1]
    IN  upTo

\* The elements of s at the places in I.
Selected(s, I) ==
    LET at == Positions(I)[Len(s)]
    IN  [k \in 1..Len(at) |-> s[at[k]]]
=============================================================================
