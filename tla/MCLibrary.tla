------------------------------ MODULE MCLibrary ------------------------------
(***************************************************************************)
(* Instance of Library for TLC.                                            *)
(***************************************************************************)
EXTENDS Library

CONSTANTS ra, rb, rc, space, mask, t1, t2, t3, ca, cb, cc, cd, nil, s1, s2, s3

Cond(rel, n, ok) == [rel |-> rel, n |-> n, ok |-> ok]

MCConditions ==
    {Cond("and", 2, TRUE), Cond("or", 3, TRUE), Cond("and", 4, TRUE), Cond("and", 1, FALSE)}

MCJoins == {[side |-> "INNER", n |-> 2], [side |-> "LEFT", n |-> 4], [side |-> "RIGHT", n |-> 3]}

Data(form, cols, skipped, n) == [form |-> form, cols |-> cols, skipped |-> skipped, n |-> n]

MCDatas ==
    {Data("text", {}, {}, 1), Data("map", {ra, rb}, {}, 1), Data("struct", {ra, rb}, {rb}, 1),
     Data("rows", {ra, rb}, {}, 2)}

MCWords == {<<ra, rb, rc>>, <<rb, rc>>, <<ra, rb>>, <<rb, rb, ra>>, <<rc>>}

\* Two of the types have the same name.
MCNameOf == [t \in {t1, t2, t3} |-> IF t = t3 THEN t1 ELSE t]

\* The callback that posts another one.
MCPosts == [x \in {ca, cb, cc, cd} |-> IF x = cb THEN cd ELSE nil]
=============================================================================
