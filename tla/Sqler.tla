-------------------------------- MODULE Sqler --------------------------------
(***************************************************************************)
(* The SQL builder (src/socket/mysql/sqler.go).  A caller puts clauses     *)
(* into it with chained calls, asks for statements, and may go on with it, *)
(* with or without Reset.                                                  *)
(*                                                                         *)
(* A statement is a record of its clauses; << >> is the empty string that  *)
(* stands for an error.  A condition is kept as its relation, the number   *)
(* of its arguments and whether they can be parsed, data as its form and   *)
(* its columns; it is set anew by every call that reads it, so it is an    *)
(* argument here.  Names are the ones after translate.                     *)
(***************************************************************************)
EXTENDS Integers, Sequences, SequencesExt, Selection

CONSTANTS
    Conditions,  \* [rel : {"and", "or"}, n : number of arguments, ok : BOOLEAN]
    Joins,       \* [side, n : number of arguments]
    Datas,       \* [form : {"text", "map", "struct", "rows"}, cols, skipped, n]
    Columns,
    Sizes,       \* arguments of Limit, Offset and Page
    MaxCalls     \* bound: calls between two Resets

ASSUME SqlerAssumption ==
    /\ Conditions \subseteq [rel : {"and", "or"}, n : Nat, ok : BOOLEAN]
    /\ \A j \in Joins : j.n \in Nat
    /\ \A d \in Datas : d.cols \subseteq Columns /\ d.skipped \subseteq d.cols /\ d.n \in Nat
    /\ Sizes \subseteq Nat /\ MaxCalls \in Nat

VARIABLES
    dba,    \* the builder
    calls,  \* history: the calls since NewSqler or Reset
    sql     \* history: the statements built by the last call

sqler == <<dba, calls, sql>>

Unions == <<"count", "sum", "avg", "max", "min">>
Texts == {"table", "group", "having", "order"}
Values == {"x", "y"}

\* The fields of r, and those of s that r has not.
With(r, s) == [x \in DOMAIN r \cup DOMAIN s |-> IF x \in DOMAIN r THEN r[x] ELSE s[x]]

\* The fields Reset clears, as it leaves them.
Cleared ==
    [table |-> "", group |-> "", having |-> "", order |-> "", fields |-> "",
     limit |-> 0, offset |-> 0, distinct |-> FALSE, where |-> << >>, join |-> << >>,
     union |-> {}]

\* The fields it does not touch, as NewSqler makes them.
Kept == [optype |-> "", inc_fields |-> {}, ignore |-> FALSE]

NewSqler == dba = With(Cleared, Kept) /\ calls = << >> /\ sql = << >>

-----------------------------------------------------------------------------
(* Putting clauses in.                                                      *)

Put(call, new) ==
    /\ Len(calls) < MaxCalls
    /\ calls' = Append(calls, call)
    /\ dba' = new
    /\ sql' = << >>

\* Table, Group, Having and Order.
SetText(f, v) == Put([f |-> f, v |-> v], [dba EXCEPT ![f] = v])

Limit(n) == Put([f |-> "limit", v |-> n], [dba EXCEPT !.limit = n])
Offset(n) == Put([f |-> "offset", v |-> n], [dba EXCEPT !.offset = n])

\* The offset is computed with the limit of the moment.
Page(n) == Put([f |-> "offset", v |-> (n - 1) * dba.limit],
               [dba EXCEPT !.offset = (n - 1) * dba.limit])

\* Where and OrWhere.
Where(c) == Put([f |-> "where", v |-> c], [dba EXCEPT !.where = Append(@, c)])

\* Join, LeftJoin and RightJoin.
Join(j) == Put([f |-> "join", v |-> j], [dba EXCEPT !.join = Append(@, j)])

Distinct == Put([f |-> "distinct", v |-> TRUE], [dba EXCEPT !.distinct = TRUE])
Ignore == Put([f |-> "ignore", v |-> TRUE], [dba EXCEPT !.ignore = TRUE])

\* Mutant: the conditions survive Reset.
BugReset ==
    /\ dba' = With([Cleared EXCEPT !.where = dba.where], dba)
    /\ calls' = << >>
    /\ sql' = << >>

Reset ==
    /\ dba' = With(Cleared, dba)
    /\ calls' = << >>
    /\ sql' = << >>

-----------------------------------------------------------------------------
(* Building statements.                                                     *)

\* parseParams and parseWhere: an operator that is not on the list, or a form
\* it does not know, is an error.
WhereFails(w) == \E i \in 1..Len(w) : w[i].n \in {1, 3} /\ ~w[i].ok

Usable(c) == c.n \in 1..3

\* A condition of no argument, or of more than three, is passed over without
\* a word; the relation before the first one is trimmed off.
ParseWhere(w) ==
    LET kept == Selected(w, {i \in 1..Len(w) : Usable(w[i])})
    IN  IF kept = << >> THEN << >> ELSE [kept EXCEPT ![1].rel = "and"]

JoinFails(j) == \E i \in 1..Len(j) : j[i].n \notin {1, 2, 4}

FirstUnion(us) == SelectSeq(Unions, LAMBDA u : u \in us)[1]

\* What is selected: the first aggregate that is set, before the fields.
What(b) ==
    IF b.union # {} THEN FirstUnion(b.union) ELSE IF b.fields = "" THEN "*" ELSE b.fields

BuildQuery(b) ==
    IF JoinFails(b.join) \/ WhereFails(b.where) THEN << >>
    ELSE <<With([op |-> "select", what |-> What(b), where |-> ParseWhere(b.where)],
                [f \in Texts \cup {"distinct", "join", "limit", "offset"} |-> b[f]])>>

\* utils_Struct2Map leaves out the fields that are tagged so.
Struct2Map(d) ==
    IF d.form = "struct" THEN [d EXCEPT !.form = "map", !.cols = d.cols \ d.skipped] ELSE d

\* buildData.  The columns of rows are looked up in the list they are to be
\* put into, so none is ever found.
BuildData(b, data) ==
    LET d == Struct2Map(data)
    IN  CASE d.form = "text" -> [set |-> {<<"text", FALSE>>}, keys |-> {}, rows |-> 0]
          [] d.form = "rows" -> [set |-> {}, keys |-> {}, rows |-> d.n]
          [] OTHER -> [set |-> {<<c, b.optype = "update" /\ c \in b.inc_fields>> : c \in d.cols},
                       keys |-> d.cols, rows |-> 1]

BuildExecut(b, d) ==
    IF WhereFails(b.where) THEN << >>
    ELSE LET stmt == [op |-> b.optype, table |-> b.table, where |-> ParseWhere(b.where)]
             data == BuildData(b, d)
         IN  IF b.optype = "insert"
             THEN <<With(stmt, [ignore |-> b.ignore, keys |-> data.keys, rows |-> data.rows])>>
             ELSE <<With(stmt, [set |-> data.set])>>

BuiltBy(call, b, stmts) ==
    /\ Len(calls) < MaxCalls
    /\ calls' = Append(calls, call)
    /\ dba' = b
    /\ sql' = stmts

Built(b, stmts) == BuiltBy([f |-> "build"], b, stmts)

Select == Built(dba, BuildQuery(dba))

\* With an argument.
SelectFields(fields) ==
    LET b == [dba EXCEPT !.fields = fields]
    IN  BuiltBy([f |-> "fields", v |-> fields], b, BuildQuery(b))

\* Insert and InsertBatch: the same but for the moment a struct is converted.
Inserting == [dba EXCEPT !.optype = "insert"]
Insert(d) == Built(Inserting, BuildExecut(Inserting, Struct2Map(d)))
InsertBatch(d) == Built(Inserting, BuildExecut(Inserting, d))

\* The clause is added to whatever Insert returned, an error included.
InsertDuplicate(d, dupKeyFields, inc) ==
    /\ d.form = "map"
    /\ LET insert == BuildExecut(Inserting, d)
           stmt == IF insert = << >> THEN [op |-> ""] ELSE insert[1]
           set == {<<c, c \in inc>> : c \in d.cols \ dupKeyFields}
       IN  Built(Inserting, <<With(stmt, [duplicate |-> set])>>)

\* Without an argument the increments of the last call stay.
WithInc(inc) == [dba EXCEPT !.inc_fields = IF inc = {} THEN @ ELSE inc]

Update(d, inc) ==
    LET b == [WithInc(inc) EXCEPT !.optype = "update"]
    IN  Built(b, BuildExecut(b, Struct2Map(d)))

\* The rows are chosen by their keys alone, and optype is not set.
UpdateBatch(d, keys, inc) ==
    /\ d.form = "rows"
    /\ Built(WithInc(inc),
             <<[op |-> "updatebatch", table |-> dba.table, ids |-> d.n,
                set |-> {<<c, c \in WithInc(inc).inc_fields>> : c \in d.cols \ keys}]>>)

Delete ==
    LET stmt == [op |-> "delete", table |-> dba.table, where |-> ParseWhere(dba.where)]
    IN  Built([dba EXCEPT !.optype = "delete"], IF WhereFails(dba.where) THEN << >> ELSE <<stmt>>)

\* An aggregate that is set stays set.
BuildUnion(u) == [dba EXCEPT !.union = @ \cup {u}]

\* Count, Sum, Avg, Max and Min.
Union(u) == BuiltBy([f |-> "union", v |-> u], BuildUnion(u), BuildQuery(BuildUnion(u)))

\* SqlSelectCount: a page and, from a copy made before, the number of rows.
\* SqlSelectCount2 and SqlSelectCount20 are told the fields.
SqlSelectCount(offset, count) ==
    LET page == [dba EXCEPT !.offset = offset, !.limit = count, !.fields = "*"]
        copy == [dba EXCEPT !.fields = "total"]
    IN  /\ Len(calls) < MaxCalls
        /\ calls' = calls \o <<[f |-> "offset", v |-> offset], [f |-> "limit", v |-> count],
                               [f |-> "fields", v |-> "*"]>>
        /\ dba' = page
        /\ sql' = BuildQuery(page) \o BuildQuery(copy)

SqlerNext ==
    \/ \E f \in Texts, v \in Values : SetText(f, v)
    \/ \E n \in Sizes : Limit(n) \/ Offset(n) \/ Page(n)
    \/ \E c \in Conditions : Where(c)
    \/ \E j \in Joins : Join(j)
    \/ Distinct \/ Ignore \/ Reset \/ Delete
    \/ Select \/ SelectFields("a")
    \/ \E d \in Datas : Insert(d) \/ InsertBatch(d)
    \/ \E d \in Datas, inc \in {{}} \cup {{c} : c \in Columns} :
         \/ Update(d, inc)
         \/ \E key \in Columns : InsertDuplicate(d, {key}, inc) \/ UpdateBatch(d, {key}, inc)
    \/ \E u \in ToSet(Unions) : Union(u)
    \/ \E o \in Sizes, n \in Sizes : SqlSelectCount(o, n)

SqlerSpec == NewSqler /\ [][SqlerNext]_sqler

-----------------------------------------------------------------------------
(* Properties.                                                              *)

\* What was put in for a clause since the last Reset.
Given(f) == Selected(calls, {i \in 1..Len(calls) : calls[i].f = f})
GivenLast(f, none) == IF Given(f) = << >> THEN none ELSE Last(Given(f)).v

\* The aggregates asked for since then.
Aggregates ==
    {u \in ToSet(Unions) : \E i \in 1..Len(calls) : calls[i].f = "union" /\ calls[i].v = u}

\* Whatever was built with it before, a statement has the table that was put
\* into the builder last since Reset, and a select, insert, update or delete all
\* the conditions put in since then, in that order and no others, but for those
\* of no argument or more than three, which are passed over.  UpdateBatch is not
\* spoken of here: it passes over every condition and chooses its rows by their
\* keys; nor is the bare clause of InsertDuplicate behind conditions that
\* failed.  A query has the joins and the last of every other clause put in since
\* Reset, and the first of the aggregates asked for since, which so comes
\* back in every later query.  Of Ignore and the increments, which outlive
\* Reset, nothing is said.
SaysWhatWasAsked ==
    \A i \in 1..Len(sql) :
      /\ sql[i].op # "" => sql[i].table = GivenLast("table", "")
      /\ sql[i].op \in {"select", "insert", "update", "delete"} =>
           LET given == Given("where")
               asked == Selected(given, {k \in 1..Len(given) : Usable(given[k].v)})
           IN  /\ Len(sql[i].where) = Len(asked)
               /\ \A k \in 1..Len(asked) : sql[i].where[k].n = asked[k].v.n
               /\ \A k \in 2..Len(asked) : sql[i].where[k] = asked[k].v
      /\ sql[i].op = "select" =>
           /\ sql[i].join = [k \in 1..Len(Given("join")) |-> Given("join")[k].v]
           /\ \A f \in {"group", "having", "order"} : sql[i][f] = GivenLast(f, "")
           /\ sql[i].distinct = GivenLast("distinct", FALSE)
           /\ Aggregates # {} => sql[i].what = FirstUnion(Aggregates)
           /\ i = Len(sql) - 1 \/ Len(sql) = 1 =>
                /\ sql[i].limit = GivenLast("limit", 0) /\ sql[i].offset = GivenLast("offset", 0)
                /\ Aggregates = {} => sql[i].what = GivenLast("fields", "*")
=============================================================================
