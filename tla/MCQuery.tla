------------------------------ MODULE MCQuery -------------------------------
(***************************************************************************)
(* Query over three relations of at most two rows and two values.  The     *)
(* statements cross the shapes of FROM with conditions and select lists,   *)
(* so that each is met with empty, matching and unmatched tables.          *)
(***************************************************************************)
EXTENDS Query

MCColumns == [a |-> <<"x", "y">>, b |-> <<"x">>, c |-> <<"z", "f">>]
MCTypes == [a |-> <<"integer", "varchar">>, b |-> <<"integer">>, c |-> <<"integer", "float">>]

MCContents == [a : {<< >>, <<<<0, 1>>>>, <<<<0, 1>>, <<1, 1>>>>},
               b : {<< >>, <<<<0>>>>, <<<<0>>, <<1>>>>, <<<<1>>, <<0>>>>, <<<<1>>, <<1>>>>},
               c : {<< >>, <<<<1, 0>>>>, <<<<0, 1>>, <<1, 1>>>>}]

Col(t, c) == [e |-> "col", t |-> t, c |-> c]
Const(v) == [e |-> "const", v |-> v, type |-> "integer"]
Text(v) == [e |-> "const", v |-> v, type |-> "varchar"]
Cmp(op, l, r) == [e |-> "cmp", op |-> op, l |-> l, r |-> r]
Logic(op, l, r) == [e |-> "logic", op |-> op, l |-> l, r |-> r]
Not(x) == [e |-> "not", l |-> x]

Table(n) == [f |-> "table", name |-> n, alias |-> ""]
As(n, alias) == [f |-> "table", name |-> n, alias |-> alias]
Join(l, r, on) == [f |-> "join", l |-> l, r |-> r, on |-> on]

OnAB == Cmp("=", Col("a", "x"), Col("b", "x"))
OnBC == Cmp("<=", Col("b", "x"), Col("", "z"))
AB == Join(Table("a"), Table("b"), OnAB)

Froms == {<<Table("a")>>, <<Table("d")>>, <<AB>>,
          <<Join(Table("a"), Table("b"), Cmp("=", Col("b", "x"), Const(1)))>>,
          <<Join(Table("a"), Table("b"), Cmp("=", Col("", "x"), Const(1)))>>,
          <<Join(As("b", "a"), As("a", "b"), Cmp(">", Col("a", "x"), Col("b", "x")))>>,
          <<Join(AB, Table("c"), OnBC)>>,
          \* a name that only a later table makes ambiguous, and one of a later table
          <<Join(Join(Table("a"), Table("c"), Cmp("=", Col("", "x"), Col("", "z"))), Table("b"), OnAB)>>,
          <<Join(Join(Table("a"), Table("c"), Cmp("=", Col("b", "x"), Col("", "z"))), Table("b"), OnAB)>>,
          \* different types
          <<Join(Table("a"), Table("c"), Cmp("=", Col("a", "y"), Col("c", "f")))>>,
          <<Join(Table("a"), Join(Table("b"), Table("c"), OnBC), OnAB)>>,
          <<Join(As("a", "p"), As("a", "q"), Cmp("<", Col("p", "x"), Col("q", "x")))>>,
          <<Join(Table("a"), Table("a"), Cmp(">=", Col("a", "x"), Const(0)))>>,
          <<Table("a"), Table("b")>>,
          <<Join(Table("a"), Table("b"), Col("a", "x"))>>}

Wheres == {<< >>, <<Cmp("=", Col("", "y"), Text(1))>>, <<Cmp("=", Col("", "y"), Const(1))>>,
           <<Cmp(">=", Col("", "f"), Col("c", "f"))>>,
           <<Logic("and", Cmp("<", Col("a", "x"), Const(1)), Cmp(">=", Text(1), Col("a", "y")))>>,
           <<Logic("or", Cmp("=", Col("b", "x"), Const(0)), Cmp("=", Col("a", "x"), Const(1)))>>,
           <<Logic("xor", Cmp("=", Col("b", "x"), Const(0)), Cmp("=", Col("a", "x"), Const(1)))>>,
           <<Not(Cmp("=", Col("a", "x"), Const(1)))>>}

TargetLists == {<< >>, <<Col("a", "x"), Const(1)>>, <<Col("b", "x"), Col("", "y")>>, <<Col("", "z")>>,
                <<Cmp("=", Col("a", "x"), Const(1))>>}

Lists == {[group |-> << >>, order |-> << >>], [group |-> <<Col("", "y")>>, order |-> <<Col("", "x")>>]}

MCQueries == {[from |-> f, where |-> w, target |-> t, group |-> l.group, order |-> l.order] :
                f \in Froms, w \in Wheres, t \in TargetLists, l \in Lists}
=============================================================================
