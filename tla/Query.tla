------------------------------- MODULE Query --------------------------------
(***************************************************************************)
(* A SELECT: the semantic check and the plan of src/src/realizer/          *)
(* query_realizer.cpp and the executors of src/src/executor that run it.   *)
(* Every executor is an iterator with Open and GetNext; scans of the same  *)
(* relation share the IteratorHandler of that relation and so its cursor.  *)
(* The values of each type are represented by integers, in their order.    *)
(*                                                                         *)
(* An expression is a record with a field e: "col" (a name), "const",      *)
(* "slot" (a name after the check), "cmp", "logic" or "not"; constants and *)
(* slots have a type, as SlotReference and ConstValue do.  A member of     *)
(* the FROM list is a record with a field f: "table" or "join".            *)
(***************************************************************************)
EXTENDS Integers, Sequences, FiniteSets, SequencesExt, FiniteSetsExt

CONSTANTS
  Columns,   \* the columns of each relation: [relation -> Seq(name)]
  Types,     \* their types: [relation -> Seq({"integer", "float", "varchar"})]
  Contents,  \* the contents the relations may have: a set of [relation -> Seq(tuple)]
  Queries    \* the SELECTs: a set of [from, where, group, target, order]

VARIABLES
  query,  \* the statement
  table,  \* what the relations hold, in the order of their keys
  pc,     \* "check", "build", "open", "fetch", "done", "error" or "crash"
  bound,  \* the statement with its names resolved
  exec,   \* state of the executors: cursors, and the fields of each join
  out     \* rows sent

vars == <<query, table, pc, bound, exec, out>>

Null == << >>
Init ==
  /\ query \in Queries
  /\ table \in Contents
  /\ pc = "check"
  /\ bound = query
  /\ exec = [cursor |-> [r \in DOMAIN Columns |-> 1], join |-> << >>]
  /\ out = << >>
-----------------------------------------------------------------------------
\* The semantic check.  names: the names of FROM so far, with their relations; the
\* place in it is the index of the tuple in a row (name2tuple_index_, name2relation_).

NameOf(f) == IF f.alias # "" THEN f.alias ELSE f.name

\* insert into a map: a name that is already there keeps its place and relation.
AddName(names, f) ==
  IF \E i \in DOMAIN names : names[i].name = NameOf(f) THEN names
  ELSE Append(names, [name |-> NameOf(f), rel |-> f.name])

\* Relation::GetAttributeIndex: the place of the first column of that name, 0 for none.
GetAttributeIndex(rel, c) ==
  LET at == {k \in DOMAIN Columns[rel] : Columns[rel][k] = c}
  IN  IF at = {} THEN 0 ELSE CHOOSE k \in at : \A j \in at : k <= j

\* Variant: an unqualified name is taken from the first relation that has it.
Owners_First(ref, names) ==
  LET all == {i \in DOMAIN names : GetAttributeIndex(names[i].rel, ref.c) # 0
                                   /\ (ref.t = "" \/ ref.t = names[i].name)}
  IN  {i \in all : \A j \in all : i <= j}

\* The tables of FROM that a column reference can mean.
Owners(ref, names) ==
  {i \in DOMAIN names : GetAttributeIndex(names[i].rel, ref.c) # 0
                        /\ (ref.t = "" \/ ref.t = names[i].name)}

Failed(what) == [st |-> what, x |-> Null]
Bound(x)     == [st |-> "ok", x |-> x]

\* CheckExpressionBase: a name that is unknown or ambiguous is an error; NOT has no
\* right operand to check, which is a null pointer.
RECURSIVE Check(_, _)
Check(x, names) ==
  CASE x.e = "col" ->
         LET own == Owners(x, names)
         IN  IF Cardinality(own) # 1 THEN Failed("error")
             ELSE LET i == CHOOSE i \in own : TRUE
                  IN  Bound([e |-> "slot", tuple |-> i,
                             slot |-> GetAttributeIndex(names[i].rel, x.c),
                             type |-> Types[names[i].rel][GetAttributeIndex(names[i].rel, x.c)]])
    [] x.e = "const" -> Bound(x)
    [] x.e = "not" -> IF Check(x.l, names).st = "ok" THEN Failed("crash") ELSE Check(x.l, names)
    [] OTHER ->
         LET l == Check(x.l, names)
             r == Check(x.r, names)
         IN  CASE l.st # "ok" -> l
               [] l.st = "ok" /\ r.st # "ok" -> r
               [] OTHER -> Bound([x EXCEPT !.l = l.x, !.r = r.x])

\* LevelStore::GetRelation finds it.
HasRelation(name) == name \in DOMAIN Columns

\* CheckTableFactor: a relation must exist; the predicate of a join is checked with
\* the names up to that join.
RECURSIVE CheckTableFactor(_, _)
CheckTableFactor(f, names) ==
  IF f.f = "table"
  THEN IF HasRelation(f.name)
       THEN [st |-> "ok", x |-> f, names |-> AddName(names, f)]
       ELSE [st |-> "error", x |-> Null, names |-> names]
  ELSE LET l == CheckTableFactor(f.l, names)
           r == CheckTableFactor(f.r, l.names)
           o == Check(f.on, r.names)
       IN  CASE l.st # "ok" -> l
             [] l.st = "ok" /\ r.st # "ok" -> r
             [] OTHER -> [st |-> o.st, x |-> [f EXCEPT !.l = l.x, !.r = r.x, !.on = o.x],
                          names |-> r.names]

\* CheckFrom: the members of the FROM list from left to right.
RECURSIVE CheckFrom(_, _)
CheckFrom(from, names) ==
  IF from = << >> THEN [st |-> "ok", x |-> << >>, names |-> names]
  ELSE LET h == CheckTableFactor(Head(from), names)
           t == CheckFrom(Tail(from), h.names)
       IN  IF h.st # "ok" THEN h ELSE [t EXCEPT !.x = IF t.st = "ok" THEN <<h.x>> \o @ ELSE @]

\* CheckWhere, CheckGroupBy, CheckSelect and CheckOrderBy: the first failure counts.
\* An operation is asserted to be in WHERE or ON only.
CheckList(xs, names, ops) ==
  LET cs  == [i \in DOMAIN xs |-> IF ~ops /\ xs[i].e \notin {"col", "const"} THEN Failed("crash")
                                  ELSE Check(xs[i], names)]
      bad == {i \in DOMAIN xs : cs[i].st # "ok"}
  IN  IF bad = {} THEN Bound([i \in DOMAIN xs |-> cs[i].x])
      ELSE cs[CHOOSE i \in bad : \A j \in bad : i <= j]

\* Check: the clauses in this order.  What ORDER BY and GROUP BY name is not used again.
CheckSelect ==
  /\ pc = "check"
  /\ LET from   == CheckFrom(query.from, << >>)
         where  == CheckList(query.where, from.names, TRUE)
         group  == CheckList(query.group, from.names, FALSE)
         target == CheckList(query.target, from.names, FALSE)
         order  == CheckList(query.order, from.names, FALSE)
         bad    == SelectSeq(<<from.st, where.st, group.st, target.st, order.st>>, LAMBDA s : s # "ok")
     IN  IF bad # << >>
         THEN pc' = Head(bad) /\ UNCHANGED bound
         ELSE /\ pc' = "build"
              /\ bound' = [from |-> from.x, where |-> where.x, target |-> target.x, names |-> from.names]
  /\ UNCHANGED <<query, table, exec, out>>
-----------------------------------------------------------------------------
\* The plan.  BuildTableScan numbers the scans as they are built (all_tuple_desc_).
RECURSIVE Scans(_)
Scans(f) == IF f.f = "table" THEN 1 ELSE Scans(f.l) + Scans(f.r)

RECURSIVE BuildJoin(_, _)
BuildJoin(f, n) ==
  IF f.f = "table" THEN [f |-> "table", rel |-> f.name, tuple |-> n + 1]
  ELSE [f |-> "join", l |-> BuildJoin(f.l, n), r |-> BuildJoin(f.r, n + Scans(f.l)), on |-> f.on]

\* Only the first member of the FROM list is built.
Plan == BuildJoin(bound.from[1], 0)

\* The joins of a plan, each by the way to it from the top.
RECURSIVE Joins(_, _)
Joins(f, path) ==
  IF f.f = "table" THEN {}
  ELSE {path} \cup Joins(f.l, Append(path, "l")) \cup Joins(f.r, Append(path, "r"))

\* The relations whose descriptions all_tuple_desc_ holds, by the names of the scans.
RECURSIVE Descs(_)
Descs(f) ==
  IF f.f = "table" THEN <<bound.names[CHOOSE i \in DOMAIN bound.names : bound.names[i].name = NameOf(f)].rel>>
  ELSE Descs(f.l) \o Descs(f.r)

\* Relation::ToDesc: the places of the columns in a tuple.
ToDesc(rel) == DOMAIN Columns[rel]

\* The assertion on the operands of a comparison; there are no casts.
SameType(l, r) == l.type = r.type

\* BuildBooleanExpression: comparisons of columns and constants of one type, and their
\* combinations; for anything else an assertion fails or a null operand is used.  Columns
\* are integer, float or varchar and constants integer or varchar, so that the results
\* that are null for the other types do not occur.
RECURSIVE IsBoolean(_)
IsBoolean(x) ==
  \/ x.e = "cmp" /\ {x.l.e, x.r.e} \subseteq {"slot", "const"} /\ SameType(x.l, x.r)
  \/ x.e = "logic" /\ IsBoolean(x.l) /\ IsBoolean(x.r)

RECURSIVE OnClauses(_)
OnClauses(f) == IF f.f = "table" THEN {} ELSE {f.on} \cup OnClauses(f.l) \cup OnClauses(f.r)

\* Variant: a row has one tuple less than there are names.
TupleCount_Short(names) == Len(names) - 1

TupleCount(names) == Len(names)

NoRow == [i \in 1..TupleCount(bound.names) |-> Null]

\* The slots of the select list, a SELECT * being the columns of every name; constants
\* are left out.  The order of the columns is not modelled.
Targets ==
  IF query.target = << >>
  THEN UNION {{<<i, k>> : k \in ToDesc(bound.names[i].rel)} : i \in DOMAIN bound.names}
  ELSE {<<s.tuple, s.slot>> : s \in {s \in ToSet(bound.target) : s.e = "slot"}}

\* Build: the plan of the first member of FROM and of the first WHERE expression.  What
\* is not a boolean expression, and a slot that no scan describes, is a failed
\* assertion, a null pointer or an index out of range.
Build ==
  /\ pc = "build"
  /\ LET desc == Descs(bound.from[1])
         preds == OnClauses(bound.from[1])
                    \cup (IF bound.where = << >> THEN {} ELSE {bound.where[1]})
         built == /\ \A x \in preds : IsBoolean(x)
                  /\ \A s \in Targets : s[1] \in DOMAIN desc /\ s[2] \in ToDesc(desc[s[1]])
     IN  pc' = IF built THEN "open" ELSE "crash"
  /\ exec' = [exec EXCEPT !.join = [j \in Joins(Plan, << >>) |-> [l |-> "ok", r |-> "ok", row |-> NoRow]]]
  /\ UNCHANGED <<query, table, bound, out>>
-----------------------------------------------------------------------------
\* The executors.  A call returns [st, row, x]: the State, the row it was given and
\* the state of the executors afterwards.
Result(st, row, x) == [st |-> st, row |-> row, x |-> x]

\* The Compare classes of each type and LogicExpr::GetValue, where `and` and `or` need not look at
\* their right side.  A slot of a tuple that is not there is a null pointer.
Value(x, row) == IF x.e = "const" THEN x.v ELSE row[x.tuple][x.slot]
Compare(op, a, b) ==
  CASE op = "="  -> a = b
    [] op = "<"  -> a < b
    [] op = ">"  -> a > b
    [] op = "<=" -> a <= b
    [] op = ">=" -> a >= b
Holds(st) == IF st THEN "true" ELSE "false"
Missing(x, row) == x.e = "slot" /\ row[x.tuple] = Null

RECURSIVE GetValue(_, _)
GetValue(x, row) ==
  IF x.e = "cmp"
  THEN IF Missing(x.l, row) \/ Missing(x.r, row) THEN "crash"
       ELSE Holds(Compare(x.op, Value(x.l, row), Value(x.r, row)))
  ELSE LET l == GetValue(x.l, row)
           r == GetValue(x.r, row)
       IN  CASE l = "crash" -> l
             [] l = "false" /\ x.op = "and" -> l
             [] l = "true" /\ x.op = "or" -> l
             [] l # "crash" /\ x.op = "xor" -> IF r = "crash" THEN r ELSE Holds(l # r)
             [] OTHER -> r

\* Variant: Open of a scan goes on from where the cursor stands.
SeekToFirst_Not(x, rel) == x

SeekToFirst(x, rel) == [x EXCEPT !.cursor[rel] = 1]

\* Variant: the scan steps on behind the last row too.
ScanNext_Past(n, row, x) ==
  IF x.cursor[n.rel] > Len(table[n.rel])
  THEN Result("EOF", row, [x EXCEPT !.cursor[n.rel] = @ + 1])
  ELSE Result("ok", [row EXCEPT ![n.tuple] = table[n.rel][x.cursor[n.rel]]],
              [x EXCEPT !.cursor[n.rel] = @ + 1])

\* SeqScan::GetNext sets the tuple of its index; the row may be too short for it.
ScanNext(n, row, x) ==
  CASE x.cursor[n.rel] > Len(table[n.rel]) -> Result("EOF", row, x)
    [] x.cursor[n.rel] <= Len(table[n.rel]) /\ n.tuple \notin DOMAIN row -> Result("crash", row, x)
    [] OTHER -> Result("ok", [row EXCEPT ![n.tuple] = table[n.rel][x.cursor[n.rel]]],
                       [x EXCEPT !.cursor[n.rel] = @ + 1])

\* NestedLoopJoin::Open fetches the first row of the left side; GetNext goes through
\* the right side and at its end opens it again for the next row of the left one.
RECURSIVE Open(_, _, _), GetNext(_, _, _, _)
Open(n, path, x) ==
  IF n.f = "table" THEN Result("ok", Null, SeekToFirst(x, n.rel))
  ELSE LET l == Open(n.l, Append(path, "l"), x)
           r == Open(n.r, Append(path, "r"), l.x)
           g == GetNext(n.l, Append(path, "l"), r.x.join[path].row, r.x)
       IN  CASE l.st # "ok" -> l
             [] l.st = "ok" /\ r.st # "ok" -> r
             [] OTHER -> Result(IF g.st = "EOF" THEN "ok" ELSE g.st, Null,
                                [g.x EXCEPT !.join[path] = [l |-> g.st, r |-> "ok", row |-> g.row]])
GetNext(n, path, row, x) ==
  IF n.f = "table" THEN ScanNext(n, row, x)
  ELSE IF x.join[path].l = "EOF" /\ x.join[path].r = "EOF" THEN Result("EOF", row, x)
  ELSE LET r  == GetNext(n.r, Append(path, "r"), x.join[path].row, x)
           x1 == [r.x EXCEPT !.join[path].row = r.row, !.join[path].r = r.st]
       IN  CASE r.st = "ok" ->
                  LET v == GetValue(n.on, r.row)
                  IN  CASE v = "true" -> Result("ok", r.row, x1)
                        [] v = "false" -> GetNext(n, path, row, x1)
                        [] OTHER -> Result("crash", row, x1)
             [] r.st = "EOF" ->
                  LET l  == GetNext(n.l, Append(path, "l"), r.row, x1)
                      x2 == [l.x EXCEPT !.join[path].row = l.row, !.join[path].l = l.st]
                      o  == Open(n.r, Append(path, "r"), x2)
                      x3 == [o.x EXCEPT !.join[path].r = o.st]
                  IN  CASE l.st # "ok" -> Result(l.st, row, x2)
                        [] l.st = "ok" /\ o.st # "ok" -> Result(o.st, row, x3)
                        [] OTHER -> GetNext(n, path, row, x3)
             [] OTHER -> Result(r.st, row, x1)

\* Select holds the first WHERE expression, if there is one.
Passes(row) == IF bound.where = << >> THEN "true" ELSE GetValue(bound.where[1], row)

\* Select::GetNext asks until a row passes or there are no more.
RECURSIVE SelectNext(_)
SelectNext(x) ==
  LET g == GetNext(Plan, << >>, NoRow, x)
  IN  IF g.st # "ok" THEN g
      ELSE CASE Passes(g.row) = "true" -> g
             [] Passes(g.row) = "false" -> SelectNext(g.x)
             [] OTHER -> Result("crash", g.row, g.x)

\* ExecSelect: Open ...
OpenPlan ==
  /\ pc = "open"
  /\ LET o == Open(Plan, << >>, exec)
     IN  /\ exec' = o.x
         /\ pc' = IF o.st = "ok" THEN "fetch" ELSE o.st
  /\ UNCHANGED <<query, table, bound, out>>

\* Project::GetNext.
Project(row) == [s \in Targets |-> row[s[1]][s[2]]]

\* ... and then one row after the other, projected and sent.
Fetch ==
  /\ pc = "fetch"
  /\ LET g == SelectNext(exec)
     IN  /\ exec' = g.x
         /\ CASE g.st = "EOF" -> pc' = "done" /\ UNCHANGED out
              [] g.st = "ok" /\ \A s \in Targets : g.row[s[1]] # Null ->
                   /\ out' = Append(out, Project(g.row))
                   /\ UNCHANGED pc
              [] OTHER -> pc' = "crash" /\ UNCHANGED out
  /\ UNCHANGED <<query, table, bound>>

Next == CheckSelect \/ Build \/ OpenPlan \/ Fetch

Spec == Init /\ [][Next]_vars
-----------------------------------------------------------------------------
\* The meaning of the statement, from its text alone: the rows of the product of the
\* tables that satisfy every ON and WHERE.

RECURSIVE Leaves(_)
Leaves(f) == IF f.f = "table" THEN <<f>> ELSE Leaves(f.l) \o Leaves(f.r)
Sources == FlattenSeq([i \in DOMAIN query.from |-> Leaves(query.from[i])])

\* What a column reference can mean in a clause that sees the first n tables of FROM:
\* ON sees the tables of its join, the other clauses see them all.
Meanings(ref, n) ==
  {m \in UNION {{<<i, k>> : k \in DOMAIN Columns[Sources[i].name]} : i \in 1..n} :
     /\ Columns[Sources[m[1]].name][m[2]] = ref.c
     /\ ref.t \in {"", NameOf(Sources[m[1]])}}
Meaning(ref, n) == CHOOSE m \in Meanings(ref, n) : TRUE

\* An expression x that sees the first n tables.
Sees(x, n) == [x |-> x, n |-> n]
RECURSIVE Ons(_)
Ons(f) == IF f.f = "table" THEN {} ELSE {Sees(f.on, Len(Leaves(f)))} \cup Ons(f.l)
JoinConditions == Ons(query.from[1])
Everywhere(xs) == {Sees(x, Len(Sources)) : x \in ToSet(xs)}
Conditions == JoinConditions \cup Everywhere(query.where)
Clauses == Conditions \cup Everywhere(query.target \o query.group \o query.order)

RECURSIVE Parts(_)
Parts(x) == {x} \cup IF x.e \in {"col", "const"} THEN {}
                      ELSE Parts(x.l) \cup IF x.e = "not" THEN {} ELSE Parts(x.r)
PartsOf(clauses) == UNION {{Sees(x, c.n) : x \in Parts(c.x)} : c \in clauses}

\* A row of the product picks a row of each source.
Denotes(x, n, row) ==
  IF x.e = "const" THEN x.v
  ELSE LET m == Meaning(x, n) IN table[Sources[m[1]].name][row[m[1]]][m[2]]
RECURSIVE Satisfies(_, _, _)
Satisfies(row, x, n) ==
  CASE x.e = "cmp" -> Compare(x.op, Denotes(x.l, n, row), Denotes(x.r, n, row))
    [] x.op = "and" -> Satisfies(row, x.l, n) /\ Satisfies(row, x.r, n)
    [] x.op = "or" -> Satisfies(row, x.l, n) \/ Satisfies(row, x.r, n)
    [] x.op = "xor" -> Satisfies(row, x.l, n) # Satisfies(row, x.r, n)

\* The rows of the first n sources that satisfy the conditions.
Product(n) ==
  {row \in [1..n -> 1..Max({Len(table[r]) : r \in DOMAIN table})] :
     \A i \in 1..n : row[i] <= Len(table[Sources[i].name])}
Answer(n, conditions) == {row \in Product(n) : \A c \in conditions : Satisfies(row, c.x, c.n)}

Shown == IF query.target = << >>
         THEN UNION {{<<i, k>> : k \in DOMAIN Columns[Sources[i].name]} : i \in DOMAIN Sources}
         ELSE {Meaning(x, Len(Sources)) : x \in {x \in ToSet(query.target) : x.e = "col"}}
Show(row) == [m \in Shown |-> table[Sources[m[1]].name][row[m[1]]][m[2]]]

\* A statement of the plain form: one member of FROM, joins nested to the left, no name
\* twice, conditions made of comparisons without NOT, lists of columns and constants.
RECURSIVE LeftDeep(_)
LeftDeep(f) == f.f = "table" \/ (f.r.f = "table" /\ LeftDeep(f.l))
RECURSIVE Condition(_)
Condition(x) == \/ x.e = "cmp" /\ {x.l.e, x.r.e} \subseteq {"col", "const"}
                \/ x.e = "logic" /\ Condition(x.l) /\ Condition(x.r)
Plain ==
  /\ Len(query.from) = 1 /\ LeftDeep(query.from[1])
  /\ \A i, j \in DOMAIN Sources : i # j => NameOf(Sources[i]) # NameOf(Sources[j])
  /\ \A c \in Conditions : Condition(c.x)
  /\ \A x \in ToSet(query.target \o query.group \o query.order) : x.e \in {"col", "const"}

\* Its tables exist and each of its names means one column.
KnownTables == \A i \in DOMAIN Sources : Sources[i].name \in DOMAIN Columns
Clear ==
  /\ KnownTables
  /\ \A p \in PartsOf(Clauses) : p.x.e = "col" => Cardinality(Meanings(p.x, p.n)) = 1

\* The types of the two sides of a comparison are the same.
TypeOf(x, n) ==
  IF x.e = "const" THEN x.type ELSE LET m == Meaning(x, n) IN Types[Sources[m[1]].name][m[2]]
WellTyped ==
  \A p \in PartsOf(Conditions) : p.x.e = "cmp" => TypeOf(p.x.l, p.n) = TypeOf(p.x.r, p.n)

\* The statements the realizer is made for: also every relation once.
Supported ==
  /\ Plain /\ Clear /\ WellTyped
  /\ \A i, j \in DOMAIN Sources : i # j => Sources[i].name # Sources[j].name

\* Every join has a row on its left, or nothing on its right.
LeftHasRows ==
  \A n \in 1..(Len(Sources) - 1) :
    \/ Answer(n, {c \in JoinConditions : c.n <= n}) # {}
    \/ table[Sources[n + 1].name] = << >>

\* The program counter is one of the stages, the cursors stand on a row or behind the
\* last one, and every row sent has exactly the columns of the select list.
TypeOK ==
  /\ query \in Queries /\ table \in Contents
  /\ pc \in {"check", "build", "open", "fetch", "done", "error", "crash"}
  /\ \A r \in DOMAIN Columns : exec.cursor[r] \in 1..(Len(table[r]) + 1)
  /\ \A i \in DOMAIN out : DOMAIN out[i] = Targets

\* The check (query_realizer.cpp CheckTableFactor, CheckExpressionBase) refuses a plain
\* statement exactly when it names a table that is not there, or a column that has no
\* meaning or more than one among the tables that its clause sees: those of the join for
\* ON, all of FROM for the other clauses.
RefusesUnclear ==
  pc # "check" /\ Plain => (pc = "error" <=> ~Clear)

\* A supported SELECT sends rows of its relational answer only, none more often than the
\* answer has it, and has sent them all when GetNext returns kStateEOF.  A join with an
\* empty left side is left out: its predicate meets a tuple that was never set.
SendsTheAnswer ==
  (pc \in {"fetch", "done"} /\ Supported /\ LeftHasRows) =>
    LET answer == Answer(Len(Sources), Conditions)
        times(v) == Cardinality({row \in answer : Show(row) = v})
    IN  /\ \A i \in DOMAIN out : Cardinality({j \in DOMAIN out : out[j] = out[i]}) <= times(out[i])
        /\ pc = "done" => Len(out) = Cardinality(answer)

\* The plan and the executors reach a failed assertion, a null tuple or an index out of
\* range only for a statement outside the supported ones, a comparison of different types
\* being one of them, or for a join whose left side is empty.
CrashesOnlyUnsupported ==
  (pc = "crash" /\ Supported) => ~LeftHasRows

\* README.md lists the nested loop join as done: a supported join is answered.
JoinIsAnswered == Supported => pc # "crash"
=============================================================================
