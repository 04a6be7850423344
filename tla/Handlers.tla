------------------------------ MODULE Handlers ------------------------------
(***************************************************************************)
(* The IO handlers of LevelStore (src/src/storage/level_store.cpp) and the *)
(* statements that use them.  A relation has at most one IteratorHandler   *)
(* and one WriteHandler, found in two maps that a mutex each protects,     *)
(* shared by all session threads and counted by a plain int (io_handler.h) *)
(* that DeleteIOObject decrements and tests outside the mutex.  A handler  *)
(* holds the leveldb database of its relation open; leveldb lets a process *)
(* open a database once (its LOCK file).                                   *)
(*                                                                         *)
(* A statement is a SELECT or COPY TO (one iterator for each table it      *)
(* scans) or a COPY FROM (one write handler).  `reference_++` and          *)
(* `reference_--` are a load and a store, as in the default debug build.   *)
(***************************************************************************)
EXTENDS Integers, Sequences, FiniteSets, SequencesExt

CONSTANTS
  Sessions,     \* session threads
  Relations,    \* relations the statements use
  NoOne,        \* no thread holds the mutex; no handler in the map
  Objects,      \* handler objects on the heap (1..n)
  InitRows,     \* rows of every relation at the beginning
  LoadRows,     \* rows of a COPY FROM
  MaxStatements \* bound: statements started

ASSUME HandlersAssumption ==
  /\ NoOne \notin Sessions \cup Objects
  /\ InitRows \in Nat /\ LoadRows \in Nat \ {0} /\ MaxStatements \in Nat
  /\ Objects \subseteq Nat

VARIABLES
  server,       \* "up", or how the process ended: an assertion or undefined behaviour
  handler_map,  \* [kind -> [relation -> handler or NoOne]]: the two maps
  mutex,        \* [kind -> holder]: iterator_map_mutex_, write_map_mutex_
  obj,          \* the handler objects
  stmt,         \* what each session executes
  table,        \* disk: rows of each relation
  loaded,       \* history: rows of the COPY FROMs that reported success
  contended,    \* history: relations that two sessions used at the same time
  leftover,     \* history: relations used after a vanished client had left its handlers
  started       \* statements started so far

vars == <<server, handler_map, mutex, obj, stmt, table, loaded, contended, leftover, started>>

Kinds == {"iterator", "write"}
NoObject == [live |-> FALSE, kind |-> "iterator", rel |-> NoOne,
             ref |-> 0, batch |-> {}, cursor |-> 0, rows |-> 0]
Idle == [pc |-> "idle", kind |-> "iterator", plan |-> << >>, held |-> << >>,
         tmp |-> 0, row |-> 0, id |-> 0]

Init ==
  /\ server = "up"
  /\ handler_map = [k \in Kinds |-> [r \in Relations |-> NoOne]]
  /\ mutex = [k \in Kinds |-> NoOne]
  /\ obj = [h \in Objects |-> NoObject]
  /\ stmt = [t \in Sessions |-> Idle]
  /\ table = [r \in Relations |-> {<<0, i>> : i \in 1..InitRows}]
  /\ loaded = [r \in Relations |-> {}]
  /\ contended = {}
  /\ leftover = {}
  /\ started = 0

-----------------------------------------------------------------------------
\* The process ends by a failed assertion or runs into undefined behaviour.
Ends(how) ==
  /\ server' = how
  /\ UNCHANGED <<handler_map, mutex, obj, stmt, table, loaded, contended, leftover, started>>

At(t, pc) == server = "up" /\ stmt[t].pc = pc
Rel(t)    == stmt[t].plan[Len(stmt[t].held) + 1]
Current(t) == Head(stmt[t].held)
IsOpen(r) == \E h \in Objects : obj[h].live /\ obj[h].rel = r
Unused    == {h \in Objects : ~obj[h].live /\ \A t \in Sessions : h \notin ToSet(stmt[t].held)}
Rows(t)   == {<<stmt[t].id, k>> : k \in 1..LoadRows}

\* Another session works on the same handler object at the same moment.
Racing(t, h) ==
  \E u \in Sessions \ {t} : stmt[u].pc \in {"open", "fetch", "put"} /\ h \in ToSet(stmt[u].held)

\* The sessions whose thread has ended with its handlers, and the relations of plan that
\* the sessions ts use.
Gone == {u \in Sessions : stmt[u].pc = "gone"}
UsedBy(ts, plan) == {r \in ToSet(plan) : \E u \in ts : r \in ToSet(stmt[u].plan)}

\* The session has its next handler: go on with the next table or run the plan.
Acquired(t, h) ==
  LET s == [stmt[t] EXCEPT !.held = Append(@, h)]
  IN  stmt' = [stmt EXCEPT ![t] =
                 [s EXCEPT !.pc = IF Len(s.held) < Len(s.plan) THEN "acquire"
                                  ELSE IF s.kind = "write" THEN "put" ELSE "open"]]

\* A SELECT of one or two tables, or a COPY TO: ExecSelect / ExecExport after Check.
BeginScan(t, plan) ==
  /\ At(t, "idle") /\ started < MaxStatements
  /\ started' = started + 1
  /\ stmt' = [stmt EXCEPT ![t] = [Idle EXCEPT !.pc = "acquire", !.plan = plan, !.id = started']]
  /\ contended' = contended \cup UsedBy(Sessions \ (Gone \cup {t}), plan)
  /\ leftover' = leftover \cup UsedBy(Gone, plan)
  /\ UNCHANGED <<server, handler_map, mutex, obj, table, loaded>>

\* A COPY FROM: Load::Exec.
BeginLoad(t, r) ==
  /\ At(t, "idle") /\ started < MaxStatements
  /\ started' = started + 1
  /\ stmt' = [stmt EXCEPT ![t] = [Idle EXCEPT !.pc = "acquire", !.kind = "write",
                                              !.plan = <<r>>, !.id = started']]
  /\ contended' = contended \cup UsedBy(Sessions \ (Gone \cup {t}), <<r>>)
  /\ leftover' = leftover \cup UsedBy(Gone, <<r>>)
  /\ UNCHANGED <<server, handler_map, mutex, obj, table, loaded>>

\* Variant: a handler that is already in the map is handed out without AddRef.
SharedRef_NoAddRef(n) == n

\* AddRef, the store.
SharedRef(n) == n + 1

\* Variant: the mutex is not released.
Unlock_Never(k) == mutex

\* The lock_guard goes out of scope.
Unlock(k) == [mutex EXCEPT ![k] = NoOne]

\* NewIterator / NewWriteHandler when the map has no handler: the constructor opens
\* the database, and asserts that this succeeded.
NewHandler(t) ==
  /\ At(t, "acquire")
  /\ mutex[stmt[t].kind] = NoOne
  /\ handler_map[stmt[t].kind][Rel(t)] = NoOne
  /\ IF IsOpen(Rel(t)) THEN Ends("open_assert")
     ELSE \E h \in Unused :
            /\ \A g \in Unused : h <= g
            /\ obj' = [obj EXCEPT ![h] = [live |-> TRUE, kind |-> stmt[t].kind, rel |-> Rel(t),
                                          ref |-> 1, batch |-> {}, cursor |-> 0,
                                          rows |-> Cardinality(table[Rel(t)])]]
            /\ handler_map' = [handler_map EXCEPT ![stmt[t].kind][Rel(t)] = h]
            /\ Acquired(t, h)
            /\ UNCHANGED <<server, mutex, table, loaded, contended, leftover, started>>

\* ... and when it has one: AddRef, a load ...
FoundHandler(t) ==
  /\ At(t, "acquire")
  /\ mutex[stmt[t].kind] = NoOne
  /\ handler_map[stmt[t].kind][Rel(t)] # NoOne
  /\ mutex' = [mutex EXCEPT ![stmt[t].kind] = t]
  /\ stmt' = [stmt EXCEPT ![t].pc = "addref",
                          ![t].tmp = obj[handler_map[stmt[t].kind][Rel(t)]].ref]
  /\ UNCHANGED <<server, handler_map, obj, table, loaded, contended, leftover, started>>

\* ... and a store, both under the mutex.
AddRef(t) ==
  /\ At(t, "addref")
  /\ LET h == handler_map[stmt[t].kind][Rel(t)]
     IN  /\ obj' = [obj EXCEPT ![h].ref = SharedRef(stmt[t].tmp)]
         /\ Acquired(t, h)
  /\ mutex' = Unlock(stmt[t].kind)
  /\ UNCHANGED <<server, handler_map, table, loaded, contended, leftover, started>>
-----------------------------------------------------------------------------
\* SeqScan::Open: SeekToFirst moves the cursor all users of the iterator share.
OpenScan(t) ==
  /\ At(t, "open")
  /\ IF \E h \in ToSet(stmt[t].held) : ~obj[h].live \/ Racing(t, h) THEN Ends("undefined")
     ELSE /\ obj' = [h \in Objects |-> IF h \in ToSet(stmt[t].held)
                                       THEN [obj[h] EXCEPT !.cursor = 0] ELSE obj[h]]
          /\ stmt' = [stmt EXCEPT ![t].pc = "fetch"]
          /\ UNCHANGED <<server, handler_map, mutex, table, loaded, contended, leftover, started>>

\* Variants: GetNext does not look at the iterator, or stops one row early.
Valid_Always(h) == TRUE
Valid_OneShort(h) == obj[h].cursor + 1 < obj[h].rows

\* IteratorHandlerImpl::Valid: the cursor is on a row of the snapshot it was made from.
Valid(h) == obj[h].cursor < obj[h].rows

\* SeqScan::GetNext and SendRowData for a scan of one table.
Fetch(t) ==
  /\ At(t, "fetch") /\ Len(stmt[t].held) = 1
  /\ LET h == Current(t)
     IN  IF ~obj[h].live THEN Ends("undefined")
         ELSE \/ /\ Valid(h)
                 /\ obj' = [obj EXCEPT ![h].cursor = @ + 1]
                 /\ stmt' = [stmt EXCEPT ![t].row = @ + 1]
                 /\ UNCHANGED <<server, handler_map, mutex, table, loaded, contended, leftover, started>>
              \/ /\ ~Valid(h)
                 /\ stmt' = [stmt EXCEPT ![t].pc = "reply"]
                 /\ UNCHANGED <<server, handler_map, mutex, obj, table, loaded, contended, leftover, started>>
              \/ Racing(t, h) /\ Ends("undefined")

\* A join drives the cursors of both scans and ends with both at the end.
FetchJoin(t) ==
  /\ At(t, "fetch") /\ Len(stmt[t].held) > 1
  /\ IF \E h \in ToSet(stmt[t].held) : ~obj[h].live \/ Racing(t, h) THEN Ends("undefined")
     ELSE /\ obj' = [h \in Objects |-> IF h \in ToSet(stmt[t].held)
                                       THEN [obj[h] EXCEPT !.cursor = obj[h].rows] ELSE obj[h]]
          /\ stmt' = [stmt EXCEPT ![t].pc = "reply"]
          /\ UNCHANGED <<server, handler_map, mutex, table, loaded, contended, leftover, started>>

\* SendCommandComplete or SendErrorResponse, and ReadyForQuery.
Reply(t) ==
  /\ At(t, "reply")
  /\ stmt' = [stmt EXCEPT ![t].pc = "release"]
  /\ UNCHANGED <<server, handler_map, mutex, obj, table, loaded, contended, leftover, started>>

\* The client goes away and a write throws, that of the row description, of a row or of
\* the reply: the exception leaves ProcessSimpleQuery without DeleteRealizer and ends the
\* thread, and the references are never given back.
Disconnect(t) ==
  /\ At(t, "open") \/ At(t, "fetch") \/ At(t, "reply")
  /\ stmt' = [stmt EXCEPT ![t].pc = "gone"]
  /\ UNCHANGED <<server, handler_map, mutex, obj, table, loaded, contended, leftover, started>>

\* Load::Exec, one line of the file: WriteHandlerImpl::Put adds it to the batch of the
\* handler, which all users of the handler share.
Put(t) ==
  /\ At(t, "put") /\ stmt[t].row < LoadRows
  /\ LET h == Current(t)
     IN  IF ~obj[h].live \/ Racing(t, h) THEN Ends("undefined")
         ELSE /\ obj' = [obj EXCEPT ![h].batch = @ \cup {<<stmt[t].id, stmt[t].row + 1>>}]
              /\ stmt' = [stmt EXCEPT ![t].row = @ + 1]
              /\ UNCHANGED <<server, handler_map, mutex, table, loaded, contended, leftover, started>>

\* Variant: a line that cannot be parsed ends the loop but not the COPY.
ParseError_Commits(t) ==
  /\ At(t, "put") /\ stmt[t].row < LoadRows
  /\ stmt' = [stmt EXCEPT ![t].row = LoadRows]
  /\ UNCHANGED <<server, handler_map, mutex, obj, table, loaded, contended, leftover, started>>

\* A line that cannot be parsed: return kStateLoadError without Commit.
ParseError(t) ==
  /\ At(t, "put") /\ stmt[t].row < LoadRows
  /\ stmt' = [stmt EXCEPT ![t].pc = "reply"]
  /\ UNCHANGED <<server, handler_map, mutex, obj, table, loaded, contended, leftover, started>>

\* WriteHandlerImpl::Commit writes the whole batch, and does not clear it.
Commit(t) ==
  /\ At(t, "put") /\ stmt[t].row = LoadRows
  /\ LET h == Current(t)
     IN  IF ~obj[h].live THEN Ends("undefined")
         ELSE /\ table' = [table EXCEPT ![obj[h].rel] = @ \cup obj[h].batch]
              /\ loaded' = [loaded EXCEPT ![obj[h].rel] = @ \cup Rows(t)]
              /\ stmt' = [stmt EXCEPT ![t].pc = "reply"]
              /\ UNCHANGED <<server, handler_map, mutex, obj, contended, leftover, started>>
-----------------------------------------------------------------------------
\* ~QueryRealizer / ~Load: DeleteIOObject for each handler.  SubRef, the load ...
Release(t) ==
  /\ At(t, "release")
  /\ IF stmt[t].held = << >>
     THEN /\ stmt' = [stmt EXCEPT ![t] = Idle]
          /\ UNCHANGED <<server, handler_map, mutex, obj, table, loaded, contended, leftover, started>>
     ELSE IF ~obj[Current(t)].live THEN Ends("undefined")
     ELSE /\ stmt' = [stmt EXCEPT ![t].pc = "subref", ![t].tmp = obj[Current(t)].ref]
          /\ UNCHANGED <<server, handler_map, mutex, obj, table, loaded, contended, leftover, started>>

\* ... and the store.
SubRef(t) ==
  /\ At(t, "subref")
  /\ IF ~obj[Current(t)].live THEN Ends("undefined")
     ELSE /\ obj' = [obj EXCEPT ![Current(t)].ref = stmt[t].tmp - 1]
          /\ stmt' = [stmt EXCEPT ![t].pc = "check"]
          /\ UNCHANGED <<server, handler_map, mutex, table, loaded, contended, leftover, started>>

\* Variant: the handler is kept in its map when the count reaches zero.
LastRef_Never(h) == FALSE

\* io_object->Ref() == 0
LastRef(h) == obj[h].ref = 0

\* The test of the count, outside the mutex.
CheckRef(t) ==
  /\ At(t, "check")
  /\ IF ~obj[Current(t)].live THEN Ends("undefined")
     ELSE /\ stmt' = [stmt EXCEPT ![t] =
                        IF LastRef(Current(t)) THEN [@ EXCEPT !.pc = "erase"]
                        ELSE [@ EXCEPT !.pc = "release", !.held = Tail(@)]]
          /\ UNCHANGED <<server, handler_map, mutex, obj, table, loaded, contended, leftover, started>>

\* Variant: the handler leaves the map and is not deleted.
Deleted_Leaked(o) == o

\* delete io_object: the destructor closes the database.
Deleted(o) == [o EXCEPT !.live = FALSE]

\* erase under the mutex, assert(n == 1), delete: the database is closed.
EraseHandler(t) ==
  /\ At(t, "erase")
  /\ LET h == Current(t)
         r == obj[h].rel
         k == obj[h].kind
     IN  /\ mutex[k] = NoOne
         /\ IF handler_map[k][r] = NoOne THEN Ends("erase_assert")
            ELSE IF ~obj[h].live THEN Ends("undefined")   \* a second delete
            ELSE /\ handler_map' = [handler_map EXCEPT ![k][r] = NoOne]
                 /\ obj' = [obj EXCEPT ![h] = Deleted(@)]
                 /\ stmt' = [stmt EXCEPT ![t].pc = "release", ![t].held = Tail(@)]
                 /\ UNCHANGED <<server, mutex, table, loaded, contended, leftover, started>>

Begin(t) ==
  \/ \E q \in Relations : BeginScan(t, <<q>>) \/ BeginLoad(t, q)
  \/ \E q, r \in Relations : BeginScan(t, <<q, r>>)

Step(t) ==
  \/ NewHandler(t) \/ FoundHandler(t) \/ AddRef(t)
  \/ OpenScan(t) \/ Fetch(t) \/ FetchJoin(t)
  \/ Put(t) \/ ParseError(t) \/ Commit(t) \/ Reply(t)
  \/ Release(t) \/ SubRef(t) \/ CheckRef(t) \/ EraseHandler(t)

Next == \E t \in Sessions : Begin(t) \/ Step(t) \/ Disconnect(t)

\* Every session thread is scheduled again and again, and a client reads what it is sent
\* or goes away (Session::Send blocks otherwise); nothing is assumed of the mutex's order
\* of service or of when statements start.
Spec == Init /\ [][Next]_vars /\ \A t \in Sessions : WF_vars(Step(t))
-----------------------------------------------------------------------------
\* Type invariant of the handler maps, the objects and the statements.
TypeOK ==
  /\ server \in {"up", "open_assert", "erase_assert", "undefined"}
  /\ handler_map \in [Kinds -> [Relations -> Objects \cup {NoOne}]]
  /\ mutex \in [Kinds -> Sessions \cup {NoOne}]
  /\ \A h \in Objects : /\ obj[h].live \in BOOLEAN /\ obj[h].kind \in Kinds
                         /\ obj[h].rel \in Relations \cup {NoOne} /\ obj[h].ref \in Int
                         /\ obj[h].cursor \in 0..obj[h].rows
  /\ \A t \in Sessions : /\ stmt[t].held \in Seq(Objects)
                          /\ Len(stmt[t].held) <= Len(stmt[t].plan)
  /\ contended \subseteq Relations /\ leftover \subseteq Relations
  /\ started \in 0..MaxStatements

\* References that session t has to handler h and has not yet given back.
RefsOf(t, h) ==
  LET given == IF stmt[t].pc \in {"check", "erase"} THEN 1 ELSE 0
  IN  Cardinality({i \in (1 + given)..Len(stmt[t].held) : stmt[t].held[i] = h})
References(h) == FoldSet(LAMBDA t, n : n + RefsOf(t, h), 0, Sessions)

\* The count of a handler is the number of references to it, as long as no two
\* sessions used its relation at the same time; a join of a relation with itself
\* counts twice, and a client that went away keeps its references for ever.
RefCountExact ==
  server = "up" =>
    \A h \in Objects : obj[h].live /\ obj[h].rel \notin contended => obj[h].ref = References(h)

\* Nobody holds a handler that was deleted, under the same condition.
NoDangling ==
  server = "up" =>
    \A t \in Sessions : \A h \in ToSet(stmt[t].held) : obj[h].rel \notin contended => obj[h].live

\* The handlers in the maps are exactly the open databases, and no database is open
\* twice, whatever the sessions do.
MapsAreOpenFiles ==
  server = "up" =>
    /\ \A h, g \in Objects : obj[h].live /\ obj[g].live /\ obj[h].rel = obj[g].rel => h = g
    /\ \A h \in Objects : obj[h].live => handler_map[obj[h].kind][obj[h].rel] = h
    /\ \A k \in Kinds, r \in Relations :
         handler_map[k][r] # NoOne => /\ obj[handler_map[k][r]].live
                                      /\ obj[handler_map[k][r]].rel = r

\* A database that no running statement uses is closed again, unless a client vanished
\* in the middle of a statement on it: that thread has ended and the database it had
\* opened is left open.  Nothing else leaks a handler (while nobody contends for it).
IdleMeansClosed ==
  server = "up" =>
    \A r \in Relations \ contended :
      IsOpen(r) => \/ \E t \in Sessions \ Gone : r \in ToSet(stmt[t].plan)
                   \/ \E t \in Gone : \E h \in ToSet(stmt[t].held) : obj[h].live /\ obj[h].rel = r

\* The handlers of LevelStore end the process, by a failed open or a use after delete, only
\* after two sessions used one relation at the same time or a statement used a relation
\* whose handlers a vanished client had left behind: without either, SELECT, COPY TO and
\* COPY FROM over existing tables, from any sessions in any order, open, share and close
\* the databases without failing.
DiesOnlyDisturbed == server # "up" => contended # {} \/ leftover # {}

\* A COPY FROM stores all of its rows or none, and a failed one stores none, if no
\* other session used the relation and no vanished client had left its batch there.
LoadAllOrNothing ==
  \A r \in Relations \ (contended \cup leftover) : table[r] = {<<0, i>> : i \in 1..InitRows} \cup loaded[r]

\* A scan that reached the end has returned every row once, under the same condition.
ScanComplete ==
  \A t \in Sessions :
    At(t, "reply") /\ stmt[t].kind = "iterator" /\ Len(stmt[t].plan) = 1
      /\ stmt[t].plan[1] \notin contended
    => stmt[t].row = Cardinality(table[stmt[t].plan[1]])

\* Every statement ends: nobody waits for ever on one of the two mutexes, unless the
\* server dies or the client goes away.
StatementEnds ==
  \A t \in Sessions : stmt[t].pc # "idle" ~> (stmt[t].pc \in {"idle", "gone"} \/ server # "up")

\* "assert(n == 1)" in DeleteIOObject: a handler whose count is zero is in its map.
EraseFindsHandler == server # "erase_assert"
=============================================================================
