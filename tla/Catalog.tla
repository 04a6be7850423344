------------------------------ MODULE Catalog ------------------------------
(***************************************************************************)
(* The relation catalog of LevelStore (src/src/storage/level_store.cpp):   *)
(* the two system databases on disk (sys_class and sys_attribute), the     *)
(* maps name_rel_map_ and id_rel_map_ built from them when the process     *)
(* starts, and CREATE TABLE, which writes both.  The process may be killed *)
(* between any two writes.                                                 *)
(*                                                                         *)
(* Every write to a system database is a synchronous leveldb Put under a   *)
(* random key (GenUUID), so a database is modelled as the sequence of its  *)
(* records in key order and a Put inserts its record at any place.  The    *)
(* attribute database is kept per relation: the order of attributes of     *)
(* different relations has no influence on what is loaded.                 *)
(*                                                                         *)
(* WriteRelMeta takes the key from a string that is gone when Put reads    *)
(* it.  The allocator overwrites the beginning of the freed bytes and      *)
(* leaves the rest of the UUID: the keys are still different ones in no    *)
(* order, which is all the model uses of them.                             *)
(***************************************************************************)
EXTENDS Naturals, Sequences, FiniteSetsExt

CONSTANTS
  Names,             \* names of user relations
  Sessions,          \* session threads that execute CREATE TABLE
  Main,              \* the thread that runs LevelStore::Start
  NoOp,              \* a thread that is not inside CreateRelation / WriteRelMeta
  MaxCols,           \* bound: columns of one CREATE TABLE
  MaxRecords,        \* bound: user records in the class database
  SysClassCols,      \* columns of sys_class     (2 in the code)
  SysAttrCols        \* columns of sys_attribute (5 in the code)

ASSUME CatalogAssumption ==
  /\ MaxCols \in Nat \ {0}
  /\ MaxRecords \in Nat
  /\ SysClassCols \in Nat \ {0}
  /\ SysAttrCols \in Nat \ {0}
  /\ Main \notin Sessions
  /\ NoOp \notin [id : Nat, name : Names \cup {"sys_class", "sys_attribute"}, cols : Nat, next : Nat]
  /\ "sys_class" \notin Names
  /\ "sys_attribute" \notin Names

VARIABLES
  dir,           \* disk: whether the data directory exists
  db_file,       \* disk: state of the databases 0.db ("class") and 1.db ("attr")
  class_db,      \* disk: records of the class database, in key order
  attr_db,       \* disk: attribute indexes stored for each relation id, in key order
  phase,         \* where the process is
  name_rel_map,  \* memory: relation name -> relation id
  id_rel_map,    \* memory: relation id -> [name, attrs]
  last_rand,     \* memory: the last id drawn by the unseeded rand()
  class_cursor,  \* memory: next record of class_db that ReadSystemTable reads
  attr_cursor,   \* memory: number of records of attr_db[id] already read
  op,            \* memory: the relation each thread is writing
  acked          \* history: name -> columns of the creation that was accepted

disk  == <<dir, db_file, class_db, attr_db>>
maps  == <<name_rel_map, id_rel_map>>
reads == <<class_cursor, attr_cursor>>
vars  == <<disk, phase, maps, last_rand, reads, op, acked>>

SYS_RELATION  == 0
SYS_ATTRIBUTE == 1
SysNames == {"sys_class", "sys_attribute"}
Rels     == Names \cup SysNames
MaxId    == SYS_ATTRIBUTE + MaxRecords
Ids      == 0..MaxId
Threads  == Sessions \cup {Main}
Files    == {"class", "attr"}
Empty    == [x \in {} |-> 0]
InsertAt(s, i, e) == SubSeq(s, 1, i - 1) \o <<e>> \o SubSeq(s, i, Len(s))
MapInsert(f, k, v) == [x \in DOMAIN f \cup {k} |-> IF x = k THEN v ELSE f[x]]

Phases == {"down", "init_class", "init_attr", "init_sys", "open", "read_class",
           "read_attr", "running", "stopped", "failed", "exit", "abort"}

\* Variant: the loop counter starts one too low.
Write_TooLow(id, name, cols) == [id |-> id, name |-> name, cols |-> cols, next |-> 0 - 1]

\* A WriteRelMeta in progress: next = 0 writes the class record, next = i the i-th attribute.
WriteOps == [id : Ids, name : Rels, cols : Nat, next : Nat]
Write(id, name, cols) == [id |-> id, name |-> name, cols |-> cols, next |-> 0]

-----------------------------------------------------------------------------
\* Variant: an attribute read back is appended without looking at its index.
AddAttribute_Append(attrs, a) == Append(attrs, a)

(* Relation::AddAttribute(attribute, false), used when the catalog is read: *)
(* an attribute is placed before the first one with a greater index, and    *)
(* is dropped when there is none.                                           *)
AddAttribute(attrs, a) ==
  IF attrs = << >> THEN <<a>>
  ELSE LET greater == {i \in 1..Len(attrs) : attrs[i] > a}
       IN  IF greater = {} THEN attrs
           ELSE InsertAt(attrs, Min(greater), a)

\* Relation::AddAttribute(attribute), used by CREATE TABLE, numbers the columns from 0.
Columns(n) == [i \in 1..n |-> i - 1]

\* Variant: InsertRelation looks at the id only.
Conflicts_IdOnly(id, name) == id \in DOMAIN id_rel_map

\* LevelStore::InsertRelation: refused when the name or the id is already there.
Conflicts(id, name) == name \in DOMAIN name_rel_map \/ id \in DOMAIN id_rel_map

InsertRelation(id, name, attrs) ==
  IF Conflicts(id, name) THEN UNCHANGED maps
  ELSE /\ name_rel_map' = MapInsert(name_rel_map, name, id)
       /\ id_rel_map' = MapInsert(id_rel_map, id, [name |-> name, attrs |-> attrs])

\* LevelStore::GenRelationID: rand() is never seeded, so every process draws the
\* same sequence; ids are numbered by their place in it.
GenRelationID(id) ==
  /\ id > last_rand
  /\ id \notin DOMAIN id_rel_map
  /\ \A j \in (last_rand + 1)..(id - 1) : j \in DOMAIN id_rel_map
-----------------------------------------------------------------------------
Init ==
  /\ dir = "absent"
  /\ db_file = [f \in Files |-> "none"]
  /\ class_db = << >>
  /\ attr_db = [i \in Ids |-> << >>]
  /\ phase = "down"
  /\ name_rel_map = Empty
  /\ id_rel_map = Empty
  /\ last_rand = SYS_ATTRIBUTE
  /\ class_cursor = 1
  /\ attr_cursor = [i \in Ids |-> 0]
  /\ op = [t \in Threads |-> NoOp]
  /\ acked = Empty

\* Variant: InitDB is called whatever is on disk.
NeedsInit_Always == TRUE

\* Start looks for the directories of both system databases.
NeedsInit == \E f \in Files : db_file[f] = "none"

\* LevelStore::Start up to the two DB::Open calls, with the first step of InitDB
\* (mkdir, which fails when the directory is already there).
Start ==
  /\ phase = "down"
  /\ class_cursor' = 1
  /\ attr_cursor' = [i \in Ids |-> 0]
  /\ \/ /\ ~NeedsInit
        /\ phase' = "open"
        /\ UNCHANGED dir
     \/ /\ NeedsInit
        /\ dir = "present"
        /\ phase' = "exit"
        /\ UNCHANGED dir
     \/ /\ NeedsInit
        /\ dir = "absent"
        /\ dir' = "present"
        /\ phase' = "init_class"
  /\ UNCHANGED <<db_file, class_db, attr_db, maps, last_rand, op, acked>>

\* leveldb::DB::Open with create_if_missing makes the directory of the database ...
InitCreateDir(f) ==
  /\ phase = (IF f = "class" THEN "init_class" ELSE "init_attr")
  /\ db_file[f] = "none"
  /\ db_file' = [db_file EXCEPT ![f] = "dir"]
  /\ UNCHANGED <<dir, class_db, attr_db, phase, maps, last_rand, reads, op, acked>>

\* ... and then its files.  The second one lets CreateSystemTable begin.
InitCreateDB(f) ==
  /\ phase = (IF f = "class" THEN "init_class" ELSE "init_attr")
  /\ db_file[f] = "dir"
  /\ db_file' = [db_file EXCEPT ![f] = "db"]
  /\ IF f = "class"
     THEN phase' = "init_attr" /\ UNCHANGED op
     ELSE /\ phase' = "init_sys"
          /\ op' = [op EXCEPT ![Main] = Write(SYS_RELATION, "sys_class", SysClassCols)]
  /\ UNCHANGED <<dir, class_db, attr_db, maps, last_rand, reads, acked>>

\* WriteRelMeta: the class record is put first ...
PutClass(t) ==
  /\ op[t] # NoOp /\ op[t].next = 0
  /\ \E i \in 1..(Len(class_db) + 1) :
       class_db' = InsertAt(class_db, i, [id |-> op[t].id, name |-> op[t].name])
  /\ op' = [op EXCEPT ![t].next = 1]
  /\ UNCHANGED <<dir, db_file, attr_db, phase, maps, last_rand, reads, acked>>

\* ... then one record for each attribute, in order.
PutAttr(t) ==
  /\ op[t] # NoOp /\ op[t].next \in 1..op[t].cols
  /\ LET id == op[t].id
     IN  \E i \in 1..(Len(attr_db[id]) + 1) :
           attr_db' = [attr_db EXCEPT ![id] = InsertAt(@, i, op[t].next - 1)]
  /\ op' = [op EXCEPT ![t].next = @ + 1]
  /\ UNCHANGED <<dir, db_file, class_db, phase, maps, last_rand, reads, acked>>

\* Variant: WriteRelMeta stops one attribute early.
Written_OneShort(t) == op[t] # NoOp /\ op[t].next = op[t].cols

\* WriteRelMeta has put the last attribute.
Written(t) == op[t] # NoOp /\ op[t].next = op[t].cols + 1

\* CreateSystemTable goes from sys_class to sys_attribute; InitDB then closes both.
SysTableWritten ==
  /\ Written(Main)
  /\ IF op[Main].id = SYS_RELATION
     THEN /\ op' = [op EXCEPT ![Main] = Write(SYS_ATTRIBUTE, "sys_attribute", SysAttrCols)]
          /\ UNCHANGED phase
     ELSE /\ op' = [op EXCEPT ![Main] = NoOp]
          /\ phase' = "open"
  /\ UNCHANGED <<disk, maps, last_rand, reads, acked>>

\* The two DB::Open calls of Start, without create_if_missing: a database whose
\* creation was cut short makes Start return false.
OpenSystemDB ==
  /\ phase = "open"
  /\ phase' = IF \A f \in Files : db_file[f] = "db" THEN "read_class" ELSE "failed"
  /\ UNCHANGED <<disk, maps, last_rand, reads, op, acked>>

\* Variant: the first loop of ReadSystemTable leaves out the last record.
MoreClasses_OneShort == class_cursor < Len(class_db)

\* it_rel->Valid()
MoreClasses == class_cursor <= Len(class_db)

\* ReadSystemTable, first loop: one class record; what InsertRelation says is ignored.
ReadClass ==
  /\ phase = "read_class"
  /\ IF MoreClasses
     THEN /\ InsertRelation(class_db[class_cursor].id, class_db[class_cursor].name, << >>)
          /\ class_cursor' = class_cursor + 1
          /\ UNCHANGED phase
     ELSE /\ phase' = "read_attr"
          /\ UNCHANGED <<maps, class_cursor>>
  /\ UNCHANGED <<disk, last_rand, attr_cursor, op, acked>>

\* ReadSystemTable, second loop: one attribute record; assert(iter != id_rel_map_.end()).
ReadAttr(id) ==
  /\ phase = "read_attr"
  /\ attr_cursor[id] < Len(attr_db[id])
  /\ attr_cursor' = [attr_cursor EXCEPT ![id] = @ + 1]
  /\ IF id \in DOMAIN id_rel_map
     THEN /\ id_rel_map' = [id_rel_map EXCEPT ![id].attrs =
                              AddAttribute(@, attr_db[id][attr_cursor[id] + 1])]
          /\ UNCHANGED phase
     ELSE /\ phase' = "abort"
          /\ UNCHANGED id_rel_map
  /\ UNCHANGED <<disk, name_rel_map, last_rand, class_cursor, op, acked>>

ReadDone ==
  /\ phase = "read_attr"
  /\ \A id \in Ids : attr_cursor[id] = Len(attr_db[id])
  /\ phase' = "running"
  /\ UNCHANGED <<disk, maps, last_rand, reads, op, acked>>

UserRecords == Cardinality({i \in 1..Len(class_db) : class_db[i].name \in Names})
Pending     == Cardinality({t \in Sessions : op[t] # NoOp /\ op[t].next = 0})

\* CreateRelation up to WriteRelMeta: draw an id and number the columns.
CreateRelation(t, name, cols) ==
  /\ phase = "running"
  /\ op[t] = NoOp
  /\ UserRecords + Pending < MaxRecords
  /\ \E id \in Ids : /\ GenRelationID(id)
                     /\ op' = [op EXCEPT ![t] = Write(id, name, cols)]
                     /\ last_rand' = id
  /\ UNCHANGED <<disk, phase, maps, reads, acked>>

\* CreateRelation, the end: InsertRelation, then true whatever it returned.
FinishCreate(t) ==
  /\ t \in Sessions
  /\ Written(t)
  /\ acked' = IF Conflicts(op[t].id, op[t].name) THEN acked
              ELSE MapInsert(acked, op[t].name, op[t].cols)
  /\ InsertRelation(op[t].id, op[t].name, Columns(op[t].cols))
  /\ op' = [op EXCEPT ![t] = NoOp]
  /\ UNCHANGED <<disk, phase, last_rand, reads>>

\* LevelStore::Stop, once the sessions are joined: both maps keep their entries.
Stop ==
  /\ phase = "running"
  /\ \A t \in Threads : op[t] = NoOp
  /\ phase' = "stopped"
  /\ UNCHANGED <<disk, maps, last_rand, reads, op, acked>>

\* The process ends: killed at any point, or after stop, exit, abort.  Only the disk stays.
ProcessEnds ==
  /\ phase # "down"
  /\ phase' = "down"
  /\ name_rel_map' = Empty
  /\ id_rel_map' = Empty
  /\ last_rand' = SYS_ATTRIBUTE
  /\ class_cursor' = 1
  /\ attr_cursor' = [i \in Ids |-> 0]
  /\ op' = [t \in Threads |-> NoOp]
  /\ UNCHANGED <<disk, acked>>

Next ==
  \/ Start
  \/ \E f \in Files : InitCreateDir(f) \/ InitCreateDB(f)
  \/ \E t \in Threads : PutClass(t) \/ PutAttr(t)
  \/ SysTableWritten
  \/ OpenSystemDB
  \/ ReadClass
  \/ \E id \in Ids : ReadAttr(id)
  \/ ReadDone
  \/ \E t \in Sessions, name \in Names, cols \in 1..MaxCols : CreateRelation(t, name, cols)
  \/ \E t \in Sessions : FinishCreate(t)
  \/ Stop
  \/ ProcessEnds

Spec == Init /\ [][Next]_vars
-----------------------------------------------------------------------------
\* Type invariant: every variable of the catalog keeps its type.
TypeOK ==
  /\ dir \in {"absent", "present"}
  /\ db_file \in [Files -> {"none", "dir", "db"}]
  /\ class_db \in Seq([id : Ids, name : Rels])
  /\ attr_db \in [Ids -> Seq(Nat)]
  /\ phase \in Phases
  /\ name_rel_map \in [DOMAIN name_rel_map -> Ids]
  /\ DOMAIN name_rel_map \subseteq Rels
  /\ id_rel_map \in [DOMAIN id_rel_map -> [name : Rels, attrs : Seq(Nat)]]
  /\ DOMAIN id_rel_map \subseteq Ids
  /\ last_rand \in Ids
  /\ class_cursor \in Nat \ {0}
  /\ attr_cursor \in [Ids -> Nat]
  /\ op \in [Threads -> WriteOps \cup {NoOp}]
  /\ acked \in [DOMAIN acked -> Nat]
  /\ DOMAIN acked \subseteq Rels

\* The relation pointers in name_rel_map_ and id_rel_map_ are the same set: a name
\* leads to a relation of that name and every relation is found by its own name.
MapsAgree ==
  /\ \A n \in DOMAIN name_rel_map : /\ name_rel_map[n] \in DOMAIN id_rel_map
                                    /\ id_rel_map[name_rel_map[n]].name = n
  /\ \A i \in DOMAIN id_rel_map : /\ id_rel_map[i].name \in DOMAIN name_rel_map
                                  /\ name_rel_map[id_rel_map[i].name] = i

\* CreateRelation writes before it inserts: a relation that a session can find, and
\* each of its columns, is already on disk and would survive a crash.
PersistedBeforeVisible ==
  \A i \in DOMAIN id_rel_map :
    /\ [id |-> i, name |-> id_rel_map[i].name] \in Range(class_db)
    /\ Range(id_rel_map[i].attrs) \subseteq Range(attr_db[i])

\* What a WriteRelMeta in progress has already put on disk: the class record and
\* the attributes before the next one.
WritesOnDisk ==
  \A t \in Threads :
    op[t] # NoOp /\ op[t].next # 0 =>
      /\ [id |-> op[t].id, name |-> op[t].name] \in Range(class_db)
      /\ \A a \in Nat : a + 1 < op[t].next => a \in Range(attr_db[op[t].id])

\* "position in relation attribute list" (attribute.h): in a serving process the
\* attribute index stored in every attribute is its position in the relation,
\* whatever the key order in which the attributes were read and wherever an
\* earlier process was killed.  ToDesc and SELECT * rely on it.
PositionIsIndex ==
  phase = "running" =>
    \A i \in DOMAIN id_rel_map : id_rel_map[i].attrs = Columns(Len(id_rel_map[i].attrs))

\* A table whose CREATE was accepted is found by name in every later serving process.
AckedSurvives ==
  phase = "running" => DOMAIN acked \subseteq DOMAIN name_rel_map

\* The assertion on orphan attributes stops the process only after CREATE TABLE
\* wrote two class records with one name.
AbortOnlyAfterDuplicate ==
  phase = "abort" =>
    \E j, k \in 1..Len(class_db) : j # k /\ class_db[j].name = class_db[k].name

\* Start calls exit(1) or returns false only in a data directory whose initialisation
\* was cut short: a store that ever held a table can always be opened again.
StartFailsOnlyHalfInitialised ==
  phase \in {"exit", "failed"} => acked = Empty /\ class_db = << >>

\* A relation that is in the maps of a serving process is never replaced or altered.
RelationsStable ==
  [][phase = "running" /\ phase' = "running" =>
       \A n \in DOMAIN name_rel_map :
         /\ n \in DOMAIN name_rel_map'
         /\ name_rel_map'[n] = name_rel_map[n]
         /\ id_rel_map'[name_rel_map[n]] = id_rel_map[name_rel_map[n]]]_vars

\* level_store.cpp asserts that every attribute record belongs to a known relation.
NoOrphanAttribute == phase # "abort"

\* The meta data manager keeps a table (README.md, "Meta Data Manager"): a table
\* whose CREATE was accepted has all of its columns after a restart.
ColumnsSurvive ==
  phase = "running" =>
    \A n \in DOMAIN acked \cap DOMAIN name_rel_map :
      Len(id_rel_map[name_rel_map[n]].attrs) = acked[n]
=============================================================================
