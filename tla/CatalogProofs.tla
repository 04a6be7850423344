--------------------------- MODULE CatalogProofs ---------------------------
(* Proofs about the catalog for every number of names, sessions, columns   *)
(* and records.                                                            *)
EXTENDS Catalog, WellFoundedInduction, TLAPS

\* The elements of a sequence over S are in S.
LEMMA SeqElement ==
  ASSUME NEW S, NEW s \in Seq(S), NEW i \in 1..Len(s)
  PROVE  s[i] \in S
  OBVIOUS

\* InsertAt returns a sequence that is one element longer.
LEMMA InsertAtType ==
  ASSUME NEW S, NEW s \in Seq(S), NEW i \in 1..(Len(s) + 1), NEW e \in S
  PROVE  InsertAt(s, i, e) \in Seq(S) /\ Len(InsertAt(s, i, e)) = Len(s) + 1
<1> DEFINE a == SubSeq(s, 1, i - 1)
           b == SubSeq(s, i, Len(s))
<1>1. a \in Seq(S) /\ Len(a) = i - 1
  OBVIOUS
<1>2. b \in Seq(S) /\ Len(b) = Len(s) - i + 1
  OBVIOUS
<1> DEFINE c == a \o <<e>>
<1>3. InsertAt(s, i, e) = c \o b
  BY DEF InsertAt
<1> HIDE DEF a, b
<1>4. c \in Seq(S) /\ Len(c) = i
  BY <1>1
<1> HIDE DEF c
<1>5. c \o b \in Seq(S) /\ Len(c \o b) = Len(c) + Len(b)
  BY <1>2, <1>4
<1> QED BY <1>2, <1>3, <1>4, <1>5

\* The elements of the sequence that InsertAt returns.
LEMMA InsertAtElement ==
  ASSUME NEW S, NEW s \in Seq(S), NEW i \in 1..(Len(s) + 1), NEW e \in S,
         NEW k \in 1..(Len(s) + 1)
  PROVE  /\ k < i => InsertAt(s, i, e)[k] = s[k]
         /\ k = i => InsertAt(s, i, e)[k] = e
         /\ k > i => InsertAt(s, i, e)[k] = s[k - 1]
<1> DEFINE a == SubSeq(s, 1, i - 1)
           b == SubSeq(s, i, Len(s))
<1>1. /\ a \in Seq(S) /\ Len(a) = i - 1
      /\ \A j \in 1..(i - 1) : a[j] = s[j]
  OBVIOUS
<1>2. b \in Seq(S) /\ Len(b) = Len(s) - i + 1
  OBVIOUS
<1>3. \A j \in 1..(Len(s) - i + 1) : b[j] = s[i + j - 1]
  OBVIOUS
<1> DEFINE c == a \o <<e>>
<1>4. InsertAt(s, i, e) = c \o b
  BY DEF InsertAt
<1> HIDE DEF a, b
<1>5. c \in Seq(S) /\ Len(c) = i
  BY <1>1
<1>6. \A j \in 1..i : c[j] = IF j < i THEN s[j] ELSE e
  BY <1>1
<1> HIDE DEF c
<1>7. (c \o b)[k] = IF k <= i THEN c[k] ELSE b[k - i]
  BY <1>2, <1>5
<1>8. ASSUME k > i
      PROVE  b[k - i] = s[k - 1]
  <2>1. k - i \in 1..(Len(s) - i + 1) /\ i + (k - i) - 1 = k - 1
    BY <1>8
  <2> QED BY <1>3, <2>1
<1> QED BY <1>4, <1>6, <1>7, <1>8

\* InsertAt keeps every element and adds the new one.
LEMMA InsertAtKeeps ==
  ASSUME NEW S, NEW s \in Seq(S), NEW i \in 1..(Len(s) + 1), NEW e \in S
  PROVE  Range(s) \subseteq Range(InsertAt(s, i, e)) /\ e \in Range(InsertAt(s, i, e))
<1> DEFINE r == InsertAt(s, i, e)
<1>1. r \in Seq(S) /\ Len(r) = Len(s) + 1 /\ Len(s) \in Nat
  BY InsertAtType
<1>2. \A k \in 1..(Len(s) + 1) : /\ k < i => r[k] = s[k]
                                 /\ k = i => r[k] = e
                                 /\ k > i => r[k] = s[k - 1]
  BY InsertAtElement
<1> HIDE DEF r
<1>3. ASSUME NEW k \in 1..Len(s) PROVE s[k] \in Range(r)
  <2>1. CASE k < i
    <3>1. r[k] = s[k] /\ k \in DOMAIN r
      BY <1>1, <1>2, <2>1
    <3> QED BY <3>1 DEF Range
  <2>2. CASE k >= i
    <3>1. k + 1 \in 1..(Len(s) + 1) /\ k + 1 > i /\ (k + 1) - 1 = k
      BY <1>1, <2>2
    <3>2. r[k + 1] = s[k] /\ k + 1 \in DOMAIN r
      BY <1>1, <1>2, <3>1
    <3> QED BY <3>2 DEF Range
  <2> QED BY <2>1, <2>2
<1>4. e \in Range(r)
  BY <1>1, <1>2 DEF Range
<1> QED BY <1>3, <1>4 DEF Range, r

\* A nonempty set of naturals has a least element, and Min returns it.
LEMMA MinNat ==
  ASSUME NEW T \in SUBSET Nat, T # {}
  PROVE  Min(T) \in T /\ \A y \in T : Min(T) <= y
<1> DEFINE less == OpToRel(<, Nat)
<1>1. \A x, y \in Nat : y < x => <<y, x>> \in less
  BY DEF OpToRel
<1>2. IsWellFoundedOn(less, Nat)
  BY NatLessThanWellFounded, Zenon
<1> HIDE DEF less
<1>3. PICK x \in T : \A y \in T : ~(<<y, x>> \in less)
  BY <1>2, WFMin, Zenon
<1>4. \A y \in T : x <= y
  <2> SUFFICES ASSUME NEW y \in T PROVE x <= y
    OBVIOUS
  <2>1. x \in Nat /\ y \in Nat
    OBVIOUS
  <2>2. ~(y < x)
    BY <1>1, <1>3, <2>1, Zenon
  <2> QED BY <2>1, <2>2
<1> QED BY <1>3, <1>4, Zenon DEF Min

-----------------------------------------------------------------------------
\* AddAttribute returns an attribute list that holds nothing but the old ones and the new one.
LEMMA AddAttributeType ==
  ASSUME NEW attrs \in Seq(Nat), NEW a \in Nat
  PROVE  /\ AddAttribute(attrs, a) \in Seq(Nat)
         /\ Range(AddAttribute(attrs, a)) \subseteq Range(attrs) \cup {a}
<1> DEFINE D == Nat
<1>0. attrs \in Seq(D) /\ a \in D
  OBVIOUS
<1> HIDE DEF D
<1> DEFINE greater == {i \in 1..Len(attrs) : attrs[i] > a}
<1>1. CASE attrs = << >>
  BY <1>1 DEF AddAttribute, Range
<1>2. CASE attrs # << >> /\ greater = {}
  BY <1>2 DEF AddAttribute
<1>3. CASE attrs # << >> /\ greater # {}
  <2> DEFINE m == Min(greater)
             r == InsertAt(attrs, m, a)
  <2>1. AddAttribute(attrs, a) = r
    BY <1>3 DEF AddAttribute
  <2>2. greater \subseteq 1..Len(attrs) /\ greater \in SUBSET Nat /\ Len(attrs) \in Nat
    OBVIOUS
  <2> HIDE DEF greater
  <2>3. m \in 1..Len(attrs)
    BY <1>3, <2>2, MinNat, Zenon
  <2> HIDE DEF m
  <2>4. m \in 1..(Len(attrs) + 1)
    BY <2>2, <2>3
  <2>5. r \in Seq(Nat) /\ Len(r) = Len(attrs) + 1
    BY <2>4, InsertAtType
  <2>6. ASSUME NEW k \in 1..(Len(attrs) + 1)
        PROVE  r[k] \in Range(attrs) \cup {a}
    <3>1. /\ k < m => r[k] = attrs[k]
          /\ k = m => r[k] = a
          /\ k > m => r[k] = attrs[k - 1]
      BY <1>0, <2>4, InsertAtElement
    <3> HIDE DEF r
    <3>2. CASE k < m
      BY <2>2, <2>3, <3>1, <3>2 DEF Range
    <3>3. CASE k = m
      BY <3>1, <3>3
    <3>4. CASE k > m
      <4>1. k - 1 \in 1..Len(attrs)
        BY <2>2, <2>3, <3>4
      <4> QED BY <4>1, <3>1, <3>4 DEF Range
    <3> QED BY <2>3, <3>2, <3>3, <3>4
  <2> HIDE DEF r
  <2>7. Range(r) \subseteq Range(attrs) \cup {a}
    BY <2>5, <2>6 DEF Range
  <2> QED BY <2>1, <2>5, <2>7
<1> QED BY <1>1, <1>2, <1>3

\* CREATE TABLE numbers its columns from 0.
LEMMA ColumnsType ==
  ASSUME NEW n \in Nat
  PROVE  /\ Columns(n) \in Seq(Nat) /\ Len(Columns(n)) = n
         /\ \A i \in 1..n : Columns(n)[i] = i - 1
  BY DEF Columns

\* InsertRelation keeps the types of both maps.
LEMMA InsertRelationType ==
  ASSUME TypeOK, NEW id \in Ids, NEW name \in Rels, NEW attrs \in Seq(Nat),
         InsertRelation(id, name, attrs)
  PROVE  /\ name_rel_map' \in [DOMAIN name_rel_map' -> Ids]
         /\ DOMAIN name_rel_map' \subseteq Rels
         /\ id_rel_map' \in [DOMAIN id_rel_map' -> [name : Rels, attrs : Seq(Nat)]]
         /\ DOMAIN id_rel_map' \subseteq Ids
<1> USE DEF TypeOK
<1>1. CASE Conflicts(id, name)
  BY <1>1 DEF InsertRelation, maps
<1>2. CASE ~Conflicts(id, name)
  <2>1. name_rel_map' = MapInsert(name_rel_map, name, id)
    BY <1>2 DEF InsertRelation
  <2>2. id_rel_map' = MapInsert(id_rel_map, id, [name |-> name, attrs |-> attrs])
    BY <1>2 DEF InsertRelation
  <2> QED BY <2>1, <2>2 DEF MapInsert
<1> QED BY <1>1, <1>2

\* A step of the first loop of ReadSystemTable inserts the class record under the cursor.
LEMMA ReadClassInserts ==
  ASSUME TypeOK, ReadClass, MoreClasses
  PROVE  \E c \in [id : Ids, name : Rels] :
           c \in Range(class_db) /\ InsertRelation(c.id, c.name, << >>)
<1> DEFINE D == [id : Ids, name : Rels]
           c == class_db[class_cursor]
<1>1. class_db \in Seq(D) /\ class_cursor \in 1..Len(class_db)
  BY DEF MoreClasses, TypeOK
<1> HIDE DEF D
<1>2. c \in D
  BY <1>1, SeqElement
<1>3. c \in Range(class_db)
  BY <1>1 DEF Range
<1>4. InsertRelation(c.id, c.name, << >>)
  BY DEF ReadClass
<1> HIDE DEF c
<1> QED BY <1>2, <1>3, <1>4 DEF D

\* A step of the second loop reads an attribute that is on disk and changes only the
\* attribute list of its relation.
LEMMA ReadAttrAdds ==
  ASSUME TypeOK, NEW id \in Ids, ReadAttr(id), id \in DOMAIN id_rel_map
  PROVE  \E a \in Nat : 
           /\ a \in Range(attr_db[id])
           /\ DOMAIN id_rel_map' = DOMAIN id_rel_map
           /\ id_rel_map'[id] = [name |-> id_rel_map[id].name,
                                 attrs |-> AddAttribute(id_rel_map[id].attrs, a)]
           /\ \A i \in DOMAIN id_rel_map : i # id => id_rel_map'[i] = id_rel_map[i]
<1> DEFINE D == Nat
           a == attr_db[id][attr_cursor[id] + 1]
           r == id_rel_map[id]
           new == AddAttribute(r.attrs, a)
<1>1. attr_db[id] \in Seq(D) /\ attr_cursor[id] + 1 \in 1..Len(attr_db[id])
  BY DEF ReadAttr, TypeOK
<1> HIDE DEF D
<1>2. a \in D
  BY <1>1, SeqElement
<1>3. a \in Range(attr_db[id])
  BY <1>1 DEF Range
<1>4. id_rel_map' = [id_rel_map EXCEPT ![id] = [r EXCEPT !.attrs = new]]
  BY DEF ReadAttr
<1>5. r \in [name : Rels, attrs : Seq(Nat)]
  BY DEF TypeOK
<1> HIDE DEF a, new
<1>6. [r EXCEPT !.attrs = new] = [name |-> r.name, attrs |-> new]
  BY <1>5
<1>7. /\ DOMAIN id_rel_map' = DOMAIN id_rel_map
      /\ id_rel_map'[id] = [name |-> r.name, attrs |-> new]
      /\ \A i \in DOMAIN id_rel_map : i # id => id_rel_map'[i] = id_rel_map[i]
  BY <1>4, <1>6 DEF TypeOK
<1>8. id_rel_map'[id] = [name |-> id_rel_map[id].name,
                         attrs |-> AddAttribute(id_rel_map[id].attrs, a)]
  BY <1>7 DEF new
<1> QED BY <1>2, <1>3, <1>7, <1>8 DEF D

\* The first Put of WriteRelMeta adds the class record of the relation being written.
LEMMA PutClassInserts ==
  ASSUME TypeOK, NEW t \in Threads, PutClass(t)
  PROVE  LET r == [id |-> op[t].id, name |-> op[t].name]
         IN  /\ r \in [id : Ids, name : Rels]
             /\ \E i \in 1..(Len(class_db) + 1) : class_db' = InsertAt(class_db, i, r)
<1>1. op[t] \in WriteOps
  BY DEF PutClass, TypeOK
<1> QED BY <1>1 DEF PutClass, WriteOps

\* The other ones add the attributes of that relation one by one.
LEMMA PutAttrInserts ==
  ASSUME TypeOK, NEW t \in Threads, PutAttr(t)
  PROVE  /\ op[t].id \in Ids
         /\ attr_db' \in [Ids -> Seq(Nat)]
         /\ \A i \in Ids : i # op[t].id => attr_db'[i] = attr_db[i]
         /\ Range(attr_db[op[t].id]) \subseteq Range(attr_db'[op[t].id])
         /\ op[t].next - 1 \in Range(attr_db'[op[t].id])
<1>1. op[t] \in WriteOps /\ op[t].next \in 1..op[t].cols
  BY DEF PutAttr, TypeOK
<1> DEFINE D == Nat
           id == op[t].id
           a == op[t].next - 1
<1>2. id \in Ids /\ a \in D /\ attr_db[id] \in Seq(D)
  BY <1>1 DEF WriteOps, TypeOK
<1>3. PICK i \in 1..(Len(attr_db[id]) + 1) :
        attr_db' = [attr_db EXCEPT ![id] = InsertAt(attr_db[id], i, a)]
  BY Zenon DEF PutAttr
<1> HIDE DEF D, a, id
<1>4. InsertAt(attr_db[id], i, a) \in Seq(D)
  BY <1>2, <1>3, InsertAtType
<1>5. Range(attr_db[id]) \subseteq Range(InsertAt(attr_db[id], i, a))
  BY <1>2, <1>3, InsertAtKeeps
<1>6. a \in Range(InsertAt(attr_db[id], i, a))
  BY <1>2, <1>3, InsertAtKeeps
<1>7. attr_db' \in [Ids -> Seq(Nat)]
  BY <1>2, <1>3, <1>4 DEF TypeOK, D
<1>8. attr_db'[id] = InsertAt(attr_db[id], i, a) /\ \A j \in Ids : j # id => attr_db'[j] = attr_db[j]
  BY <1>2, <1>3 DEF TypeOK
<1> QED BY <1>2, <1>5, <1>6, <1>7, <1>8 DEF id, a

\* The types hold before the first start of the server.
LEMMA TypeInit == Init => TypeOK
  BY CatalogAssumption
  DEF Init, TypeOK, Empty, Ids, MaxId, SYS_ATTRIBUTE, Files, Phases, Threads

\* Every step of the catalog keeps the types.
LEMMA TypeNext == TypeOK /\ [Next]_vars => TypeOK'
<1> SUFFICES ASSUME TypeOK, [Next]_vars PROVE TypeOK'
  OBVIOUS
<1> USE CatalogAssumption
<1>1. CASE Start
  BY <1>1 DEF TypeOK, Start, Phases, disk, maps, reads
<1>2. ASSUME NEW f \in Files, InitCreateDir(f) PROVE TypeOK'
  BY <1>2 DEF TypeOK, InitCreateDir, Files, maps, reads
<1>3. ASSUME NEW f \in Files, InitCreateDB(f) PROVE TypeOK'
  <2>1. Write(SYS_RELATION, "sys_class", SysClassCols) \in WriteOps
    BY DEF Write, WriteOps, Rels, SysNames, Ids, MaxId, SYS_RELATION, SYS_ATTRIBUTE
  <2> QED BY <1>3, <2>1 DEF TypeOK, InitCreateDB, Files, maps, reads, Phases, Threads
<1>4. ASSUME NEW t \in Threads, PutClass(t) PROVE TypeOK'
  <2> DEFINE D == [id : Ids, name : Rels]
  <2>1. op[t] \in WriteOps
    BY <1>4 DEF PutClass, TypeOK
  <2>2. PICK i \in 1..(Len(class_db) + 1), r \in D : class_db' = InsertAt(class_db, i, r)
    BY <1>4, PutClassInserts, Zenon
  <2>3. class_db \in Seq(D)
    BY DEF TypeOK
  <2> HIDE DEF D
  <2>4. class_db' \in Seq(D)
    BY <2>2, <2>3, InsertAtType
  <2>5. op' \in [Threads -> WriteOps \cup {NoOp}]
    BY <1>4, <2>1, Zenon DEF PutClass, TypeOK, WriteOps
  <2> QED BY <1>4, <2>4, <2>5, Zenon DEF TypeOK, PutClass, maps, reads, D
<1>5. ASSUME NEW t \in Threads, PutAttr(t) PROVE TypeOK'
  <2>1. op[t] \in WriteOps /\ op[t].next \in 1..op[t].cols
    BY <1>5 DEF PutAttr, TypeOK
  <2>5. attr_db' \in [Ids -> Seq(Nat)]
    BY <1>5, PutAttrInserts
  <2>6. [op[t] EXCEPT !.next = op[t].next + 1] \in WriteOps
    BY <2>1 DEF WriteOps
  <2>7. op' = [op EXCEPT ![t] = [op[t] EXCEPT !.next = op[t].next + 1]]
    BY <1>5 DEF PutAttr, TypeOK
  <2>8. op' \in [Threads -> WriteOps \cup {NoOp}]
    BY <2>6, <2>7 DEF TypeOK
  <2> QED BY <1>5, <2>5, <2>8, Zenon DEF TypeOK, PutAttr, maps, reads
<1>6. CASE SysTableWritten
  <2>1. Write(SYS_ATTRIBUTE, "sys_attribute", SysAttrCols) \in WriteOps
    BY DEF Write, WriteOps, Rels, SysNames, Ids, MaxId, SYS_ATTRIBUTE
  <2> QED BY <1>6, <2>1 DEF TypeOK, SysTableWritten, disk, maps, reads, Phases, Threads
<1>7. CASE OpenSystemDB
  BY <1>7 DEF TypeOK, OpenSystemDB, disk, maps, reads, Phases
<1>8. CASE ReadClass
  <2>1. CASE MoreClasses
    <3>1. PICK c \in [id : Ids, name : Rels] : InsertRelation(c.id, c.name, << >>)
      BY <1>8, <2>1, ReadClassInserts
    <3>3. c.id \in Ids /\ c.name \in Rels /\ << >> \in Seq(Nat)
      OBVIOUS
    <3>5. /\ name_rel_map' \in [DOMAIN name_rel_map' -> Ids]
          /\ DOMAIN name_rel_map' \subseteq Rels
          /\ id_rel_map' \in [DOMAIN id_rel_map' -> [name : Rels, attrs : Seq(Nat)]]
          /\ DOMAIN id_rel_map' \subseteq Ids
      BY <3>1, <3>3, InsertRelationType, Zenon
    <3>a. class_cursor' = class_cursor + 1 /\ phase' = phase
      BY <1>8, <2>1 DEF ReadClass
    <3>6. class_cursor' \in Nat \ {0}
      BY <3>a DEF TypeOK
    <3>7. UNCHANGED <<dir, db_file, class_db, attr_db, last_rand, attr_cursor, op, acked>>
      BY <1>8 DEF ReadClass, disk
    <3> QED BY <3>a, <3>5, <3>6, <3>7, Zenon DEF TypeOK
  <2>2. CASE ~MoreClasses
    BY <1>8, <2>2 DEF ReadClass, TypeOK, disk, maps, reads, Phases
  <2> QED BY <2>1, <2>2
<1>9. ASSUME NEW id \in Ids, ReadAttr(id) PROVE TypeOK'
  <2>1. attr_cursor' = [attr_cursor EXCEPT ![id] = attr_cursor[id] + 1]
    BY <1>9 DEF ReadAttr
  <2>2. attr_cursor \in [Ids -> Nat] /\ attr_cursor[id] + 1 \in Nat
    BY DEF TypeOK
  <2>3. attr_cursor' \in [Ids -> Nat]
    BY <2>1, <2>2
  <2>4. CASE id \in DOMAIN id_rel_map
    <3>1. PICK a \in Nat :
            /\ DOMAIN id_rel_map' = DOMAIN id_rel_map
            /\ id_rel_map'[id] = [name |-> id_rel_map[id].name,
                                  attrs |-> AddAttribute(id_rel_map[id].attrs, a)]
            /\ \A i \in DOMAIN id_rel_map : i # id => id_rel_map'[i] = id_rel_map[i]
      BY <1>9, <2>4, ReadAttrAdds
    <3>2. id_rel_map[id].name \in Rels /\ id_rel_map[id].attrs \in Seq(Nat)
      BY <2>4 DEF TypeOK
    <3>5. AddAttribute(id_rel_map[id].attrs, a) \in Seq(Nat)
      BY <3>2, AddAttributeType
    <3>3. id_rel_map'[id] \in [name : Rels, attrs : Seq(Nat)]
      BY <3>1, <3>2, <3>5
    <3>4. id_rel_map' = [i \in DOMAIN id_rel_map' |-> id_rel_map'[i]]
      BY <1>9, <2>4 DEF ReadAttr, TypeOK
    <3>6. id_rel_map' \in [DOMAIN id_rel_map' -> [name : Rels, attrs : Seq(Nat)]]
      BY <2>4, <3>1, <3>3, <3>4, Zenon DEF TypeOK
    <3>7. UNCHANGED <<dir, db_file, class_db, attr_db, phase, name_rel_map, last_rand,
                      class_cursor, op, acked>>
      BY <1>9, <2>4 DEF ReadAttr, disk
    <3> QED BY <2>3, <3>1, <3>6, <3>7, Zenon DEF TypeOK
  <2>5. CASE id \notin DOMAIN id_rel_map
    BY <1>9, <2>3, <2>5, Zenon DEF ReadAttr, TypeOK, disk, Phases
  <2> QED BY <2>4, <2>5
<1>10. CASE ReadDone
  BY <1>10 DEF ReadDone, TypeOK, disk, maps, reads, Phases
<1>11. ASSUME NEW t \in Sessions, NEW name \in Names, NEW cols \in 1..MaxCols,
              CreateRelation(t, name, cols)
       PROVE  TypeOK'
  <2>1. \A id \in Ids : Write(id, name, cols) \in WriteOps
    BY DEF Write, WriteOps, Rels
  <2> QED BY <1>11, <2>1 DEF CreateRelation, TypeOK, disk, maps, reads, Threads
<1>12. ASSUME NEW t \in Sessions, FinishCreate(t) PROVE TypeOK'
  <2>1. op[t] \in WriteOps
    BY <1>12 DEF FinishCreate, Written, TypeOK, Threads
  <2>2. op[t].id \in Ids /\ op[t].name \in Rels /\ op[t].cols \in Nat
    BY <2>1 DEF WriteOps
  <2>3. Columns(op[t].cols) \in Seq(Nat)
    BY <2>2, ColumnsType
  <2>4. /\ name_rel_map' \in [DOMAIN name_rel_map' -> Ids]
        /\ DOMAIN name_rel_map' \subseteq Rels
        /\ id_rel_map' \in [DOMAIN id_rel_map' -> [name : Rels, attrs : Seq(Nat)]]
        /\ DOMAIN id_rel_map' \subseteq Ids
    BY <1>12, <2>2, <2>3, InsertRelationType DEF FinishCreate
  <2>5. acked' \in [DOMAIN acked' -> Nat] /\ DOMAIN acked' \subseteq Rels
    BY <1>12, <2>2 DEF FinishCreate, TypeOK, MapInsert
  <2>6. op' \in [Threads -> WriteOps \cup {NoOp}]
    BY <1>12, Zenon DEF FinishCreate, TypeOK
  <2> QED BY <1>12, <2>4, <2>5, <2>6 DEF FinishCreate, TypeOK, disk, reads
<1>13. CASE Stop
  BY <1>13 DEF Stop, TypeOK, disk, maps, reads, Phases
<1>14. CASE ProcessEnds
  BY <1>14, TypeInit DEF ProcessEnds, TypeOK, disk, Phases, Empty, Ids, MaxId, SYS_ATTRIBUTE
<1>15. CASE UNCHANGED vars
  BY <1>15 DEF vars, TypeOK, disk, maps, reads
<1> QED
  BY <1>1, <1>2, <1>3, <1>4, <1>5, <1>6, <1>7, <1>8, <1>9, <1>10, <1>11, <1>12,
     <1>13, <1>14, <1>15 DEF Next

\* Every variable keeps its type in every behaviour, whatever the bounds.
THEOREM TypeCorrect == Spec => []TypeOK
<1>1. Init => TypeOK
  BY TypeInit
<1>2. TypeOK /\ [Next]_vars => TypeOK'
  BY TypeNext
<1> QED BY <1>1, <1>2, PTL DEF Spec

\* InsertRelation keeps the two maps in agreement.
LEMMA InsertRelationAgrees ==
  ASSUME TypeOK, MapsAgree, NEW id \in Ids, NEW name \in Rels, NEW attrs,
         InsertRelation(id, name, attrs)
  PROVE  MapsAgree'
<1>1. CASE Conflicts(id, name)
  BY <1>1 DEF InsertRelation, maps, MapsAgree
<1>2. CASE ~Conflicts(id, name)
  <2>1. /\ name_rel_map' = MapInsert(name_rel_map, name, id)
        /\ id_rel_map' = MapInsert(id_rel_map, id, [name |-> name, attrs |-> attrs])
        /\ name \notin DOMAIN name_rel_map /\ id \notin DOMAIN id_rel_map
    BY <1>2 DEF InsertRelation, Conflicts
  <2> QED BY <2>1 DEF MapsAgree, MapInsert
<1> QED BY <1>1, <1>2

\* The maps agree after every step: only InsertRelation and the end of the process
\* change which relations they hold.
LEMMA MapsAgreeNext == TypeOK /\ MapsAgree /\ [Next]_vars => MapsAgree'
<1> SUFFICES ASSUME TypeOK, MapsAgree, [Next]_vars PROVE MapsAgree'
  OBVIOUS
<1>1. CASE UNCHANGED maps
  BY <1>1 DEF MapsAgree, maps
<1>2. CASE ReadClass
  <2>1. CASE MoreClasses
    <3>1. PICK c \in [id : Ids, name : Rels] : InsertRelation(c.id, c.name, << >>)
      BY <1>2, <2>1, ReadClassInserts
    <3> QED BY <3>1, InsertRelationAgrees
  <2>2. CASE ~MoreClasses
    BY <1>1, <1>2, <2>2 DEF ReadClass, maps
  <2> QED BY <2>1, <2>2
<1>3. ASSUME NEW id \in Ids, ReadAttr(id) PROVE MapsAgree'
  <2>1. /\ name_rel_map' = name_rel_map
        /\ DOMAIN id_rel_map' = DOMAIN id_rel_map
        /\ \A i \in DOMAIN id_rel_map : id_rel_map'[i].name = id_rel_map[i].name
    <3>1. CASE id \in DOMAIN id_rel_map
      <4>1. name_rel_map' = name_rel_map
        BY <1>3 DEF ReadAttr
      <4>2. PICK a \in Nat :
              /\ DOMAIN id_rel_map' = DOMAIN id_rel_map
              /\ id_rel_map'[id] = [name |-> id_rel_map[id].name,
                                    attrs |-> AddAttribute(id_rel_map[id].attrs, a)]
              /\ \A i \in DOMAIN id_rel_map : i # id => id_rel_map'[i] = id_rel_map[i]
        BY <1>3, <3>1, ReadAttrAdds
      <4> QED BY <4>1, <4>2
    <3>2. CASE id \notin DOMAIN id_rel_map
      BY <1>3, <3>2 DEF ReadAttr
    <3> QED BY <3>1, <3>2
  <2> QED BY <2>1 DEF MapsAgree
<1>4. ASSUME NEW t \in Sessions, FinishCreate(t) PROVE MapsAgree'
  <2>1. op[t] \in WriteOps
    BY <1>4 DEF FinishCreate, Written, TypeOK, Threads
  <2>2. op[t].id \in Ids /\ op[t].name \in Rels
    BY <2>1 DEF WriteOps
  <2>3. InsertRelation(op[t].id, op[t].name, Columns(op[t].cols))
    BY <1>4 DEF FinishCreate
  <2> QED BY <2>2, <2>3, InsertRelationAgrees
<1>5. CASE ProcessEnds
  BY <1>5 DEF ProcessEnds, MapsAgree, Empty
<1> QED
  BY <1>1, <1>2, <1>3, <1>4, <1>5, Zenon
  DEF Next, vars, Start, InitCreateDir, InitCreateDB, PutClass, PutAttr, SysTableWritten,
      OpenSystemDB, ReadDone, CreateRelation, Stop

\* name_rel_map_ and id_rel_map_ always hold the same relations.
THEOREM MapsAlwaysAgree == Spec => []MapsAgree
<1>1. Init => MapsAgree
  BY DEF Init, MapsAgree, Empty
<1>2. TypeOK /\ MapsAgree /\ [Next]_vars => MapsAgree'
  BY MapsAgreeNext
<1> QED BY <1>1, <1>2, TypeCorrect, PTL DEF Spec

\* In a serving process a relation found by name keeps its id, and the relation
\* behind that id keeps its columns.
THEOREM RelationsNeverChange == Spec => RelationsStable
<1> DEFINE Stable ==
      phase = "running" /\ phase' = "running" =>
        \A n \in DOMAIN name_rel_map :
          /\ n \in DOMAIN name_rel_map'
          /\ name_rel_map'[n] = name_rel_map[n]
          /\ id_rel_map'[name_rel_map[n]] = id_rel_map[name_rel_map[n]]
<1>1. TypeOK /\ MapsAgree /\ [Next]_vars => [Stable]_vars
  <2> SUFFICES ASSUME TypeOK, MapsAgree, [Next]_vars PROVE Stable
    OBVIOUS
  <2>1. CASE UNCHANGED maps
    BY <2>1 DEF maps
  <2>2. ASSUME NEW t \in Sessions, FinishCreate(t) PROVE Stable
    <3> DEFINE id == op[t].id
               name == op[t].name
    <3>1. InsertRelation(id, name, Columns(op[t].cols))
      BY <2>2 DEF FinishCreate
    <3> HIDE DEF id, name
    <3>2. CASE Conflicts(id, name)
      BY <2>1, <3>1, <3>2 DEF InsertRelation
    <3>3. CASE ~Conflicts(id, name)
      <4>1. /\ name_rel_map' = MapInsert(name_rel_map, name, id)
            /\ id_rel_map' = MapInsert(id_rel_map, id, [name |-> name, attrs |-> Columns(op[t].cols)])
            /\ name \notin DOMAIN name_rel_map /\ id \notin DOMAIN id_rel_map
        BY <3>1, <3>3 DEF InsertRelation, Conflicts
      <4> QED BY <4>1 DEF MapsAgree, MapInsert
    <3> QED BY <3>2, <3>3
  <2>3. CASE ReadClass \/ (\E id \in Ids : ReadAttr(id)) \/ ProcessEnds
    BY <2>3 DEF ReadClass, ReadAttr, ProcessEnds
  <2> QED
    BY <2>1, <2>2, <2>3, Zenon
    DEF Next, vars, Start, InitCreateDir, InitCreateDB, PutClass, PutAttr, SysTableWritten,
        OpenSystemDB, ReadDone, CreateRelation, Stop
<1> QED BY <1>1, TypeCorrect, MapsAlwaysAgree, PTL DEF Spec, RelationsStable

\* No step takes a record from the databases.
LEMMA DiskGrows ==
  ASSUME TypeOK, [Next]_vars
  PROVE  /\ Range(class_db) \subseteq Range(class_db')
         /\ \A i \in Ids : Range(attr_db[i]) \subseteq Range(attr_db'[i])
<1>1. ASSUME NEW t \in Threads, PutClass(t)
      PROVE  Range(class_db) \subseteq Range(class_db') /\ attr_db' = attr_db
  <2>1. PICK i \in 1..(Len(class_db) + 1), r \in [id : Ids, name : Rels] :
          class_db' = InsertAt(class_db, i, r)
    BY <1>1, PutClassInserts, Zenon
  <2> QED BY <1>1, <2>1, InsertAtKeeps, Zenon DEF PutClass, TypeOK
<1>2. ASSUME NEW t \in Threads, PutAttr(t)
      PROVE  /\ class_db' = class_db
             /\ \A i \in Ids : Range(attr_db[i]) \subseteq Range(attr_db'[i])
  <2> DEFINE id == op[t].id
  <2>1. /\ id \in Ids
        /\ \A i \in Ids : i # id => attr_db'[i] = attr_db[i]
        /\ Range(attr_db[id]) \subseteq Range(attr_db'[id])
    BY <1>2, PutAttrInserts, Zenon
  <2> HIDE DEF id
  <2> QED BY <1>2, <2>1 DEF PutAttr
<1>3. CASE UNCHANGED <<class_db, attr_db>>
  BY <1>3
<1> QED
  BY <1>1, <1>2, <1>3, Zenon
  DEF Next, vars, disk, Start, InitCreateDir, InitCreateDB, SysTableWritten, OpenSystemDB,
      ReadClass, ReadAttr, ReadDone, CreateRelation, FinishCreate, Stop, ProcessEnds

\* The records of a WriteRelMeta in progress are on disk after every step.
LEMMA WritesOnDiskNext == TypeOK /\ WritesOnDisk /\ [Next]_vars => WritesOnDisk'
<1> SUFFICES ASSUME TypeOK, WritesOnDisk, [Next]_vars, NEW u \in Threads,
                    op'[u] # NoOp, op'[u].next # 0
             PROVE  /\ [id |-> op'[u].id, name |-> op'[u].name] \in Range(class_db')
                    /\ \A a \in Nat : a + 1 < op'[u].next => a \in Range(attr_db'[op'[u].id])
  BY DEF WritesOnDisk
<1>0. /\ Range(class_db) \subseteq Range(class_db')
      /\ \A i \in Ids : Range(attr_db[i]) \subseteq Range(attr_db'[i])
  BY DiskGrows
<1>1. CASE op'[u] = op[u]
  <2>1. op[u].id \in Ids
    BY <1>1 DEF TypeOK, WriteOps
  <2> QED BY <1>0, <1>1, <2>1 DEF WritesOnDisk
<1>2. ASSUME NEW t \in Threads, PutClass(t), t = u
      PROVE  /\ [id |-> op'[u].id, name |-> op'[u].name] \in Range(class_db')
             /\ \A a \in Nat : a + 1 < op'[u].next => a \in Range(attr_db'[op'[u].id])
  <2> DEFINE D == [id : Ids, name : Rels]
             r == [id |-> op[u].id, name |-> op[u].name]
  <2>1. r \in D /\ \E i \in 1..(Len(class_db) + 1) : class_db' = InsertAt(class_db, i, r)
    BY <1>2, PutClassInserts
  <2>2. class_db \in Seq(D)
    BY DEF TypeOK
  <2>3. op'[u].id = op[u].id /\ op'[u].name = op[u].name /\ op'[u].next = 1
    BY <1>2 DEF PutClass, TypeOK, WriteOps
  <2> HIDE DEF D, r
  <2>4. r \in Range(class_db')
    BY <2>1, <2>2, InsertAtKeeps
  <2> QED BY <2>3, <2>4 DEF r
<1>3. ASSUME NEW t \in Threads, PutAttr(t), t = u
      PROVE  /\ [id |-> op'[u].id, name |-> op'[u].name] \in Range(class_db')
             /\ \A a \in Nat : a + 1 < op'[u].next => a \in Range(attr_db'[op'[u].id])
  <2>1. op[u] \in WriteOps /\ op[u] # NoOp /\ op[u].next \in Nat \ {0}
    BY <1>3 DEF PutAttr, TypeOK, WriteOps
  <2>2. op'[u].id = op[u].id /\ op'[u].name = op[u].name /\ op'[u].next = op[u].next + 1
    BY <1>3, <2>1 DEF PutAttr, TypeOK, WriteOps
  <2>3. op[u].id \in Ids /\ op[u].next - 1 \in Range(attr_db'[op[u].id])
    BY <1>3, PutAttrInserts
  <2>4. [id |-> op[u].id, name |-> op[u].name] \in Range(class_db)
    BY <2>1 DEF WritesOnDisk
  <2>5. ASSUME NEW a \in Nat, a + 1 < op[u].next + 1 PROVE a \in Range(attr_db'[op[u].id])
    <3>1. CASE a = op[u].next - 1
      BY <2>3, <3>1
    <3>2. CASE a # op[u].next - 1
      <4>1. a + 1 < op[u].next
        BY <2>1, <2>5, <3>2
      <4> QED BY <1>0, <2>1, <2>3, <4>1, Zenon DEF WritesOnDisk
    <3> QED BY <3>1, <3>2
  <2> QED BY <1>0, <2>2, <2>4, <2>5
<1>4. CASE op' = op
  BY <1>1, <1>4
<1>5. ASSUME NEW t \in Threads, PutClass(t) \/ PutAttr(t), t # u PROVE op'[u] = op[u]
  BY <1>5 DEF PutClass, PutAttr, TypeOK
<1>6. ASSUME NEW f \in Files, InitCreateDB(f) PROVE op'[u] = op[u]
  BY <1>6 DEF InitCreateDB, TypeOK, Write
<1>7. CASE SysTableWritten
  BY <1>1, <1>7 DEF SysTableWritten, TypeOK, Write
<1>8. ASSUME NEW t \in Sessions, NEW name \in Names, NEW cols \in 1..MaxCols,
             CreateRelation(t, name, cols)
      PROVE  op'[u] = op[u]
  BY <1>8 DEF CreateRelation, TypeOK, Write
<1>9. ASSUME NEW t \in Sessions, FinishCreate(t) PROVE op'[u] = op[u]
  BY <1>9 DEF FinishCreate, TypeOK
<1>10. CASE ProcessEnds
  BY <1>10 DEF ProcessEnds
<1> QED
  BY <1>1, <1>2, <1>3, <1>4, <1>5, <1>6, <1>7, <1>8, <1>9, <1>10
  DEF Next, vars, Start, InitCreateDir, OpenSystemDB, ReadClass, ReadAttr, ReadDone, Stop

\* A relation is inserted with columns that are on disk.
LEMMA InsertRelationPersisted ==
  ASSUME TypeOK, PersistedBeforeVisible, NEW id \in Ids, NEW name \in Rels, NEW attrs,
         InsertRelation(id, name, attrs), UNCHANGED <<class_db, attr_db>>,
         [id |-> id, name |-> name] \in Range(class_db), Range(attrs) \subseteq Range(attr_db[id])
  PROVE  PersistedBeforeVisible'
<1>1. CASE Conflicts(id, name)
  BY <1>1 DEF InsertRelation, maps, PersistedBeforeVisible
<1>2. CASE ~Conflicts(id, name)
  <2>1. /\ id_rel_map' = MapInsert(id_rel_map, id, [name |-> name, attrs |-> attrs])
        /\ id \notin DOMAIN id_rel_map
    BY <1>2 DEF InsertRelation, Conflicts
  <2> QED BY <2>1 DEF PersistedBeforeVisible, MapInsert
<1> QED BY <1>1, <1>2

\* What the maps show stays on disk.
LEMMA PersistedNext ==
  TypeOK /\ WritesOnDisk /\ PersistedBeforeVisible /\ [Next]_vars => PersistedBeforeVisible'
<1> SUFFICES ASSUME TypeOK, WritesOnDisk, PersistedBeforeVisible, [Next]_vars
             PROVE  PersistedBeforeVisible'
  OBVIOUS
<1>0. /\ Range(class_db) \subseteq Range(class_db')
      /\ \A i \in Ids : Range(attr_db[i]) \subseteq Range(attr_db'[i])
  BY DiskGrows
<1>1. CASE UNCHANGED id_rel_map
  BY <1>0, <1>1, Zenon DEF PersistedBeforeVisible, TypeOK
<1>2. CASE ReadClass
  <2>1. CASE MoreClasses
    <3>1. PICK c \in [id : Ids, name : Rels] :
            c \in Range(class_db) /\ InsertRelation(c.id, c.name, << >>)
      BY <1>2, <2>1, ReadClassInserts
    <3>2. c = [id |-> c.id, name |-> c.name] /\ c.id \in Ids /\ c.name \in Rels
      OBVIOUS
    <3>3. Range(<< >>) \subseteq Range(attr_db[c.id])
      BY DEF Range
    <3>4. UNCHANGED <<class_db, attr_db>>
      BY <1>2 DEF ReadClass, disk
    <3> QED BY <3>1, <3>2, <3>3, <3>4, InsertRelationPersisted
  <2>2. CASE ~MoreClasses
    BY <1>1, <1>2, <2>2 DEF ReadClass, maps
  <2> QED BY <2>1, <2>2
<1>3. ASSUME NEW id \in Ids, ReadAttr(id) PROVE PersistedBeforeVisible'
  <2>1. UNCHANGED <<class_db, attr_db>>
    BY <1>3 DEF ReadAttr, disk
  <2>2. CASE id \in DOMAIN id_rel_map
    <3>1. PICK a \in Nat :
            /\ a \in Range(attr_db[id])
            /\ DOMAIN id_rel_map' = DOMAIN id_rel_map
            /\ id_rel_map'[id] = [name |-> id_rel_map[id].name,
                                  attrs |-> AddAttribute(id_rel_map[id].attrs, a)]
            /\ \A i \in DOMAIN id_rel_map : i # id => id_rel_map'[i] = id_rel_map[i]
      BY <1>3, <2>2, ReadAttrAdds
    <3>2. id_rel_map[id].attrs \in Seq(Nat)
      BY <2>2 DEF TypeOK
    <3>3. Range(AddAttribute(id_rel_map[id].attrs, a)) \subseteq Range(id_rel_map[id].attrs) \cup {a}
      BY <3>2, AddAttributeType
    <3> QED BY <2>1, <2>2, <3>1, <3>3 DEF PersistedBeforeVisible
  <2>3. CASE id \notin DOMAIN id_rel_map
    BY <1>1, <1>3, <2>3 DEF ReadAttr
  <2> QED BY <2>2, <2>3
<1>4. ASSUME NEW t \in Sessions, FinishCreate(t) PROVE PersistedBeforeVisible'
  <2>1. /\ op[t] \in WriteOps /\ op[t] # NoOp /\ op[t].next = op[t].cols + 1 /\ t \in Threads
        /\ InsertRelation(op[t].id, op[t].name, Columns(op[t].cols))
        /\ UNCHANGED <<class_db, attr_db>>
    BY <1>4 DEF FinishCreate, Written, TypeOK, Threads, disk
  <2>2. op[t].id \in Ids /\ op[t].name \in Rels /\ op[t].cols \in Nat /\ op[t].next # 0
    BY <2>1 DEF WriteOps
  <2>3. ASSUME NEW a \in Range(Columns(op[t].cols)) PROVE a \in Range(attr_db[op[t].id])
    <3>0. PICK k \in DOMAIN Columns(op[t].cols) : a = Columns(op[t].cols)[k]
      BY <2>3 DEF Range
    <3>1. a \in Nat /\ a < op[t].cols
      BY <2>2, <3>0 DEF Columns
    <3>2. a + 1 < op[t].next
      BY <2>1, <2>2, <3>1
    <3> QED BY <2>1, <2>2, <3>1, <3>2, Zenon DEF WritesOnDisk
  <2>4. [id |-> op[t].id, name |-> op[t].name] \in Range(class_db)
    BY <2>1, <2>2 DEF WritesOnDisk
  <2> QED BY <2>1, <2>2, <2>3, <2>4, InsertRelationPersisted
<1>5. CASE ProcessEnds
  BY <1>5 DEF ProcessEnds, PersistedBeforeVisible, Empty
<1> QED
  BY <1>1, <1>2, <1>3, <1>4, <1>5, Zenon
  DEF Next, vars, maps, Start, InitCreateDir, InitCreateDB, PutClass, PutAttr, SysTableWritten,
      OpenSystemDB, ReadDone, CreateRelation, Stop

\* CREATE TABLE persists a relation and its columns before any session can find it, so
\* a crash at any point leaves on disk all that was visible.
THEOREM VisibleIsPersisted == Spec => []PersistedBeforeVisible
<1>1. Init => WritesOnDisk /\ PersistedBeforeVisible
  BY DEF Init, WritesOnDisk, PersistedBeforeVisible, Empty
<1>2. TypeOK /\ WritesOnDisk /\ PersistedBeforeVisible /\ [Next]_vars
        => WritesOnDisk' /\ PersistedBeforeVisible'
  BY WritesOnDiskNext, PersistedNext
<1> QED BY <1>1, <1>2, TypeCorrect, PTL DEF Spec
=============================================================================
