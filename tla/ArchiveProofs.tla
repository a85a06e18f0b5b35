---------------------------- MODULE ArchiveProofs ----------------------------
(***************************************************************************)
(* Exports and imports, whatever the two databases, the archive and the    *)
(* writes of others are: an import is never refused, what it brings is     *)
(* offered to the embed queue, replace restores what was archived, and     *)
(* merge keeps what either side said.                                      *)
(*                                                                         *)
(* All rest on what an archive is when its tables were read one after the  *)
(* other: each has its type and its unique index, and nothing else. The    *)
(* merge of such tables into a sound project is sound (MergeSound), and    *)
(* what it says is what the two said (MergeSaysAll).                       *)
(***************************************************************************)
EXTENDS MemArchive, ListsProofs

Payload(a) == Database(a) /\ Unique(a)

\* What a write of another client may do: the project stays sound, and no row comes
\* or comes to life but at the next rowid.
Follows(b, c) ==
    /\ Sound(c) /\ b.next <= c.next
    /\ \A i \in DOMAIN c.tables.rows :
         c.tables.rows[i].live /\ i < b.next => i \in DOMAIN b.tables.rows /\ b.tables.rows[i].live

DbOK == DOMAIN db = Projects /\ \A p \in Projects : Sound(db[p])

ExportOK ==
    /\ DOMAIN ex = {"pc", "project", "table", "seed", "read"}
    /\ ex.pc \in {"idle", "dump", "write", "rename"}
    /\ ex.pc = "dump" => ex.project \in Projects /\ ex.table \in 1..9
    /\ Payload(ex.read)

ArchiveFile(f) == f \in {None, Torn} \/ Payload(f.payload)

\* Between the transaction and the answer other clients may write; the rows the
\* import is about are those below the rowid it left behind.
ImportOK ==
    /\ DOMAIN im = {"pc", "project", "mode", "payload", "before", "offered", "skipped", "answer"}
    /\ im.pc \in {"idle", "apply", "requeue", "answered"} /\ im.before \in Nat
    /\ Payload(im.payload)
    /\ im.answer # "refused"
    /\ im.pc \in {"apply", "requeue"} => im.project \in Projects /\ im.answer = "none"
    /\ im.pc = "apply" => im.mode \in {"merge", "replace"}
    /\ im.pc = "requeue" => im.before <= db[im.project].next
    /\ im.answer = "ok" =>
         /\ im.project \in Projects /\ im.before <= db[im.project].next
         /\ im.skipped \/ \A i \in DOMAIN db[im.project].tables.rows :
              db[im.project].tables.rows[i].live /\ i < im.before => i \in im.offered

ArchiveInv == DbOK /\ ExportOK /\ ArchiveFile(tmp) /\ ArchiveFile(file) /\ ImportOK

------------------------------------------------------------------------------
(* Types. *)

LEMMA FieldNames ==
    Range(Tables) = {"sessions", "rows", "prompts", "facts", "relations", "names",
                     "mentions", "edges"}
<1>1. DOMAIN Tables = 1..8
  BY DEF Tables
<1>2. /\ Tables[1] = "sessions" /\ Tables[2] = "rows" /\ Tables[3] = "prompts"
      /\ Tables[4] = "facts" /\ Tables[5] = "relations" /\ Tables[6] = "names"
      /\ Tables[7] = "mentions" /\ Tables[8] = "edges"
  BY DEF Tables
<1>3. \A i \in 1..8 : i = 1 \/ i = 2 \/ i = 3 \/ i = 4 \/ i = 5 \/ i = 6 \/ i = 7 \/ i = 8
  OBVIOUS
<1> HIDE DEF Tables
<1> QED BY <1>1, <1>2, <1>3 DEF Range

LEMMA RowsHaveTypes ==
    ASSUME NEW d, Database(d)
    PROVE  /\ \A i \in DOMAIN d.rows : i \in 1..MaxRow /\ d.rows[i] \in Row
           /\ \A e \in DOMAIN d.edges : d.edges[e] \in Edge
           /\ MaxRow \in Nat
BY ArchiveAssumption DEF Database, Range

LEMMA EmptyIsPayload == Payload(Nothing) /\ ForeignKeys(Nothing)
<1>1. DOMAIN Nothing = Range(Tables)
  BY FieldNames DEF Nothing
<1>2. /\ DOMAIN Nothing.rows = {} /\ Range(Nothing.rows) = {} /\ Nothing.facts = << >>
      /\ DOMAIN Nothing.edges = {} /\ Range(Nothing.edges) = {} /\ Nothing.names = << >>
      /\ Nothing.sessions = {} /\ Nothing.prompts = {} /\ Nothing.relations = {}
      /\ Nothing.mentions = {} /\ Range(Nothing.facts) = {} /\ DOMAIN Nothing.names = {}
  BY DEF Nothing, Range
<1> HIDE DEF Nothing
<1> QED BY <1>1, <1>2 DEF Payload, Database, Unique, ForeignKeys

------------------------------------------------------------------------------
(* The maps from the archive's ids to those of the project. *)

\* Updated rows keep the id of the row with their sync_id, new ones get ids of their own.
MapOK(base, a, map) ==
    /\ DOMAIN map = DOMAIN a.rows
    /\ Cardinality(New(base.tables, a)) \in Nat
    /\ \A k \in DOMAIN a.rows :
         /\ map[k] \in Nat \ {0}
         /\ IF k \in New(base.tables, a)
            THEN base.next <= map[k] /\ map[k] < base.next + Cardinality(New(base.tables, a))
            ELSE map[k] \in RowsOf(base.tables, a.rows[k].sync)
    /\ \A k, l \in DOMAIN a.rows : map[k] = map[l] => k = l

LEMMA RowMapOK ==
    ASSUME NEW base, Sound(base), NEW a, Payload(a)
    PROVE  MapOK(base, a, RowMap(base.tables, base.next, a))
<1> DEFINE d == base.tables
           N == New(d, a)
           R == {e \in N \X N : e[1] < e[2]}
<1>1. PICK map : map = RowMap(d, base.next, a)
  OBVIOUS
<1>2. /\ base.next \in Nat \ {0} /\ MaxRow \in Nat
      /\ \A i \in DOMAIN d.rows : i \in Nat \ {0} /\ i < base.next
      /\ \A k \in DOMAIN a.rows : k \in 1..MaxRow
  BY RowsHaveTypes DEF Sound, Payload
<1>3. N \in SUBSET (1..MaxRow) /\ N \subseteq DOMAIN a.rows
  BY <1>2 DEF New
<1>4. IsFiniteSet(N)
  <2>1. IsFiniteSet(1..MaxRow)
    BY <1>2, FS_Interval
  <2> QED BY <1>3, <2>1, FS_Subset
<1>5. \A x, y \in N : <<x, y>> \in R <=> x < y
  OBVIOUS
<1>6. StrictOrder(N, R)
  <2> HIDE DEF N, R
  <2> QED BY <1>2, <1>3, <1>5 DEF StrictOrder
<1>7. \A k \in N : Cardinality({j \in N : j < k}) = Rank(N, R, k)
  <2> SUFFICES ASSUME NEW k \in N PROVE Cardinality({j \in N : j < k}) = Rank(N, R, k)
    OBVIOUS
  <2>1. {j \in N : j < k} = {y \in N : <<y, k>> \in R}
    <3> HIDE DEF N, R
    <3> QED BY <1>5
  <2> QED BY <2>1 DEF Rank, Below
<1>8. Cardinality(N) \in Nat /\ \A k \in N : Rank(N, R, k) \in 0..(Cardinality(N) - 1)
  BY <1>4, <1>6, RankOrder, FS_CardinalityType
<1>9. /\ DOMAIN map = DOMAIN a.rows
      /\ \A k \in DOMAIN a.rows :
           map[k] = IF k \in N THEN base.next + Cardinality({j \in N : j < k})
                    ELSE CHOOSE i \in RowsOf(d, a.rows[k].sync) : TRUE
  BY <1>1 DEF RowMap
<1>10. \A k \in DOMAIN a.rows : k \notin N => RowsOf(d, a.rows[k].sync) # {}
  BY DEF New
<1> HIDE DEF N, R
<1>11. \A k \in N : map[k] = base.next + Rank(N, R, k)
  BY <1>3, <1>7, <1>9
<1>12. \A k \in DOMAIN a.rows : k \notin N => map[k] \in RowsOf(d, a.rows[k].sync)
  BY <1>9, <1>10
<1>13. \A k \in DOMAIN a.rows : k \notin N =>
         map[k] \in DOMAIN d.rows /\ d.rows[map[k]].sync = a.rows[k].sync
  BY <1>12 DEF RowsOf
<1>14. ASSUME NEW k \in DOMAIN a.rows
       PROVE  /\ map[k] \in Nat \ {0}
              /\ IF k \in N
                 THEN base.next <= map[k] /\ map[k] < base.next + Cardinality(N)
                 ELSE map[k] \in RowsOf(d, a.rows[k].sync)
  BY <1>2, <1>8, <1>11, <1>12, <1>13
<1>15. ASSUME NEW k \in DOMAIN a.rows, NEW l \in DOMAIN a.rows, map[k] = map[l]
       PROVE  k = l
  <2>1. CASE k \in N /\ l \in N
    <3>1. Rank(N, R, k) = Rank(N, R, l)
      BY <1>2, <1>8, <1>11, <1>15, <2>1
    <3> QED BY <1>4, <1>6, <2>1, <3>1, RankIsOne
  <2>2. CASE k \notin N /\ l \notin N
    <3>1. a.rows[k].sync = a.rows[l].sync
      BY <1>13, <1>15, <2>2
    <3> QED BY <3>1 DEF Payload, Unique
  <2>3. CASE (k \in N) # (l \in N)
    BY <1>2, <1>13, <1>14, <1>15, <2>3
  <2> QED BY <2>1, <2>2, <2>3
<1>16. N = New(base.tables, a)
  BY DEF N
<1>17. \A k, l \in DOMAIN a.rows : map[k] = map[l] => k = l
  BY <1>15
<1>18. MapOK(base, a, map)
  BY <1>8, <1>9, <1>14, <1>16, <1>17 DEF MapOK
<1> QED BY <1>1, <1>18

\* Entities of the archive keep their names under the new ids, those of the project
\* their ids.
EntitiesOK(names, a, all, ents) ==
    /\ all \in Seq(Names)
    /\ \A i \in DOMAIN names : i \in DOMAIN all /\ all[i] = names[i]
    /\ \A i, j \in DOMAIN all : all[i] = all[j] => i = j
    /\ \A i \in DOMAIN all : all[i] \in Range(names) \cup Range(a.names)
    /\ DOMAIN ents = DOMAIN a.names
    /\ \A k \in DOMAIN a.names : ents[k] \in DOMAIN all /\ all[ents[k]] = a.names[k]

LEMMA EntityMapOK ==
    ASSUME NEW d, Payload(d), NEW a, Payload(a)
    PROVE  EntitiesOK(d.names, a, MergedNames(d.names, a), EntityMap(d.names, a))
<1>1. PICK names : names = d.names
  OBVIOUS
<1>2. PICK more : more = a.names
  OBVIOUS
<1>a. PICK unknown : unknown = Range(more) \ Range(names)
  OBVIOUS
<1>3. PICK sifted : sifted = Sift(more, unknown)
  OBVIOUS
<1>4. /\ names \in Seq(Names) /\ \A i, j \in DOMAIN names : names[i] = names[j] => i = j
      /\ more \in Seq(Names) /\ \A i, j \in DOMAIN more : more[i] = more[j] => i = j
  BY <1>1, <1>2 DEF Payload, Database, Unique
<1>b. sifted \in Seq(Names) /\ \E at : SiftedFrom(more, unknown, sifted, at)
  BY <1>3, <1>4, SiftProperties
<1>c. PICK at : SiftedFrom(more, unknown, sifted, at)
  BY <1>b
<1>5. /\ at \in [1..Len(sifted) -> {i \in DOMAIN more : more[i] \in unknown}]
      /\ \A k, l \in 1..Len(sifted) : at[k] = at[l] => k = l
      /\ \A i \in DOMAIN more : more[i] \in unknown => \E k \in 1..Len(sifted) : at[k] = i
      /\ sifted \in Seq(Names)
      /\ \A k \in 1..Len(sifted) : sifted[k] = more[at[k]]
  BY <1>b, <1>c DEF SiftedFrom
<1>6. PICK all : all = names \o sifted
  OBVIOUS
<1>7. /\ all \in Seq(Names) /\ Len(all) = Len(names) + Len(sifted)
      /\ \A i \in 1..Len(names) : all[i] = names[i]
      /\ \A i \in 1..Len(sifted) : all[Len(names) + i] = sifted[i]
      /\ Len(names) \in Nat /\ DOMAIN names = 1..Len(names)
      /\ Len(sifted) \in Nat /\ DOMAIN sifted = 1..Len(sifted)
      /\ DOMAIN all = 1..Len(all)
  BY <1>4, <1>5, <1>6
<1>8. \A i \in DOMAIN all : i \in DOMAIN names \/ \E k \in 1..Len(sifted) : i = Len(names) + k
  <2> SUFFICES ASSUME NEW i \in DOMAIN all, i \notin DOMAIN names
               PROVE  i - Len(names) \in 1..Len(sifted) /\ i = Len(names) + (i - Len(names))
    OBVIOUS
  <2> QED BY <1>7
<1>9. \A k \in 1..Len(sifted) :
        /\ at[k] \in DOMAIN more /\ sifted[k] = more[at[k]]
        /\ more[at[k]] \in Range(more) /\ more[at[k]] \notin Range(names)
  BY <1>a, <1>5
<1>10. \A i \in DOMAIN names : names[i] \in Range(names)
  BY DEF Range
<1>11. ASSUME NEW i \in DOMAIN all, NEW j \in DOMAIN all, all[i] = all[j]
       PROVE  i = j
  <2>1. CASE i \in DOMAIN names /\ j \in DOMAIN names
    BY <1>4, <1>7, <1>11, <2>1
  <2>2. CASE i \in DOMAIN names /\ j \notin DOMAIN names
    <3>1. PICK l \in 1..Len(sifted) : j = Len(names) + l
      BY <1>8, <2>2
    <3> QED BY <1>7, <1>9, <1>10, <1>11, <2>2, <3>1
  <2>3. CASE i \notin DOMAIN names /\ j \in DOMAIN names
    <3>1. PICK l \in 1..Len(sifted) : i = Len(names) + l
      BY <1>8, <2>3
    <3> QED BY <1>7, <1>9, <1>10, <1>11, <2>3, <3>1
  <2>4. CASE i \notin DOMAIN names /\ j \notin DOMAIN names
    <3>1. PICK k \in 1..Len(sifted) : i = Len(names) + k
      BY <1>8, <2>4
    <3>2. PICK l \in 1..Len(sifted) : j = Len(names) + l
      BY <1>8, <2>4
    <3>3. more[at[k]] = more[at[l]]
      BY <1>7, <1>9, <1>11, <3>1, <3>2
    <3>4. at[k] = at[l]
      BY <1>4, <1>9, <3>3
    <3>5. k = l
      BY <1>5, <3>4
    <3> QED BY <3>1, <3>2, <3>5
  <2> QED BY <2>1, <2>2, <2>3, <2>4
<1>12. ASSUME NEW i \in DOMAIN all
       PROVE  all[i] \in Range(names) \cup Range(more)
  <2>1. CASE i \in DOMAIN names
    BY <1>7, <1>10, <2>1
  <2>2. CASE i \notin DOMAIN names
    <3>1. PICK k \in 1..Len(sifted) : i = Len(names) + k
      BY <1>8, <2>2
    <3> QED BY <1>7, <1>9, <3>1
  <2> QED BY <2>1, <2>2
<1>13. ASSUME NEW k \in DOMAIN more
       PROVE  \E i \in DOMAIN all : all[i] = more[k]
  <2>1. CASE more[k] \in Range(names)
    <3>1. PICK i \in DOMAIN names : names[i] = more[k]
      BY <2>1 DEF Range
    <3>2. i \in DOMAIN all /\ all[i] = more[k]
      BY <1>7, <3>1
    <3> QED BY <3>2
  <2>2. CASE more[k] \notin Range(names)
    <3>1. more[k] \in unknown
      BY <1>a, <2>2 DEF Range
    <3>2. PICK j \in 1..Len(sifted) : at[j] = k
      BY <1>5, <3>1
    <3>3. sifted[j] = more[k]
      BY <1>5, <3>2
    <3>4. Len(names) + j \in DOMAIN all /\ all[Len(names) + j] = more[k]
      BY <1>7, <3>3
    <3> QED BY <3>4
  <2> QED BY <2>1, <2>2
<1>14. PICK ents : ents = EntityMap(names, a)
  OBVIOUS
<1>15. all = MergedNames(names, a)
  BY <1>2, <1>a, <1>3, <1>6 DEF MergedNames
<1>16. /\ DOMAIN ents = DOMAIN more
       /\ \A k \in DOMAIN more : ents[k] = CHOOSE i \in DOMAIN all : all[i] = more[k]
  BY <1>2, <1>14, <1>15 DEF EntityMap
<1>17. \A k \in DOMAIN more : ents[k] \in DOMAIN all /\ all[ents[k]] = more[k]
  BY <1>13, <1>16
<1>18. \A i \in DOMAIN names : i \in DOMAIN all /\ all[i] = names[i]
  BY <1>7
<1>19. EntitiesOK(names, a, all, ents)
  BY <1>2, <1>7, <1>11, <1>12, <1>16, <1>17, <1>18 DEF EntitiesOK
<1> QED BY <1>1, <1>14, <1>15, <1>19

------------------------------------------------------------------------------
(* The merged tables. *)

\* A merged row is the archive's under the id that the map gives it, or one of the
\* project's that the archive does not know.
MergedRowsOK(base, a, map, rows) ==
    /\ DOMAIN rows = DOMAIN base.tables.rows \cup Range(map)
    /\ \A k \in DOMAIN a.rows : map[k] \in DOMAIN rows /\ rows[map[k]] = a.rows[k]
    /\ \A i \in DOMAIN rows :
         \/ \E k \in DOMAIN a.rows : i = map[k]
         \/ /\ i \in DOMAIN base.tables.rows /\ rows[i] = base.tables.rows[i]
            /\ \A k \in DOMAIN a.rows : a.rows[k].sync # rows[i].sync

LEMMA RowsAreMerged ==
    ASSUME NEW base, Sound(base), NEW a, Payload(a), NEW map, MapOK(base, a, map)
    PROVE  MergedRowsOK(base, a, map, MergedRows(base.tables, a, map))
<1> DEFINE d == base.tables
<1>1. PICK rows : rows = MergedRows(d, a, map)
  OBVIOUS
<1>2. /\ DOMAIN rows = DOMAIN d.rows \cup Range(map)
      /\ \A i \in DOMAIN d.rows \cup Range(map) :
           rows[i] = IF i \in Range(map) THEN a.rows[CHOOSE k \in DOMAIN map : map[k] = i]
                     ELSE d.rows[i]
  BY <1>1 DEF MergedRows
<1>3. DOMAIN map = DOMAIN a.rows /\ \A k, l \in DOMAIN a.rows : map[k] = map[l] => k = l
  BY DEF MapOK
<1>4. ASSUME NEW k \in DOMAIN a.rows
      PROVE  map[k] \in DOMAIN rows /\ rows[map[k]] = a.rows[k]
  <2>1. map[k] \in Range(map)
    BY <1>3 DEF Range
  <2>2. (CHOOSE l \in DOMAIN map : map[l] = map[k]) = k
    BY <1>3
  <2> QED BY <1>2, <2>1, <2>2
<1>5. ASSUME NEW i \in DOMAIN rows, ~\E k \in DOMAIN a.rows : i = map[k]
      PROVE  /\ i \in DOMAIN d.rows /\ rows[i] = d.rows[i]
             /\ \A k \in DOMAIN a.rows : a.rows[k].sync # rows[i].sync
  <2>1. i \notin Range(map)
    BY <1>3, <1>5 DEF Range
  <2>2. i \in DOMAIN d.rows /\ rows[i] = d.rows[i]
    BY <1>2, <2>1
  <2>3. ASSUME NEW k \in DOMAIN a.rows, a.rows[k].sync = rows[i].sync PROVE FALSE
    <3>1. i \in RowsOf(d, a.rows[k].sync)
      BY <2>2, <2>3 DEF RowsOf
    <3>2. k \notin New(d, a)
      BY <3>1 DEF New
    <3>3. map[k] \in RowsOf(d, a.rows[k].sync)
      BY <3>2 DEF MapOK
    <3>4. map[k] = i
      BY <3>1, <3>3 DEF RowsOf, Sound, Unique
    <3> QED BY <1>5, <3>4
  <2> QED BY <2>2, <2>3
<1>6. MergedRowsOK(base, a, map, rows)
  BY <1>2, <1>4, <1>5 DEF MergedRowsOK
<1> QED BY <1>1, <1>6

\* The merged rows have the types, ids and sync_ids of a project's.
LEMMA MergedRowsSound ==
    ASSUME NEW base, Sound(base), NEW a, Payload(a), NEW map, MapOK(base, a, map),
           NEW rows, MergedRowsOK(base, a, map, rows),
           base.next + Cardinality(New(base.tables, a)) <= MaxRow + 1
    PROVE  /\ DOMAIN rows \subseteq 1..MaxRow /\ Range(rows) \subseteq Row
           /\ \A i \in DOMAIN rows : i < base.next + Cardinality(New(base.tables, a))
           /\ \A i, j \in DOMAIN rows : rows[i].sync = rows[j].sync => i = j
           /\ \A i \in DOMAIN rows :
                rows[i].session \in base.tables.sessions \cup NamedSessions(a)
           /\ \A k \in DOMAIN a.rows :
                map[k] \in 1..MaxRow /\ map[k] < base.next + Cardinality(New(base.tables, a))
<1> DEFINE d == base.tables
           next == base.next + Cardinality(New(d, a))
<1>1. /\ MaxRow \in Nat /\ base.next \in Nat
      /\ \A i \in DOMAIN d.rows : i \in 1..MaxRow /\ i < base.next /\ d.rows[i] \in Row
      /\ \A k \in DOMAIN a.rows : a.rows[k] \in Row
  BY RowsHaveTypes DEF Sound, Payload
<1>2. Cardinality(New(d, a)) \in Nat
  BY DEF MapOK
<1>3. ASSUME NEW k \in DOMAIN a.rows
      PROVE  map[k] \in 1..MaxRow /\ map[k] < next
  <2>1. CASE k \in New(d, a)
    BY <1>1, <1>2, <2>1 DEF MapOK
  <2>2. CASE k \notin New(d, a)
    <3>1. map[k] \in DOMAIN d.rows
      BY <2>2 DEF MapOK, RowsOf
    <3> QED BY <1>1, <1>2, <3>1
  <2> QED BY <2>1, <2>2
<1>4. ASSUME NEW i \in DOMAIN rows
      PROVE  /\ i \in 1..MaxRow /\ rows[i] \in Row /\ i < next
             /\ rows[i].session \in d.sessions \cup NamedSessions(a)
  <2>1. CASE \E k \in DOMAIN a.rows : i = map[k]
    <3>1. PICK k \in DOMAIN a.rows : i = map[k]
      BY <2>1
    <3>2. rows[i] = a.rows[k]
      BY <3>1 DEF MergedRowsOK
    <3>3. a.rows[k].session \in NamedSessions(a)
      BY DEF NamedSessions
    <3> QED BY <1>1, <1>3, <3>1, <3>2, <3>3
  <2>2. CASE ~\E k \in DOMAIN a.rows : i = map[k]
    <3>1. i \in DOMAIN d.rows /\ rows[i] = d.rows[i]
      BY <2>2 DEF MergedRowsOK
    <3>2. d.rows[i].session \in d.sessions
      BY <3>1 DEF Sound, ForeignKeys
    <3> QED BY <1>1, <1>2, <3>1, <3>2
  <2> QED BY <2>1, <2>2
<1>5. ASSUME NEW i \in DOMAIN rows, NEW j \in DOMAIN rows, rows[i].sync = rows[j].sync
      PROVE  i = j
  <2>1. CASE (\E k \in DOMAIN a.rows : i = map[k]) /\ (\E k \in DOMAIN a.rows : j = map[k])
    <3>1. PICK k \in DOMAIN a.rows : i = map[k]
      BY <2>1
    <3>2. PICK l \in DOMAIN a.rows : j = map[l]
      BY <2>1
    <3>3. a.rows[k].sync = a.rows[l].sync
      BY <1>5, <3>1, <3>2 DEF MergedRowsOK
    <3>4. k = l
      BY <3>3 DEF Payload, Unique
    <3> QED BY <3>1, <3>2, <3>4
  <2>2. CASE ~(\E k \in DOMAIN a.rows : i = map[k]) /\ ~(\E k \in DOMAIN a.rows : j = map[k])
    <3>1. /\ i \in DOMAIN d.rows /\ rows[i] = d.rows[i]
          /\ j \in DOMAIN d.rows /\ rows[j] = d.rows[j]
      BY <2>2 DEF MergedRowsOK
    <3> QED BY <1>5, <3>1 DEF Sound, Unique
  <2>3. CASE (\E k \in DOMAIN a.rows : i = map[k]) /\ ~(\E k \in DOMAIN a.rows : j = map[k])
    <3>1. PICK k \in DOMAIN a.rows : i = map[k]
      BY <2>3
    <3> QED BY <1>5, <2>3, <3>1 DEF MergedRowsOK
  <2>4. CASE ~(\E k \in DOMAIN a.rows : i = map[k]) /\ (\E k \in DOMAIN a.rows : j = map[k])
    <3>1. PICK k \in DOMAIN a.rows : j = map[k]
      BY <2>4
    <3> QED BY <1>5, <2>4, <3>1 DEF MergedRowsOK
  <2> QED BY <2>1, <2>2, <2>3, <2>4
<1>6. DOMAIN rows \subseteq 1..MaxRow /\ Range(rows) \subseteq Row
  BY <1>4 DEF Range
<1> QED BY <1>3, <1>4, <1>5, <1>6

\* Merged facts are those of the project, and then those of the archive whose row it
\* has, each on the row that the map says.
Facts == [row : 1..MaxRow, text : Texts]

MergedFactsOK(d, a, map, facts, at) ==
    /\ facts \in Seq(Facts) /\ Len(facts) >= Len(d.facts)
    /\ \A k \in 1..Len(d.facts) : facts[k] = d.facts[k]
    /\ at \in [1..(Len(facts) - Len(d.facts)) -> {i \in DOMAIN a.facts : a.facts[i].row \in DOMAIN map}]
    /\ \A k, l \in 1..(Len(facts) - Len(d.facts)) : at[k] = at[l] => k = l
    /\ \A i \in DOMAIN a.facts :
         a.facts[i].row \in DOMAIN map => \E k \in 1..(Len(facts) - Len(d.facts)) : at[k] = i
    /\ \A k \in 1..(Len(facts) - Len(d.facts)) :
         /\ facts[Len(d.facts) + k].row = map[a.facts[at[k]].row]
         /\ facts[Len(d.facts) + k].text = a.facts[at[k]].text

LEMMA FactsAreMerged ==
    ASSUME NEW d, Database(d), NEW a, Database(a), NEW map,
           \A k \in DOMAIN map : map[k] \in 1..MaxRow
    PROVE  \E at : MergedFactsOK(d, a, map, MergedFacts(d, a, map), at)
<1>1. PICK known : known = {f \in Range(a.facts) : f.row \in DOMAIN map}
  OBVIOUS
<1>2. PICK kept : kept = Sift(a.facts, known)
  OBVIOUS
<1>3. d.facts \in Seq(Facts) /\ a.facts \in Seq(Facts)
  BY DEF Database, Facts
<1>4. kept \in Seq(Facts) /\ \E at : SiftedFrom(a.facts, known, kept, at)
  BY <1>2, <1>3, SiftProperties
<1>5. PICK at : SiftedFrom(a.facts, known, kept, at)
  BY <1>4
<1>6. \A i \in DOMAIN a.facts : a.facts[i] \in known <=> a.facts[i].row \in DOMAIN map
  BY <1>1 DEF Range
<1>7. /\ at \in [1..Len(kept) -> {i \in DOMAIN a.facts : a.facts[i].row \in DOMAIN map}]
      /\ \A k, l \in 1..Len(kept) : at[k] = at[l] => k = l
      /\ \A i \in DOMAIN a.facts :
           a.facts[i].row \in DOMAIN map => \E k \in 1..Len(kept) : at[k] = i
      /\ \A k \in 1..Len(kept) : kept[k] = a.facts[at[k]]
  <2>1. {i \in DOMAIN a.facts : a.facts[i] \in known}
          = {i \in DOMAIN a.facts : a.facts[i].row \in DOMAIN map}
    BY <1>6
  <2> QED BY <1>5, <1>6, <2>1 DEF SiftedFrom
<1>8. PICK moved : moved = [k \in DOMAIN kept |-> [kept[k] EXCEPT !.row = map[kept[k].row]]]
  OBVIOUS
<1>9. Len(kept) \in Nat /\ DOMAIN kept = 1..Len(kept) /\ \A k \in 1..Len(kept) : kept[k] \in Facts
  BY <1>4
<1>10. \A k \in 1..Len(kept) : /\ kept[k].row \in DOMAIN map
                                /\ moved[k] = [kept[k] EXCEPT !.row = map[kept[k].row]]
  BY <1>7, <1>8, <1>9
<1>11. \A k \in 1..Len(kept) : moved[k] \in Facts
  BY <1>9, <1>10 DEF Facts
<1>12. moved \in Seq(Facts) /\ Len(moved) = Len(kept)
  BY <1>8, <1>9, <1>11
<1>13. PICK facts : facts = d.facts \o moved
  OBVIOUS
<1>14. facts = MergedFacts(d, a, map)
  BY <1>1, <1>2, <1>8, <1>13 DEF MergedFacts
<1>15. /\ facts \in Seq(Facts) /\ Len(facts) = Len(d.facts) + Len(kept) /\ Len(d.facts) \in Nat
       /\ \A k \in 1..Len(d.facts) : facts[k] = d.facts[k]
       /\ \A k \in 1..Len(kept) : facts[Len(d.facts) + k] = moved[k]
  BY <1>3, <1>12, <1>13
<1>16. Len(facts) - Len(d.facts) = Len(kept) /\ Len(facts) >= Len(d.facts)
  BY <1>9, <1>15
<1>17. \A k \in 1..Len(kept) :
         /\ facts[Len(d.facts) + k].row = map[a.facts[at[k]].row]
         /\ facts[Len(d.facts) + k].text = a.facts[at[k]].text
  <2> SUFFICES ASSUME NEW k \in 1..Len(kept)
               PROVE  /\ facts[Len(d.facts) + k].row = map[a.facts[at[k]].row]
                      /\ facts[Len(d.facts) + k].text = a.facts[at[k]].text
    OBVIOUS
  <2>1. /\ kept[k] = a.facts[at[k]] /\ kept[k] \in Facts
        /\ moved[k] = [kept[k] EXCEPT !.row = map[kept[k].row]]
        /\ facts[Len(d.facts) + k] = moved[k]
    BY <1>7, <1>9, <1>10, <1>15
  <2>2. moved[k].row = map[kept[k].row] /\ moved[k].text = kept[k].text
    BY <2>1 DEF Facts
  <2> QED BY <2>1, <2>2
<1>18. MergedFactsOK(d, a, map, facts, at)
  BY <1>7, <1>15, <1>16, <1>17 DEF MergedFactsOK
<1> QED BY <1>14, <1>18

\* They have their type, and a row.
LEMMA MergedFactsSound ==
    ASSUME NEW base, Sound(base), NEW a, Database(a), NEW map, NEW rows,
           MergedRowsOK(base, a, map, rows), DOMAIN map = DOMAIN a.rows,
           NEW facts, NEW at, MergedFactsOK(base.tables, a, map, facts, at)
    PROVE  facts \in Seq(Facts) /\ \A f \in Range(facts) : f.row \in DOMAIN rows
<1> DEFINE d == base.tables
           n == Len(d.facts)
<1>1. /\ facts \in Seq(Facts) /\ DOMAIN facts = 1..Len(facts) /\ Len(facts) \in Nat
      /\ d.facts \in Seq(Facts) /\ a.facts \in Seq(Facts) /\ n \in Nat /\ n <= Len(facts)
      /\ DOMAIN d.facts = 1..n
  BY DEF MergedFactsOK, Sound, Database, Facts
<1>2. ASSUME NEW k \in DOMAIN facts PROVE facts[k].row \in DOMAIN rows
  <2>1. CASE k <= n
    <3>1. k \in 1..n /\ facts[k] = d.facts[k]
      BY <1>1, <2>1 DEF MergedFactsOK
    <3>2. d.facts[k] \in Range(d.facts)
      BY <1>1, <3>1 DEF Range
    <3>3. d.facts[k].row \in DOMAIN d.rows
      BY <3>2 DEF Sound, ForeignKeys
    <3> QED BY <3>1, <3>3 DEF MergedRowsOK
  <2>2. CASE ~(k <= n)
    <3>1. PICK l : l = k - n
      OBVIOUS
    <3>a. k \in 1..Len(facts) /\ Len(facts) \in Nat /\ n \in Nat
      BY <1>1
    <3>2. l \in 1..(Len(facts) - n) /\ k = n + l
      <4> HIDE DEF n
      <4> QED BY <2>2, <3>a, <3>1
    <3>3. /\ at[l] \in DOMAIN a.facts /\ a.facts[at[l]].row \in DOMAIN map
          /\ facts[k].row = map[a.facts[at[l]].row]
      BY <3>2 DEF MergedFactsOK
    <3>4. a.facts[at[l]].row \in DOMAIN a.rows
      BY <3>3
    <3>5. map[a.facts[at[l]].row] \in DOMAIN rows
      BY <3>4 DEF MergedRowsOK
    <3> QED BY <3>3, <3>5
  <2> QED BY <2>1, <2>2
<1> QED BY <1>1, <1>2 DEF Range

\* Merged relations and mentions connect rows, and entities, of the merged tables.
LEMMA MergedRelationsSound ==
    ASSUME NEW base, Sound(base), NEW a, NEW map, NEW rows,
           MergedRowsOK(base, a, map, rows), DOMAIN map = DOMAIN a.rows,
           \A k \in DOMAIN map : map[k] \in 1..MaxRow,
           NEW r \in MergedRelations(base.tables, a, map)
    PROVE  r \in (1..MaxRow) \X (1..MaxRow) /\ {r[1], r[2]} \subseteq DOMAIN rows
<1>1. CASE r \in base.tables.relations
  <2>1. {r[1], r[2]} \subseteq DOMAIN base.tables.rows
    BY <1>1 DEF Sound, ForeignKeys
  <2>2. r \in (1..MaxRow) \X (1..MaxRow)
    BY <1>1 DEF Sound, Database
  <2> QED BY <2>1, <2>2 DEF MergedRowsOK
<1>2. CASE r \notin base.tables.relations
  <2>1. PICK x \in a.relations : /\ {x[1], x[2]} \subseteq DOMAIN map
                                 /\ r = <<map[x[1]], map[x[2]]>>
    BY <1>2 DEF MergedRelations
  <2>2. x[1] \in DOMAIN map /\ x[2] \in DOMAIN map
    BY <2>1
  <2>3. map[x[1]] \in DOMAIN rows /\ map[x[2]] \in DOMAIN rows
    BY <2>2 DEF MergedRowsOK
  <2> QED BY <2>1, <2>2, <2>3
<1> QED BY <1>1, <1>2

LEMMA MergedMentionsSound ==
    ASSUME NEW base, Sound(base), NEW a, NEW n \in Nat, base.next <= n,
           NEW map, \A k \in DOMAIN map : map[k] \in 1..MaxRow /\ map[k] < n,
           NEW all, NEW ents, EntitiesOK(base.tables.names, a, all, ents),
           NEW m \in MergedMentions(base.tables, a, ents, map)
    PROVE  m \in Nat \X (1..MaxRow) /\ m[1] \in DOMAIN all /\ m[2] < n
<1>1. CASE m \in base.tables.mentions
  <2>1. m[1] \in DOMAIN base.tables.names /\ m \in Nat \X (1..MaxRow)
    BY <1>1 DEF Sound, ForeignKeys, Database
  <2>2. base.next \in Nat /\ m[2] \in Nat /\ m[2] < base.next
    <3>1. base.next \in 1..MaxRow + 1 /\ m[2] < base.next
      BY <1>1 DEF Sound
    <3> QED BY <2>1, <3>1, ArchiveAssumption
  <2>3. m[2] < n
    BY <2>2
  <2> QED BY <2>1, <2>3 DEF EntitiesOK
<1>2. CASE m \notin base.tables.mentions
  <2>1. PICK x \in a.mentions : /\ x[1] \in DOMAIN ents /\ x[2] \in DOMAIN map
                                /\ m = <<ents[x[1]], map[x[2]]>>
    BY <1>2 DEF MergedMentions
  <2>2. ents[x[1]] \in DOMAIN all /\ all \in Seq(Names)
    BY <2>1 DEF EntitiesOK
  <2>3. ents[x[1]] \in Nat
    BY <2>2
  <2> QED BY <2>1, <2>2, <2>3
<1> QED BY <1>1, <1>2

\* Merged edges connect entities of the merged tables, and weigh what they should.
EdgesOK(edges, all) ==
    /\ \A e \in DOMAIN edges : e \in Nat \X Nat /\ e[1] # e[2]
    /\ Range(edges) \subseteq Edge
    /\ \A e \in DOMAIN edges : {e[1], e[2]} \subseteq DOMAIN all

LEMMA MergedEdgesSound ==
    ASSUME NEW base, Sound(base), NEW a, Payload(a), NEW map, MaxRow \in Nat,
           \A k \in DOMAIN map : map[k] \in 1..MaxRow,
           NEW all, NEW ents, EntitiesOK(base.tables.names, a, all, ents),
           NEW edges, edges = MergedEdges(base.tables, a, ents, map)
    PROVE  EdgesOK(edges, all)
<1> DEFINE d == base.tables
           known == {e \in DOMAIN a.edges : {e[1], e[2]} \subseteq DOMAIN ents /\ e[1] # e[2]}
           at == [e \in known |-> <<ents[e[1]], ents[e[2]]>>]
           src(e) == IF a.edges[e].row \in DOMAIN map THEN map[a.edges[e].row] ELSE 0
           Chosen(p) == CHOOSE x \in known : at[x] = p
           Sum(p, e) == [weight |-> d.edges[p].weight + a.edges[e].weight,
                         row    |-> IF src(e) = 0 THEN d.edges[p].row ELSE src(e)]
           Alone(e) == [weight |-> a.edges[e].weight, row |-> src(e)]
<1>1. all \in Seq(Names) /\ DOMAIN all \subseteq Nat /\ \A k \in DOMAIN ents : ents[k] \in DOMAIN all
  BY DEF EntitiesOK
<1>2. ASSUME NEW p \in Range(at)
      PROVE  \E e \in known : at[e] = p
  BY DEF Range
<1>3. ASSUME NEW e \in known
      PROVE  /\ at[e] \in Nat \X Nat /\ {at[e][1], at[e][2]} \subseteq DOMAIN all
             /\ at[e][1] # at[e][2] /\ e \in DOMAIN a.edges
  <2>1. \A i, j \in DOMAIN ents : ents[i] = ents[j] => i = j
    <3>1. \A i \in DOMAIN ents : i \in DOMAIN a.names /\ all[ents[i]] = a.names[i]
      BY DEF EntitiesOK
    <3>2. \A i, j \in DOMAIN a.names : a.names[i] = a.names[j] => i = j
      BY DEF Payload, Unique
    <3> QED BY <3>1, <3>2
  <2> QED BY <1>1, <2>1
<1>4. ASSUME NEW e \in DOMAIN a.edges PROVE a.edges[e] \in Edge /\ src(e) \in 0..MaxRow
  BY RowsHaveTypes DEF Payload
<1>5. ASSUME NEW e \in DOMAIN d.edges
      PROVE  /\ d.edges[e] \in Edge /\ e \in Nat \X Nat /\ e[1] # e[2]
             /\ {e[1], e[2]} \subseteq DOMAIN all
  <2>1. d.edges[e] \in Edge /\ e \in Nat \X Nat /\ e[1] # e[2]
    BY RowsHaveTypes DEF Sound, Database
  <2>2. {e[1], e[2]} \subseteq DOMAIN d.names
    BY DEF Sound, ForeignKeys
  <2> QED BY <2>1, <2>2 DEF EntitiesOK
<1>6. /\ DOMAIN edges = DOMAIN d.edges \cup Range(at)
      /\ \A p \in DOMAIN d.edges \cup Range(at) :
           edges[p] = IF p \notin Range(at) THEN d.edges[p]
                      ELSE IF p \in DOMAIN d.edges THEN Sum(p, Chosen(p)) ELSE Alone(Chosen(p))
  BY DEF MergedEdges
<1> HIDE DEF known, at, src
<1>7. ASSUME NEW p \in DOMAIN edges
      PROVE  /\ p \in Nat \X Nat /\ p[1] # p[2]
             /\ {p[1], p[2]} \subseteq DOMAIN all /\ edges[p] \in Edge
  <2>1. CASE p \in Range(at)
    <3>1. PICK e : e = Chosen(p)
      OBVIOUS
    <3>2. e \in known /\ at[e] = p
      BY <1>2, <2>1, <3>1
    <3>3. /\ a.edges[e] \in Edge /\ src(e) \in 0..MaxRow /\ p \in Nat \X Nat
          /\ p[1] # p[2] /\ {p[1], p[2]} \subseteq DOMAIN all
      BY <1>3, <1>4, <3>2
    <3>4. CASE p \in DOMAIN d.edges
      <4>1. edges[p] = Sum(p, e)
        <5> HIDE DEF Sum, Alone, Chosen
        <5> QED BY <1>6, <2>1, <3>1, <3>4
      <4> HIDE DEF Chosen
      <4>2. d.edges[p] \in Edge
        BY <1>5, <3>4
      <4>3. Sum(p, e) \in Edge
        BY <3>3, <4>2 DEF Edge
      <4> HIDE DEF Sum
      <4> QED BY <3>3, <4>1, <4>3
    <3>5. CASE p \notin DOMAIN d.edges
      <4>1. edges[p] = Alone(e)
        <5> HIDE DEF Sum, Alone, Chosen
        <5> QED BY <1>6, <2>1, <3>1, <3>5
      <4> HIDE DEF Chosen
      <4>2. Alone(e) \in Edge
        BY <3>3 DEF Edge
      <4> HIDE DEF Alone
      <4> QED BY <3>3, <4>1, <4>2
    <3> QED BY <3>4, <3>5
  <2>2. CASE p \notin Range(at)
    BY <1>5, <1>6, <2>2
  <2> QED BY <2>1, <2>2
<1> QED BY <1>7 DEF Range, EdgesOK

------------------------------------------------------------------------------
(* The merge of any archive into a sound project is sound, if the rowids last. *)

LEMMA MergeSound ==
    ASSUME NEW base, Sound(base), NEW a, Payload(a), Merge(base, a).next <= MaxRow + 1
    PROVE  Sound(Merge(base, a))
<1> DEFINE d == base.tables
<1>1. PICK c : c = Merge(base, a)
  OBVIOUS
<1>2. PICK map : map = RowMap(d, base.next, a)
  OBVIOUS
<1>3. PICK ents : ents = EntityMap(d.names, a)
  OBVIOUS
<1>4. PICK all : all = MergedNames(d.names, a)
  OBVIOUS
<1>5. PICK rows : rows = MergedRows(d, a, map)
  OBVIOUS
<1>6. PICK edges : edges = MergedEdges(d, a, ents, map)
  OBVIOUS
<1>7. PICK facts : facts = MergedFacts(d, a, map)
  OBVIOUS
<1>8. /\ DOMAIN c = {"tables", "next"} /\ DOMAIN c.tables = Range(Tables)
      /\ c.tables.sessions = d.sessions \cup a.sessions \cup NamedSessions(a)
      /\ c.tables.rows = rows /\ c.tables.prompts = MergedPrompts(d, a)
      /\ c.tables.facts = facts /\ c.tables.relations = MergedRelations(d, a, map)
      /\ c.tables.names = all /\ c.tables.mentions = MergedMentions(d, a, ents, map)
      /\ c.tables.edges = edges
      /\ c.next = base.next + Cardinality(New(d, a))
  BY <1>1, <1>2, <1>3, <1>4, <1>5, <1>6, <1>7, FieldNames DEF Merge
<1>9. /\ MapOK(base, a, map) /\ DOMAIN map = DOMAIN a.rows
      /\ Cardinality(New(d, a)) \in Nat
  BY <1>2, RowMapOK DEF MapOK
<1>10. MergedRowsOK(base, a, map, rows)
  BY <1>5, <1>9, RowsAreMerged
<1>11. base.next + Cardinality(New(d, a)) <= MaxRow + 1
  BY <1>1, <1>8
<1>12. /\ DOMAIN rows \subseteq 1..MaxRow /\ Range(rows) \subseteq Row
       /\ \A i \in DOMAIN rows : i < c.next
       /\ \A i, j \in DOMAIN rows : rows[i].sync = rows[j].sync => i = j
       /\ \A i \in DOMAIN rows : rows[i].session \in c.tables.sessions
       /\ \A k \in DOMAIN map : map[k] \in 1..MaxRow /\ map[k] < c.next
  BY <1>8, <1>9, <1>10, <1>11, MergedRowsSound
<1>13. EntitiesOK(d.names, a, all, ents)
  BY <1>3, <1>4, EntityMapOK DEF Sound, Payload
<1>14. Database(d) /\ Database(a) /\ MaxRow \in Nat
  BY RowsHaveTypes DEF Sound, Payload
<1>15. facts \in Seq(Facts) /\ \A f \in Range(facts) : f.row \in DOMAIN rows
  <2>1. PICK at : MergedFactsOK(d, a, map, facts, at)
    BY <1>7, <1>12, <1>14, FactsAreMerged
  <2> QED BY <1>9, <1>10, <1>14, <2>1, MergedFactsSound
<1>16. \A r \in c.tables.relations :
         r \in (1..MaxRow) \X (1..MaxRow) /\ {r[1], r[2]} \subseteq DOMAIN rows
  BY <1>8, <1>9, <1>10, <1>12, MergedRelationsSound
<1>17. \A m \in c.tables.mentions :
         m \in Nat \X (1..MaxRow) /\ m[1] \in DOMAIN all /\ m[2] < c.next
  <2>1. /\ \A k \in DOMAIN map : map[k] \in 1..MaxRow /\ map[k] < c.next
        /\ EntitiesOK(base.tables.names, a, all, ents)
        /\ c.tables.mentions = MergedMentions(base.tables, a, ents, map)
    BY <1>8, <1>12, <1>13
  <2>2. base.next \in Nat
    BY ArchiveAssumption DEF Sound
  <2>3. c.next \in Nat /\ base.next <= c.next
    BY <1>8, <1>9, <2>2
  <2> HIDE DEF d
  <2> QED BY ONLY <2>1, <2>3, Sound(base), MergedMentionsSound
<1>18. /\ \A e \in DOMAIN edges : e \in Nat \X Nat /\ e[1] # e[2]
       /\ Range(edges) \subseteq Edge
       /\ \A e \in DOMAIN edges : {e[1], e[2]} \subseteq DOMAIN all
  <2>1. /\ \A k \in DOMAIN map : map[k] \in 1..MaxRow
        /\ EntitiesOK(base.tables.names, a, all, ents)
        /\ edges = MergedEdges(base.tables, a, ents, map)
        /\ MaxRow \in Nat
    BY <1>6, <1>12, <1>13, <1>14
  <2> HIDE DEF d
  <2>2. EdgesOK(edges, all)
    BY ONLY <2>1, Sound(base), Payload(a), MergedEdgesSound
  <2> QED BY <2>2 DEF EdgesOK
<1>19. /\ c.tables.prompts \subseteq [sync : SyncIds, session : Sessions]
       /\ \A p, q \in c.tables.prompts : p.sync = q.sync => p = q
       /\ \A p \in c.tables.prompts : p.session \in c.tables.sessions
  <2>1. \A p \in c.tables.prompts :
          p \in d.prompts \/ (p \in a.prompts /\ \A q \in d.prompts : q.sync # p.sync)
    BY <1>8 DEF MergedPrompts
  <2>2. \A p, q \in d.prompts : p.sync = q.sync => p = q
    BY DEF Sound, Unique
  <2>3. \A p, q \in a.prompts : p.sync = q.sync => p = q
    BY DEF Payload, Unique
  <2>4. /\ d.prompts \subseteq [sync : SyncIds, session : Sessions]
        /\ a.prompts \subseteq [sync : SyncIds, session : Sessions]
    BY <1>14 DEF Database
  <2>5. \A p \in d.prompts : p.session \in d.sessions
    BY DEF Sound, ForeignKeys
  <2>6. \A p \in a.prompts : p.session \in NamedSessions(a)
    BY DEF NamedSessions
  <2>7. \A p, q \in c.tables.prompts : p.sync = q.sync => p = q
    BY <2>1, <2>2, <2>3
  <2>8. \A p \in c.tables.prompts : p.session \in c.tables.sessions
    BY <1>8, <2>1, <2>5, <2>6
  <2> QED BY <2>1, <2>4, <2>7, <2>8
<1>20. c.tables.sessions \subseteq Sessions
  <2>1. d.sessions \subseteq Sessions /\ a.sessions \subseteq Sessions
    BY <1>14 DEF Database
  <2>2. \A k \in DOMAIN a.rows : a.rows[k].session \in Sessions
    BY <1>14, RowsHaveTypes DEF Row
  <2>3. \A p \in a.prompts : p.session \in Sessions
    BY <1>14 DEF Database
  <2>4. NamedSessions(a) \subseteq Sessions
    BY <2>2, <2>3 DEF NamedSessions
  <2> QED BY <1>8, <2>1, <2>4
<1>21. c.next \in 1..MaxRow + 1
  BY <1>8, <1>9, <1>11, <1>14 DEF Sound
<1>22. Database(c.tables)
  <2>1. all \in Seq(Names) /\ facts \in Seq([row : 1..MaxRow, text : Texts])
    BY <1>13, <1>15 DEF EntitiesOK, Facts
  <2>2. /\ c.tables.relations \subseteq (1..MaxRow) \X (1..MaxRow)
        /\ c.tables.mentions \subseteq Nat \X (1..MaxRow)
    BY <1>16, <1>17
  <2> QED BY <1>8, <1>12, <1>18, <1>19, <1>20, <2>1, <2>2 DEF Database
<1>23. Unique(c.tables)
  BY <1>8, <1>12, <1>13, <1>19 DEF Unique, EntitiesOK
<1>24. ForeignKeys(c.tables)
  BY <1>8, <1>12, <1>15, <1>16, <1>17, <1>18, <1>19 DEF ForeignKeys
<1>25. Sound(c)
  BY <1>8, <1>12, <1>17, <1>21, <1>22, <1>23, <1>24 DEF Sound
<1> QED BY <1>1, <1>25

LEMMA WipeSound ==
    ASSUME NEW base, Sound(base)
    PROVE  Sound(Wipe(base)) /\ Wipe(base).tables = Nothing
<1>1. /\ DOMAIN Wipe(base) = {"tables", "next"} /\ Wipe(base).tables = Nothing
      /\ Wipe(base).next = base.next
  BY DEF Wipe, Sound
<1>2. DOMAIN Nothing.rows = {} /\ Nothing.mentions = {}
  BY DEF Nothing
<1> QED BY <1>1, <1>2, EmptyIsPayload DEF Sound, Payload

\* So is what ImportMem leaves behind, in either mode.
LEMMA ApplySound ==
    ASSUME NEW base, Sound(base), NEW a, Payload(a), NEW mode \in {"merge", "replace"},
           ApplyPayload(base, a, mode).next <= MaxRow + 1
    PROVE  Sound(ApplyPayload(base, a, mode))
<1>1. Sound(Wipe(base))
  BY WipeSound
<1>2. ApplyPayload(base, a, mode) = Merge(base, a) \/ ApplyPayload(base, a, mode) = Merge(Wipe(base), a)
  BY DEF ApplyPayload
<1> QED BY <1>1, <1>2, MergeSound

------------------------------------------------------------------------------
(* The writes of other clients. *)

LEMMA TablesFollow ==
    ASSUME NEW b, Sound(b), NEW d, Database(d), Unique(d), ForeignKeys(d),
           \A i \in DOMAIN d.rows :
             /\ i \in DOMAIN b.tables.rows
             /\ d.rows[i].live => b.tables.rows[i].live,
           d.mentions = b.tables.mentions
    PROVE  Follows(b, [b EXCEPT !.tables = d])
<1>1. PICK c : c = [b EXCEPT !.tables = d]
  OBVIOUS
<1>2. DOMAIN c = {"tables", "next"} /\ c.tables = d /\ c.next = b.next
  BY <1>1 DEF Sound
<1>3. /\ b.next \in 1..MaxRow + 1 /\ MaxRow \in Nat
      /\ \A i \in DOMAIN b.tables.rows : i < b.next
      /\ \A m \in b.tables.mentions : m[2] < b.next
  BY ArchiveAssumption DEF Sound
<1>4. Sound(c)
  BY <1>2, <1>3 DEF Sound
<1>5. b.next <= c.next
  BY <1>2, <1>3
<1>6. Follows(b, c)
  BY <1>2, <1>4, <1>5 DEF Follows
<1> QED BY <1>1, <1>6

LEMMA TableNames ==
    ASSUME NEW d, Database(d)
    PROVE  DOMAIN d = {"sessions", "rows", "prompts", "facts", "relations", "names",
                       "mentions", "edges"}
BY FieldNames DEF Database

\* What a write of one table leaves alone.
LEMMA SessionsFollow ==
    ASSUME NEW b, Sound(b), NEW s \in Sessions
    PROVE  Follows(b, [b EXCEPT !.tables = [b.tables EXCEPT !.sessions = @ \cup {s}]])
<1>1. PICK d : d = [b.tables EXCEPT !.sessions = @ \cup {s}]
  OBVIOUS
<1>2. Database(b.tables) /\ Unique(b.tables) /\ ForeignKeys(b.tables)
  BY DEF Sound
<1>3. /\ DOMAIN d = Range(Tables) /\ d.sessions = b.tables.sessions \cup {s}
      /\ d.rows = b.tables.rows /\ d.prompts = b.tables.prompts /\ d.facts = b.tables.facts
      /\ d.relations = b.tables.relations /\ d.names = b.tables.names
      /\ d.mentions = b.tables.mentions /\ d.edges = b.tables.edges
  BY <1>1, <1>2, TableNames, FieldNames
<1>4. Database(d) /\ Unique(d)
  BY <1>2, <1>3 DEF Database, Unique
<1>5. ForeignKeys(d)
  BY <1>2, <1>3 DEF ForeignKeys
<1>6. Follows(b, [b EXCEPT !.tables = d])
  BY <1>3, <1>4, <1>5, TablesFollow
<1> QED BY <1>1, <1>6

LEMMA PromptsFollow ==
    ASSUME NEW b, Sound(b), NEW s \in SyncIds, NEW session \in b.tables.sessions,
           \A q \in b.tables.prompts : q.sync # s
    PROVE  Follows(b, [b EXCEPT !.tables =
             [b.tables EXCEPT !.prompts = @ \cup {[sync |-> s, session |-> session]}]])
<1>1. PICK d : d = [b.tables EXCEPT !.prompts = @ \cup {[sync |-> s, session |-> session]}]
  OBVIOUS
<1>a. PICK p : p = [sync |-> s, session |-> session]
  OBVIOUS
<1>2. Database(b.tables) /\ Unique(b.tables) /\ ForeignKeys(b.tables)
  BY DEF Sound
<1>3. /\ DOMAIN d = Range(Tables) /\ d.sessions = b.tables.sessions
      /\ d.rows = b.tables.rows /\ d.prompts = b.tables.prompts \cup {p}
      /\ d.facts = b.tables.facts
      /\ d.relations = b.tables.relations /\ d.names = b.tables.names
      /\ d.mentions = b.tables.mentions /\ d.edges = b.tables.edges
  BY <1>1, <1>2, <1>a, TableNames, FieldNames
<1>b. p.sync = s /\ p.session = session /\ p \in [sync : SyncIds, session : Sessions]
  BY <1>2, <1>a DEF Database
<1>4. Database(d)
  BY <1>2, <1>3, <1>b DEF Database
<1>5. Unique(d)
  BY <1>2, <1>3, <1>b DEF Unique
<1>6. ForeignKeys(d)
  BY <1>2, <1>3, <1>b DEF ForeignKeys
<1>7. Follows(b, [b EXCEPT !.tables = d])
  BY <1>3, <1>4, <1>5, <1>6, TablesFollow
<1> QED BY <1>1, <1>7

LEMMA FactsFollow ==
    ASSUME NEW b, Sound(b), NEW i \in DOMAIN b.tables.rows
    PROVE  Follows(b, [b EXCEPT !.tables =
             [b.tables EXCEPT !.facts = Append(@, [row |-> i, text |-> b.tables.rows[i].text])]])
<1>1. PICK d : d = [b.tables EXCEPT !.facts = Append(@, [row |-> i, text |-> b.tables.rows[i].text])]
  OBVIOUS
<1>a. PICK f : f = [row |-> i, text |-> b.tables.rows[i].text]
  OBVIOUS
<1>2. Database(b.tables) /\ Unique(b.tables) /\ ForeignKeys(b.tables)
  BY DEF Sound
<1>3. /\ DOMAIN d = Range(Tables) /\ d.sessions = b.tables.sessions
      /\ d.rows = b.tables.rows /\ d.prompts = b.tables.prompts
      /\ d.facts = Append(b.tables.facts, f)
      /\ d.relations = b.tables.relations /\ d.names = b.tables.names
      /\ d.mentions = b.tables.mentions /\ d.edges = b.tables.edges
  BY <1>1, <1>2, <1>a, TableNames, FieldNames
<1>b. f.row = i /\ f \in [row : 1..MaxRow, text : Texts]
  BY <1>2, <1>a, RowsHaveTypes DEF Row
<1>c. /\ d.facts \in Seq([row : 1..MaxRow, text : Texts])
      /\ Range(d.facts) \subseteq Range(b.tables.facts) \cup {f}
  <2>1. b.tables.facts \in Seq([row : 1..MaxRow, text : Texts])
    BY <1>2 DEF Database
  <2>2. /\ d.facts \in Seq([row : 1..MaxRow, text : Texts])
        /\ \A k \in DOMAIN d.facts :
             d.facts[k] = f \/ (k \in DOMAIN b.tables.facts /\ d.facts[k] = b.tables.facts[k])
    BY <1>3, <1>b, <2>1
  <2> QED BY <2>2 DEF Range
<1>4. Database(d)
  BY <1>2, <1>3, <1>c DEF Database
<1>5. Unique(d)
  BY <1>2, <1>3 DEF Unique
<1>6. ForeignKeys(d)
  BY <1>2, <1>3, <1>b, <1>c DEF ForeignKeys
<1>7. Follows(b, [b EXCEPT !.tables = d])
  BY <1>3, <1>4, <1>5, <1>6, TablesFollow
<1> QED BY <1>1, <1>7

\* An update or a soft delete gives one row another text, or ends its life.
LEMMA RowsFollow ==
    ASSUME NEW b, Sound(b), NEW i \in DOMAIN b.tables.rows, NEW r \in Row,
           r.sync = b.tables.rows[i].sync, r.session = b.tables.rows[i].session,
           r.live => b.tables.rows[i].live
    PROVE  Follows(b, [b EXCEPT !.tables = [b.tables EXCEPT !.rows[i] = r]])
<1>1. PICK d : d = [b.tables EXCEPT !.rows[i] = r]
  OBVIOUS
<1>2. Database(b.tables) /\ Unique(b.tables) /\ ForeignKeys(b.tables)
  BY DEF Sound
<1>3. /\ DOMAIN d = Range(Tables) /\ d.sessions = b.tables.sessions
      /\ d.rows = [b.tables.rows EXCEPT ![i] = r] /\ d.prompts = b.tables.prompts
      /\ d.facts = b.tables.facts
      /\ d.relations = b.tables.relations /\ d.names = b.tables.names
      /\ d.mentions = b.tables.mentions /\ d.edges = b.tables.edges
  BY <1>1, <1>2, TableNames, FieldNames
<1>a. /\ DOMAIN d.rows = DOMAIN b.tables.rows
      /\ \A j \in DOMAIN d.rows : d.rows[j] = IF j = i THEN r ELSE b.tables.rows[j]
  BY <1>3
<1>b. \A j \in DOMAIN d.rows : d.rows[j] \in Row
  BY <1>2, <1>a, RowsHaveTypes
<1>c. Range(d.rows) \subseteq Row
  BY <1>b DEF Range
<1>d. \A j \in DOMAIN d.rows : /\ d.rows[j].sync = b.tables.rows[j].sync
                               /\ d.rows[j].session = b.tables.rows[j].session
                               /\ d.rows[j].live => b.tables.rows[j].live
  BY <1>a
<1>4. Database(d)
  BY <1>2, <1>3, <1>a, <1>c DEF Database
<1>5. Unique(d)
  BY <1>2, <1>3, <1>a, <1>d DEF Unique
<1>6. ForeignKeys(d)
  BY <1>2, <1>3, <1>a, <1>d DEF ForeignKeys
<1>7. Follows(b, [b EXCEPT !.tables = d])
  BY <1>3, <1>a, <1>d, <1>4, <1>5, <1>6, TablesFollow
<1> QED BY <1>1, <1>7

LEMMA HardDeleteFollows ==
    ASSUME NEW b, Sound(b), NEW i \in DOMAIN b.tables.rows
    PROVE  Follows(b, [b EXCEPT !.tables =
             [b.tables EXCEPT !.rows = [j \in DOMAIN b.tables.rows \ {i} |-> b.tables.rows[j]],
                              !.facts = Sift(@, {f \in Range(@) : f.row # i}),
                              !.relations = {r \in @ : i \notin {r[1], r[2]}}]])
<1>1. PICK d : d = [b.tables EXCEPT
                      !.rows = [j \in DOMAIN b.tables.rows \ {i} |-> b.tables.rows[j]],
                      !.facts = Sift(@, {f \in Range(@) : f.row # i}),
                      !.relations = {r \in @ : i \notin {r[1], r[2]}}]
  OBVIOUS
<1>a. PICK s : s = b.tables.facts
  OBVIOUS
<1>b. PICK kept : kept = {f \in Range(s) : f.row # i}
  OBVIOUS
<1>2. Database(b.tables) /\ Unique(b.tables) /\ ForeignKeys(b.tables)
  BY DEF Sound
<1>3. /\ DOMAIN d = Range(Tables) /\ d.sessions = b.tables.sessions
      /\ d.rows = [j \in DOMAIN b.tables.rows \ {i} |-> b.tables.rows[j]]
      /\ d.prompts = b.tables.prompts
      /\ d.facts = Sift(s, kept)
      /\ d.relations = {r \in b.tables.relations : i \notin {r[1], r[2]}}
      /\ d.names = b.tables.names
      /\ d.mentions = b.tables.mentions /\ d.edges = b.tables.edges
  BY <1>1, <1>2, <1>a, <1>b, TableNames, FieldNames
<1>4. /\ DOMAIN d.rows = DOMAIN b.tables.rows \ {i}
      /\ \A j \in DOMAIN d.rows : j \in DOMAIN b.tables.rows /\ d.rows[j] = b.tables.rows[j]
  BY <1>3
<1>5. Range(d.rows) \subseteq Row
  <2>1. \A j \in DOMAIN d.rows : d.rows[j] \in Row
    BY <1>2, <1>4, RowsHaveTypes
  <2> QED BY <2>1 DEF Range
<1>6. d.facts \in Seq(Facts) /\ \A f \in Range(d.facts) : f \in Range(s) /\ f.row # i
  <2>1. s \in Seq(Facts)
    BY <1>2, <1>a DEF Database, Facts
  <2>2. d.facts \in Seq(Facts) /\ \E at : SiftedFrom(s, kept, d.facts, at)
    BY <1>3, <2>1, SiftProperties
  <2>3. PICK at : SiftedFrom(s, kept, d.facts, at)
    BY <2>2
  <2>4. DOMAIN d.facts = 1..Len(d.facts)
    BY <2>2
  <2>5. \A k \in DOMAIN d.facts : d.facts[k] \in kept
    BY <2>3, <2>4 DEF SiftedFrom
  <2>6. Range(d.facts) \subseteq kept
    BY <2>5 DEF Range
  <2> QED BY <1>b, <2>2, <2>6
<1>7. Database(d)
  <2>1. d.facts \in Seq([row : 1..MaxRow, text : Texts])
    BY <1>6 DEF Facts
  <2> QED BY <1>2, <1>3, <1>4, <1>5, <2>1 DEF Database
<1>8. Unique(d)
  BY <1>2, <1>3, <1>4 DEF Unique
<1>9. ForeignKeys(d)
  <2>1. \A f \in Range(d.facts) : f.row \in DOMAIN d.rows
    BY <1>2, <1>4, <1>6, <1>a DEF ForeignKeys
  <2>2. \A r \in d.relations : {r[1], r[2]} \subseteq DOMAIN d.rows
    BY <1>2, <1>3, <1>4 DEF ForeignKeys
  <2>3. \A j \in DOMAIN d.rows : d.rows[j].session \in d.sessions
    BY <1>2, <1>3, <1>4 DEF ForeignKeys
  <2> QED BY <1>2, <1>3, <2>1, <2>2, <2>3 DEF ForeignKeys
<1>10. Follows(b, [b EXCEPT !.tables = d])
  BY <1>3, <1>4, <1>7, <1>8, <1>9, TablesFollow
<1> QED BY <1>1, <1>10

\* A save takes the next rowid: no row below it comes or comes to life.
LEMMA SaveFollows ==
    ASSUME NEW b, Sound(b), NEW s \in SyncIds, RowsOf(b.tables, s) = {}, b.next <= MaxRow,
           NEW session \in b.tables.sessions, NEW t \in Texts,
           NEW c,
           c = [tables |-> [b.tables EXCEPT !.rows =
                  [i \in DOMAIN b.tables.rows \cup {b.next} |->
                     IF i = b.next
                     THEN [sync |-> s, session |-> session, text |-> t, live |-> TRUE]
                     ELSE b.tables.rows[i]]],
                next |-> b.next + 1]
    PROVE  Follows(b, c)
<1>a. PICK r : r = [sync |-> s, session |-> session, text |-> t, live |-> TRUE]
  OBVIOUS
<1>b. PICK rows : rows = [i \in DOMAIN b.tables.rows \cup {b.next} |->
                            IF i = b.next THEN r ELSE b.tables.rows[i]]
  OBVIOUS
<1>1. PICK d : d = [b.tables EXCEPT !.rows = rows]
  OBVIOUS
<1>2. Database(b.tables) /\ Unique(b.tables) /\ ForeignKeys(b.tables)
  BY DEF Sound
<1>3. /\ DOMAIN d = Range(Tables) /\ d.sessions = b.tables.sessions
      /\ d.rows = rows /\ d.prompts = b.tables.prompts /\ d.facts = b.tables.facts
      /\ d.relations = b.tables.relations /\ d.names = b.tables.names
      /\ d.mentions = b.tables.mentions /\ d.edges = b.tables.edges
  BY <1>1, <1>2, TableNames, FieldNames
<1>4. r \in Row /\ r.sync = s /\ r.session = session
  BY <1>2, <1>a DEF Row, Database
<1>5. /\ b.next \in 1..MaxRow /\ MaxRow \in Nat
      /\ \A i \in DOMAIN b.tables.rows : i < b.next /\ i \in Nat
  BY <1>2, ArchiveAssumption, RowsHaveTypes DEF Sound
<1>6. /\ DOMAIN rows = DOMAIN b.tables.rows \cup {b.next} /\ rows[b.next] = r
      /\ \A i \in DOMAIN b.tables.rows : rows[i] = b.tables.rows[i]
      /\ b.next \notin DOMAIN b.tables.rows
  BY <1>5, <1>b
<1>7. Range(rows) \subseteq Row
  <2>1. \A i \in DOMAIN rows : rows[i] \in Row
    BY <1>2, <1>4, <1>6, RowsHaveTypes
  <2> QED BY <2>1 DEF Range
<1>8. Database(d)
  <2>1. DOMAIN rows \subseteq 1..MaxRow
    BY <1>2, <1>5, <1>6, RowsHaveTypes
  <2> QED BY <1>2, <1>3, <1>7, <2>1 DEF Database
<1>9. \A i \in DOMAIN b.tables.rows : b.tables.rows[i].sync # s
  BY DEF RowsOf
<1>10. Unique(d)
  <2>1. \A i, j \in DOMAIN rows : rows[i].sync = rows[j].sync => i = j
    BY <1>2, <1>4, <1>6, <1>9 DEF Unique
  <2> QED BY <1>2, <1>3, <2>1 DEF Unique
<1>11. ForeignKeys(d)
  <2>1. \A i \in DOMAIN rows : rows[i].session \in b.tables.sessions
    BY <1>2, <1>4, <1>6 DEF ForeignKeys
  <2>2. DOMAIN b.tables.rows \subseteq DOMAIN rows
    BY <1>6
  <2> QED BY <1>2, <1>3, <2>1, <2>2 DEF ForeignKeys
<1>12. /\ DOMAIN c = {"tables", "next"} /\ c.tables = d /\ c.next = b.next + 1
  BY <1>1, <1>a, <1>b
<1>13. Sound(c)
  <2>1. c.next \in 1..MaxRow + 1
    BY <1>5, <1>12
  <2>2. \A i \in DOMAIN c.tables.rows : i < c.next
    BY <1>3, <1>5, <1>6, <1>12
  <2>3. \A m \in b.tables.mentions : m[2] \in Nat /\ m[2] < b.next
    <3>1. b.tables.mentions \subseteq Nat \X (1..MaxRow)
      BY <1>2 DEF Database
    <3>2. \A m \in b.tables.mentions : m[2] < b.next
      BY DEF Sound
    <3> QED BY <1>5, <3>1, <3>2
  <2>4. \A m \in c.tables.mentions : m[2] < c.next
    <3>1. c.tables.mentions = b.tables.mentions /\ c.next = b.next + 1 /\ b.next \in Nat
      BY ONLY <1>3, <1>5, <1>12
    <3>2. \A n \in Nat : n < b.next => n < c.next
      BY <3>1
    <3> QED BY <2>3, <3>1, <3>2
  <2> QED BY <1>8, <1>10, <1>11, <1>12, <2>1, <2>2, <2>4 DEF Sound
<1>14. \A i \in DOMAIN c.tables.rows :
         c.tables.rows[i].live /\ i < b.next => i \in DOMAIN b.tables.rows /\ b.tables.rows[i].live
  BY <1>3, <1>5, <1>6, <1>12
<1>15. b.next <= c.next
  BY <1>5, <1>12
<1> QED BY <1>13, <1>14, <1>15 DEF Follows

------------------------------------------------------------------------------
(* The steps. *)

\* A write of another client leaves no row unoffered that the import answered for.
LEMMA WriteStep ==
    ASSUME ArchiveInv, NEW p \in Projects, NEW c, Follows(db[p], c),
           db' = [db EXCEPT ![p] = c], UNCHANGED <<ex, tmp, file, im>>
    PROVE  ArchiveInv'
<1>1. /\ DOMAIN db = Projects /\ \A q \in Projects : Sound(db[q])
      /\ DOMAIN db' = Projects /\ \A q \in Projects : db'[q] = IF q = p THEN c ELSE db[q]
  BY DEF ArchiveInv, DbOK
<1>2. DbOK'
  BY <1>1 DEF DbOK, Follows
<1>3. ASSUME NEW q \in Projects, NEW n \in Nat, n <= db[q].next
      PROVE  /\ n <= db'[q].next
             /\ \A i \in DOMAIN db'[q].tables.rows :
                  db'[q].tables.rows[i].live /\ i < n =>
                    i \in DOMAIN db[q].tables.rows /\ db[q].tables.rows[i].live
  <2>1. CASE q = p
    <3>1. db'[q] = c /\ Sound(db[p]) /\ Sound(c) /\ db[p].next <= c.next
      BY <1>1, <2>1 DEF Follows
    <3>2. db[p].next \in Nat /\ c.next \in Nat /\ \A i \in DOMAIN c.tables.rows : i \in Nat
      BY <3>1, RowsHaveTypes DEF Sound
    <3>3. n <= c.next
      BY <1>3, <2>1, <3>1, <3>2
    <3>4. \A i \in DOMAIN c.tables.rows : i < n => i < db[p].next
      BY <1>3, <2>1, <3>2
    <3> QED BY <2>1, <3>1, <3>3, <3>4 DEF Follows
  <2>2. CASE q # p
    BY <1>1, <1>3, <2>2
  <2> QED BY <2>1, <2>2
<1>4. PICK m : m = im
  OBVIOUS
<1>5. PICK e : e = db'
  OBVIOUS
<1>6. im' = m
  BY <1>4
<1>7. ImportOK'
  <2>1. m.pc = "requeue" => m.project \in Projects /\ m.before \in Nat /\ m.before <= db[m.project].next
    BY <1>4 DEF ArchiveInv, ImportOK
  <2>2. m.pc = "requeue" => m.before <= e[m.project].next
    BY <1>3, <1>5, <2>1
  <2>3. m.answer = "ok" =>
          /\ m.project \in Projects /\ m.before \in Nat /\ m.before <= db[m.project].next
          /\ m.skipped \/ \A i \in DOMAIN db[m.project].tables.rows :
               db[m.project].tables.rows[i].live /\ i < m.before => i \in m.offered
    BY <1>4 DEF ArchiveInv, ImportOK
  <2>4. m.answer = "ok" =>
          /\ m.project \in Projects /\ m.before <= e[m.project].next
          /\ m.skipped \/ \A i \in DOMAIN e[m.project].tables.rows :
               e[m.project].tables.rows[i].live /\ i < m.before => i \in m.offered
    BY <1>3, <1>5, <2>3
  <2> QED BY <1>4, <1>5, <1>6, <2>2, <2>4 DEF ArchiveInv, ImportOK
<1> QED BY <1>2, <1>7 DEF ArchiveInv, ExportOK

LEMMA ClientStep == ArchiveInv /\ OtherClients => ArchiveInv'
<1> SUFFICES ASSUME ArchiveInv, OtherClients PROVE ArchiveInv'
  OBVIOUS
<1>1. PICK p \in Projects :
        \/ \E s \in Sessions : StartSession(p, s)
        \/ \E s \in SyncIds, n \in Sessions, t \in Texts : SaveObservation(p, s, n, t)
        \/ \E i \in DOMAIN db[p].tables.rows :
             SoftDelete(p, i) \/ HardDelete(p, i) \/ InsertFact(p, i) \/ \E t \in Texts : Update(p, i, t)
        \/ \E s \in SyncIds, n \in Sessions : SavePrompt(p, s, n)
  BY DEF OtherClients
<1>2. PICK b : b = db[p]
  OBVIOUS
<1>3. Sound(b) /\ DOMAIN b = {"tables", "next"} /\ Database(b.tables)
  BY <1>2 DEF ArchiveInv, DbOK, Sound
<1>4. ASSUME NEW d, Write(p, d), Follows(b, [b EXCEPT !.tables = d])
      PROVE  ArchiveInv'
  <2>1. db' = [db EXCEPT ![p] = [b EXCEPT !.tables = d]]
    BY <1>2, <1>4 DEF Write
  <2>2. UNCHANGED <<ex, tmp, file, im>>
    BY <1>4 DEF Write
  <2> QED BY <1>2, <1>4, <2>1, <2>2, WriteStep
<1>5. ASSUME NEW s \in Sessions, StartSession(p, s) PROVE ArchiveInv'
  BY <1>2, <1>3, <1>4, <1>5, SessionsFollow DEF StartSession
<1>6. ASSUME NEW s \in SyncIds, NEW n \in Sessions, NEW t \in Texts, SaveObservation(p, s, n, t)
      PROVE  ArchiveInv'
  <2>1. PICK c : c = [tables |-> [b.tables EXCEPT !.rows =
                  [i \in DOMAIN b.tables.rows \cup {b.next} |->
                     IF i = b.next
                     THEN [sync |-> s, session |-> n, text |-> t, live |-> TRUE]
                     ELSE b.tables.rows[i]]],
                next |-> b.next + 1]
    OBVIOUS
  <2>2. /\ RowsOf(b.tables, s) = {} /\ b.next <= MaxRow /\ n \in b.tables.sessions
        /\ db' = [db EXCEPT ![p] = c] /\ UNCHANGED <<ex, tmp, file, im>>
    BY <1>2, <1>6, <2>1 DEF SaveObservation
  <2>3. Follows(b, c)
    BY <1>3, <2>1, <2>2, SaveFollows
  <2> QED BY <1>2, <2>2, <2>3, WriteStep
<1>7. ASSUME NEW i \in DOMAIN b.tables.rows PROVE b.tables.rows[i] \in Row
  BY <1>3, RowsHaveTypes
<1>8. ASSUME NEW i \in DOMAIN b.tables.rows, SoftDelete(p, i) PROVE ArchiveInv'
  <2>1. PICK r : r = [b.tables.rows[i] EXCEPT !.live = FALSE]
    OBVIOUS
  <2>2. /\ r \in Row /\ r.sync = b.tables.rows[i].sync /\ r.session = b.tables.rows[i].session
        /\ ~r.live
    BY <1>7, <2>1 DEF Row
  <2>3. Write(p, [b.tables EXCEPT !.rows[i] = r])
    BY <1>2, <1>3, <1>8, <2>1, TableNames DEF SoftDelete
  <2>4. Follows(b, [b EXCEPT !.tables = [b.tables EXCEPT !.rows[i] = r]])
    BY <1>3, <2>2, RowsFollow
  <2> QED BY <1>4, <2>3, <2>4
<1>9. ASSUME NEW i \in DOMAIN b.tables.rows, NEW t \in Texts, Update(p, i, t) PROVE ArchiveInv'
  <2>1. PICK r : r = [b.tables.rows[i] EXCEPT !.text = t]
    OBVIOUS
  <2>2. /\ r \in Row /\ r.sync = b.tables.rows[i].sync /\ r.session = b.tables.rows[i].session
        /\ r.live = b.tables.rows[i].live
    BY <1>7, <2>1 DEF Row
  <2>3. Write(p, [b.tables EXCEPT !.rows[i] = r])
    BY <1>2, <1>3, <1>9, <2>1, TableNames DEF Update
  <2>4. Follows(b, [b EXCEPT !.tables = [b.tables EXCEPT !.rows[i] = r]])
    BY <1>3, <2>2, RowsFollow
  <2> QED BY <1>4, <2>3, <2>4
<1>10. ASSUME NEW i \in DOMAIN b.tables.rows, HardDelete(p, i) PROVE ArchiveInv'
  <2>1. Write(p, [b.tables EXCEPT !.rows = [j \in DOMAIN b.tables.rows \ {i} |-> b.tables.rows[j]],
                                  !.facts = Sift(@, {f \in Range(@) : f.row # i}),
                                  !.relations = {r \in @ : i \notin {r[1], r[2]}}])
    BY <1>2, <1>10 DEF HardDelete
  <2> QED BY <1>3, <1>4, <2>1, HardDeleteFollows
<1>11. ASSUME NEW i \in DOMAIN b.tables.rows, InsertFact(p, i) PROVE ArchiveInv'
  <2>1. Write(p, [b.tables EXCEPT !.facts = Append(@, [row |-> i, text |-> b.tables.rows[i].text])])
    BY <1>2, <1>11 DEF InsertFact
  <2> QED BY <1>3, <1>4, <2>1, FactsFollow
<1>12. ASSUME NEW s \in SyncIds, NEW n \in Sessions, SavePrompt(p, s, n) PROVE ArchiveInv'
  <2>1. /\ n \in b.tables.sessions /\ \A q \in b.tables.prompts : q.sync # s
        /\ Write(p, [b.tables EXCEPT !.prompts = @ \cup {[sync |-> s, session |-> n]}])
    BY <1>2, <1>12 DEF SavePrompt
  <2> QED BY <1>3, <1>4, <2>1, PromptsFollow
<1> QED BY <1>1, <1>2, <1>5, <1>6, <1>8, <1>9, <1>10, <1>11, <1>12

\* Each table that is read has its type and its unique index, whatever was read before.
LEMMA TableRead ==
    ASSUME NEW r, Payload(r), NEW d, Payload(d), NEW k \in 1..8
    PROVE  Payload([r EXCEPT ![Tables[k]] = d[Tables[k]]])
<1>1. PICK c : c = [r EXCEPT ![Tables[k]] = d[Tables[k]]]
  OBVIOUS
<1>2. DOMAIN r = Range(Tables) /\ DOMAIN d = Range(Tables) /\ Tables[k] \in Range(Tables)
  <2>1. k \in DOMAIN Tables
    BY DEF Tables
  <2> QED BY <2>1 DEF Payload, Database, Range
<1>3. DOMAIN c = Range(Tables) /\ \A t \in Range(Tables) : c[t] = r[t] \/ c[t] = d[t]
  BY <1>1, <1>2
<1>4. /\ c.sessions = r.sessions \/ c.sessions = d.sessions
      /\ c.rows = r.rows \/ c.rows = d.rows
      /\ c.prompts = r.prompts \/ c.prompts = d.prompts
      /\ c.facts = r.facts \/ c.facts = d.facts
      /\ c.relations = r.relations \/ c.relations = d.relations
      /\ c.names = r.names \/ c.names = d.names
      /\ c.mentions = r.mentions \/ c.mentions = d.mentions
      /\ c.edges = r.edges \/ c.edges = d.edges
  BY <1>3, FieldNames
<1>5. Database(r) /\ Unique(r) /\ Database(d) /\ Unique(d)
  BY DEF Payload
<1>6. Database(c)
  <2>1. c.sessions \subseteq Sessions /\ c.prompts \subseteq [sync : SyncIds, session : Sessions]
    BY <1>4, <1>5 DEF Database
  <2>2. DOMAIN c.rows \subseteq 1..MaxRow /\ Range(c.rows) \subseteq Row
    BY <1>4, <1>5 DEF Database
  <2>3. c.facts \in Seq([row : 1..MaxRow, text : Texts]) /\ c.names \in Seq(Names)
    BY <1>4, <1>5 DEF Database
  <2>4. c.relations \subseteq (1..MaxRow) \X (1..MaxRow) /\ c.mentions \subseteq Nat \X (1..MaxRow)
    BY <1>4, <1>5 DEF Database
  <2>5. /\ \A e \in DOMAIN c.edges : e \in Nat \X Nat /\ e[1] # e[2]
        /\ Range(c.edges) \subseteq Edge
    BY <1>4, <1>5 DEF Database
  <2> QED BY <1>3, <2>1, <2>2, <2>3, <2>4, <2>5 DEF Database
<1>7. Unique(c)
  <2>1. \A p, q \in c.prompts : p.sync = q.sync => p = q
    BY <1>4, <1>5 DEF Unique
  <2>2. \A x, y \in DOMAIN c.rows : c.rows[x].sync = c.rows[y].sync => x = y
    BY <1>4, <1>5 DEF Unique
  <2>3. \A x, y \in DOMAIN c.names : c.names[x] = c.names[y] => x = y
    BY <1>4, <1>5 DEF Unique
  <2> QED BY <2>1, <2>2, <2>3 DEF Unique
<1>8. Payload(c)
  BY <1>6, <1>7 DEF Payload
<1> QED BY <1>1, <1>8

LEMMA NoExportOK ==
    /\ DOMAIN NoExport = {"pc", "project", "table", "seed", "read"} /\ NoExport.pc = "idle"
    /\ Payload(NoExport.read)
BY EmptyIsPayload DEF NoExport

LEMMA ExportStep ==
    ASSUME ArchiveInv,
           \/ \E p \in Projects, s \in RawSeeds \cup {None} : StartExport(p, s)
           \/ DumpTable \/ EncodeFails \/ CreateTmp \/ WriteTmp \/ Rename
    PROVE  ArchiveInv'
<1>1. /\ DOMAIN ex = {"pc", "project", "table", "seed", "read"} /\ Payload(ex.read)
      /\ ex.pc = "dump" => ex.project \in Projects /\ ex.table \in 1..9
  BY DEF ArchiveInv, ExportOK
<1>2. UNCHANGED <<db, im>>
  BY DEF StartExport, DumpTable, EncodeFails, CreateTmp, WriteTmp, Rename
<1>3. DbOK' /\ ImportOK'
  <2>1. DbOK'
    BY <1>2 DEF ArchiveInv, DbOK
  <2>2. PICK m, e : m = im /\ e = db
    OBVIOUS
  <2>3. im' = m /\ db' = e
    BY <1>2, <2>2
  <2>4. ImportOK'
    BY <2>2, <2>3 DEF ArchiveInv, ImportOK
  <2> QED BY <2>1, <2>4
<1>4. ArchiveFile(tmp) /\ ArchiveFile(file)
  BY DEF ArchiveInv
<1>5. ASSUME NEW p \in Projects, NEW s \in RawSeeds \cup {None}, StartExport(p, s) PROVE ArchiveInv'
  <2>1. /\ DOMAIN ex' = {"pc", "project", "table", "seed", "read"} /\ ex'.pc = "dump"
        /\ ex'.project = p /\ ex'.table = 1 /\ ex'.read = NoExport.read /\ UNCHANGED <<tmp, file>>
    BY <1>5, NoExportOK DEF StartExport
  <2>2. Payload(ex'.read)
    BY <2>1, NoExportOK
  <2>3. ExportOK'
    BY <2>1, <2>2 DEF ExportOK
  <2> QED BY <1>3, <1>4, <2>1, <2>3 DEF ArchiveInv
<1>6. CASE DumpTable
  <2>1. ex.pc = "dump" /\ ex.table \in 1..8 /\ ex.project \in Projects
    <3>1. Len(Tables) = 8
      BY DEF Tables
    <3> QED BY <1>1, <1>6, <3>1 DEF DumpTable
  <2>2. Payload(db[ex.project].tables)
    BY <2>1 DEF ArchiveInv, DbOK, Sound, Payload
  <2>3. PICK r : r = [ex.read EXCEPT ![Tables[ex.table]] = db[ex.project].tables[Tables[ex.table]]]
    OBVIOUS
  <2>4. Payload(r)
    BY <1>1, <2>1, <2>2, <2>3, TableRead
  <2>5. /\ DOMAIN ex' = DOMAIN ex /\ ex'.pc = ex.pc /\ ex'.project = ex.project
        /\ ex'.table = ex.table + 1 /\ ex'.read = r /\ UNCHANGED <<tmp, file>>
    BY <1>1, <1>6, <2>3 DEF DumpTable
  <2>6. ex'.table \in 1..9
    BY <2>1, <2>5
  <2>7. ExportOK'
    BY <1>1, <2>1, <2>4, <2>5, <2>6 DEF ExportOK
  <2> QED BY <1>3, <1>4, <2>5, <2>7 DEF ArchiveInv
<1>7. CASE EncodeFails
  <2>1. ex' = NoExport /\ UNCHANGED <<tmp, file>>
    BY <1>7 DEF EncodeFails
  <2>2. ExportOK'
    BY <2>1, NoExportOK DEF ExportOK
  <2> QED BY <1>3, <1>4, <2>1, <2>2 DEF ArchiveInv
<1>8. CASE CreateTmp
  <2>1. /\ DOMAIN ex' = DOMAIN ex /\ ex'.pc = "write" /\ ex'.read = ex.read
        /\ tmp' = Torn /\ UNCHANGED file
    BY <1>1, <1>8 DEF CreateTmp
  <2>2. ExportOK'
    BY <1>1, <2>1 DEF ExportOK
  <2> QED BY <1>3, <1>4, <2>1, <2>2 DEF ArchiveInv, ArchiveFile
<1>9. CASE WriteTmp
  <2>1. /\ DOMAIN ex' = DOMAIN ex /\ ex'.pc = "rename" /\ ex'.read = ex.read
        /\ tmp'.payload = ex.read /\ UNCHANGED file
    BY <1>1, <1>9 DEF WriteTmp, Encode
  <2>2. ExportOK'
    BY <1>1, <2>1 DEF ExportOK
  <2> QED BY <1>1, <1>3, <1>4, <2>1, <2>2 DEF ArchiveInv, ArchiveFile
<1>10. CASE Rename
  <2>1. ex' = NoExport /\ file' = tmp /\ tmp' = None
    BY <1>10 DEF Rename
  <2>2. ExportOK'
    BY <2>1, NoExportOK DEF ExportOK
  <2> QED BY <1>3, <1>4, <2>1, <2>2 DEF ArchiveInv, ArchiveFile
<1> QED BY <1>5, <1>6, <1>7, <1>8, <1>9, <1>10

LEMMA NoImportOK ==
    /\ DOMAIN NoImport = {"pc", "project", "mode", "payload", "before", "offered", "skipped", "answer"}
    /\ NoImport.pc = "idle" /\ NoImport.before = 0 /\ NoImport.answer = "none"
    /\ Payload(NoImport.payload)
BY EmptyIsPayload DEF NoImport

LEMMA ReadStep ==
    ASSUME ArchiveInv, NEW p \in Projects, NEW m \in {"merge", "replace"},
           NEW s \in RawSeeds \cup {None}, ReadArchive(p, m, s)
    PROVE  ArchiveInv'
<1>1. PICK e : e = DecodeError(file, s)
  OBVIOUS
<1>2. UNCHANGED <<db, ex, tmp, file>>
  BY DEF ReadArchive
<1>3. /\ DOMAIN im' = {"pc", "project", "mode", "payload", "before", "offered", "skipped", "answer"}
      /\ im'.project = p /\ im'.mode = m /\ im'.answer = e /\ im'.before = 0
      /\ im'.pc = IF e = "none" THEN "apply" ELSE "answered"
      /\ im'.payload = IF e = "none" THEN file.payload ELSE NoImport.payload
  BY <1>1, NoImportOK DEF ReadArchive
<1>4. /\ e \notin {"ok", "refused"}
      /\ e = "none" => file \notin {None, Torn}
  BY <1>1 DEF DecodeError
<1>5. Payload(im'.payload)
  BY <1>3, <1>4, NoImportOK DEF ArchiveInv, ArchiveFile
<1>6. ImportOK'
  BY <1>3, <1>4, <1>5 DEF ImportOK
<1> QED BY <1>2, <1>6 DEF ArchiveInv, DbOK, ExportOK

\* The transaction of an import: every foreign key holds, so it is not rolled back.
LEMMA ApplyStep ==
    ASSUME ArchiveInv, Apply
    PROVE  ArchiveInv'
<1>1. PICK p : p = im.project
  OBVIOUS
<1>2. PICK d : d = ApplyPayload(db[p], im.payload, im.mode)
  OBVIOUS
<1>3. /\ p \in Projects /\ im.mode \in {"merge", "replace"} /\ Payload(im.payload)
      /\ Sound(db[p]) /\ im.pc = "apply" /\ im.answer = "none"
      /\ DOMAIN im = {"pc", "project", "mode", "payload", "before", "offered", "skipped", "answer"}
      /\ DOMAIN db = Projects /\ \A q \in Projects : Sound(db[q])
  BY <1>1 DEF ArchiveInv, DbOK, ImportOK, Apply
<1>4. d.next <= MaxRow + 1
  BY <1>1, <1>2 DEF Apply
<1>5. Sound(d)
  BY <1>2, <1>3, <1>4, ApplySound
<1>6. ForeignKeys(d.tables) /\ d.next \in Nat
  BY <1>5, ArchiveAssumption DEF Sound
<1>7. /\ db' = [db EXCEPT ![p] = d] /\ im' = [im EXCEPT !.pc = "requeue", !.before = d.next]
      /\ UNCHANGED <<ex, tmp, file>>
  BY <1>1, <1>2, <1>6 DEF Apply
<1>8. DOMAIN db' = Projects /\ db'[p] = d /\ \A q \in Projects : Sound(db'[q])
  BY <1>3, <1>5, <1>7
<1>9. /\ DOMAIN im' = {"pc", "project", "mode", "payload", "before", "offered", "skipped", "answer"}
      /\ im'.pc = "requeue" /\ im'.before = d.next /\ im'.project = p /\ im'.answer = "none"
      /\ im'.payload = im.payload
  BY <1>1, <1>3, <1>7
<1>10. ImportOK'
  BY <1>3, <1>6, <1>8, <1>9 DEF ImportOK
<1> QED BY <1>7, <1>8, <1>10 DEF ArchiveInv, DbOK, ExportOK

\* The answer comes after every live row was offered, those of later writes included.
LEMMA RequeueStep ==
    ASSUME ArchiveInv, Requeue
    PROVE  ArchiveInv'
<1>1. PICK p : p = im.project
  OBVIOUS
<1>2. PICK live : live = {i \in DOMAIN db[p].tables.rows : db[p].tables.rows[i].live}
  OBVIOUS
<1>3. /\ p \in Projects /\ im.before \in Nat /\ im.before <= db[p].next
      /\ Payload(im.payload) /\ im.pc = "requeue"
      /\ DOMAIN im = {"pc", "project", "mode", "payload", "before", "offered", "skipped", "answer"}
  BY <1>1 DEF ArchiveInv, ImportOK, Requeue
<1>4. /\ im' = [im EXCEPT !.pc = "answered", !.answer = "ok", !.offered = live]
      /\ UNCHANGED <<db, ex, tmp, file>>
  BY <1>1, <1>2 DEF Requeue
<1>5. /\ DOMAIN im' = {"pc", "project", "mode", "payload", "before", "offered", "skipped", "answer"}
      /\ im'.pc = "answered" /\ im'.answer = "ok" /\ im'.offered = live /\ im'.project = p
      /\ im'.before = im.before /\ im'.payload = im.payload
  BY <1>1, <1>3, <1>4
<1>6. PICK e : e = db
  OBVIOUS
<1>7. db' = e
  BY <1>4, <1>6
<1>8. \A i \in DOMAIN e[p].tables.rows : e[p].tables.rows[i].live => i \in live
  BY <1>2, <1>6
<1>9. ImportOK'
  BY <1>3, <1>5, <1>6, <1>7, <1>8 DEF ImportOK
<1> QED BY <1>4, <1>9 DEF ArchiveInv, DbOK, ExportOK

LEMMA SkipRequeueStep ==
    ASSUME ArchiveInv, SkipRequeue
    PROVE  ArchiveInv'
<1>1. PICK m : m = im
  OBVIOUS
<1>2. /\ DOMAIN m = {"pc", "project", "mode", "payload", "before", "offered", "skipped", "answer"}
      /\ m.project \in Projects /\ m.before \in Nat /\ m.before <= db[m.project].next
      /\ Payload(m.payload)
  BY <1>1 DEF ArchiveInv, ImportOK, SkipRequeue
<1>3. /\ im' = [m EXCEPT !.pc = "answered", !.answer = "ok", !.skipped = TRUE]
      /\ UNCHANGED <<db, ex, tmp, file>>
  BY <1>1 DEF SkipRequeue
<1>4. /\ DOMAIN im' = DOMAIN m /\ im'.pc = "answered" /\ im'.answer = "ok" /\ im'.skipped
      /\ im'.project = m.project /\ im'.before = m.before /\ im'.payload = m.payload
  BY <1>2, <1>3
<1>5. ImportOK'
  BY <1>2, <1>3, <1>4 DEF ImportOK
<1> QED BY <1>3, <1>5 DEF ArchiveInv, DbOK, ExportOK

LEMMA CrashStep ==
    ASSUME ArchiveInv, Crash
    PROVE  ArchiveInv'
<1>1. ex' = NoExport /\ im' = NoImport /\ UNCHANGED <<db, tmp, file>>
  BY DEF Crash
<1>2. ExportOK'
  BY <1>1, NoExportOK DEF ExportOK
<1>3. ImportOK'
  BY <1>1, NoImportOK DEF ImportOK
<1> QED BY <1>1, <1>2, <1>3 DEF ArchiveInv, DbOK

LEMMA StutterStep == ArchiveInv /\ UNCHANGED vars => ArchiveInv'
BY DEF vars, ArchiveInv, DbOK, ExportOK, ImportOK

LEMMA ArchiveInit == Init => ArchiveInv
<1> SUFFICES ASSUME Init PROVE ArchiveInv
  OBVIOUS
<1>1. DbOK
  BY ArchiveAssumption DEF Init, DbOK
<1>2. ExportOK
  BY NoExportOK DEF Init, ExportOK
<1>3. ImportOK
  BY NoImportOK DEF Init, ImportOK
<1> QED BY <1>1, <1>2, <1>3 DEF Init, ArchiveInv, ArchiveFile

LEMMA ArchiveInductive == Spec => []ArchiveInv
<1>1. ArchiveInv /\ [Next]_vars => ArchiveInv'
  BY ClientStep, ExportStep, ReadStep, ApplyStep, RequeueStep, SkipRequeueStep, CrashStep, StutterStep DEF Next
<1> QED BY ArchiveInit, <1>1, PTL DEF Spec

(* What a project's tables hold is sound in every state: mem_import.rs applies  *)
(* an archive whose tables were read at different times and leaves no dangling  *)
(* reference, no row twice and no row at or above the next rowid.               *)
THEOREM ArchiveTypeCorrect == Spec => []TypeOK
<1>1. ArchiveInv => TypeOK
  BY DEF ArchiveInv, DbOK, ExportOK, ImportOK, TypeOK
<1> QED BY ArchiveInductive, <1>1, PTL

(* No statement of apply_payload fails over what an archive lacks: a session    *)
(* that it names is made, and a fact, relation, mention or edge is left out if  *)
(* the row or the entity it needs is not there.                                 *)
THEOREM ImportsAreNeverRefused == Spec => []ImportNeverRefused
<1>1. ArchiveInv => ImportNeverRefused
  BY DEF ArchiveInv, ImportOK, ImportNeverRefused
<1> QED BY ArchiveInductive, <1>1, PTL

(* When ImportMem has answered, every live row that it brought or updated was   *)
(* offered to the embed queue, whatever other clients wrote in the meantime; an *)
(* import that found no pool, or could not read the rows, is excepted.          *)
THEOREM ImportsAreOffered == Spec => []ImportedIsOffered
<1>1. ArchiveInv => ImportedIsOffered
  BY DEF ArchiveInv, ImportOK, ImportedIsOffered
<1> QED BY ArchiveInductive, <1>1, PTL

------------------------------------------------------------------------------
(* What the merged tables say. *)

MergedOK(base, a, c, map, ents) ==
    /\ MapOK(base, a, map) /\ MergedRowsOK(base, a, map, c.rows)
    /\ EntitiesOK(base.tables.names, a, c.names, ents)
    /\ c.sessions = base.tables.sessions \cup a.sessions \cup NamedSessions(a)
    /\ c.prompts = MergedPrompts(base.tables, a)
    /\ c.facts = MergedFacts(base.tables, a, map)
    /\ c.relations = MergedRelations(base.tables, a, map)
    /\ c.mentions = MergedMentions(base.tables, a, ents, map)
    /\ c.edges = MergedEdges(base.tables, a, ents, map)

LEMMA MergedParts ==
    ASSUME NEW base, Sound(base), NEW a, Payload(a)
    PROVE  \E map, ents : MergedOK(base, a, Merge(base, a).tables, map, ents)
<1>1. PICK c : c = Merge(base, a).tables
  OBVIOUS
<1>2. PICK map : map = RowMap(base.tables, base.next, a)
  OBVIOUS
<1>3. PICK ents : ents = EntityMap(base.tables.names, a)
  OBVIOUS
<1>4. /\ c.sessions = base.tables.sessions \cup a.sessions \cup NamedSessions(a)
      /\ c.rows = MergedRows(base.tables, a, map)
      /\ c.prompts = MergedPrompts(base.tables, a)
      /\ c.facts = MergedFacts(base.tables, a, map)
      /\ c.relations = MergedRelations(base.tables, a, map)
      /\ c.names = MergedNames(base.tables.names, a)
      /\ c.mentions = MergedMentions(base.tables, a, ents, map)
      /\ c.edges = MergedEdges(base.tables, a, ents, map)
  BY <1>1, <1>2, <1>3 DEF Merge
<1>5. MapOK(base, a, map)
  BY <1>2, RowMapOK
<1>6. MergedRowsOK(base, a, map, c.rows)
  BY <1>4, <1>5, RowsAreMerged
<1>7. EntitiesOK(base.tables.names, a, c.names, ents)
  BY <1>3, <1>4, EntityMapOK DEF Sound, Payload
<1>8. MergedOK(base, a, c, map, ents)
  BY <1>4, <1>5, <1>6, <1>7 DEF MergedOK
<1> QED BY <1>1, <1>8

\* An id of the project goes on to stand for the same sync_id; an id of the archive
\* stands for its own under the map.
SyncsKept(d, a, c, map) ==
    /\ \A i \in DOMAIN d.rows : i \in DOMAIN c.rows /\ c.rows[i].sync = d.rows[i].sync
    /\ DOMAIN map = DOMAIN a.rows
    /\ \A k \in DOMAIN a.rows : map[k] \in DOMAIN c.rows /\ c.rows[map[k]] = a.rows[k]

LEMMA MergeKeepsSyncs ==
    ASSUME NEW base, Sound(base), NEW a, Payload(a), NEW map, MapOK(base, a, map),
           NEW c, MergedRowsOK(base, a, map, c.rows)
    PROVE  SyncsKept(base.tables, a, c, map)
<1> DEFINE d == base.tables
<1>1. DOMAIN map = DOMAIN a.rows
  BY DEF MapOK
<1>2. \A k \in DOMAIN a.rows : map[k] \in DOMAIN c.rows /\ c.rows[map[k]] = a.rows[k]
  BY DEF MergedRowsOK
<1>3. ASSUME NEW i \in DOMAIN d.rows
      PROVE  i \in DOMAIN c.rows /\ c.rows[i].sync = d.rows[i].sync
  <2>1. i \in DOMAIN c.rows
    BY DEF MergedRowsOK
  <2>2. CASE \E k \in DOMAIN a.rows : i = map[k]
    <3>1. PICK k \in DOMAIN a.rows : i = map[k]
      BY <2>2
    <3>2. k \notin New(d, a)
      <4>1. ASSUME k \in New(d, a) PROVE FALSE
        <5>1. base.next <= i /\ i < base.next
          BY <3>1, <4>1 DEF MapOK, Sound
        <5>2. base.next \in Nat /\ i \in Nat
          BY ArchiveAssumption, RowsHaveTypes DEF Sound
        <5> QED BY <5>1, <5>2
      <4> QED BY <4>1
    <3>3. map[k] \in RowsOf(d, a.rows[k].sync)
      BY <3>2 DEF MapOK
    <3> QED BY <1>2, <2>1, <3>1, <3>3 DEF RowsOf
  <2>3. CASE ~\E k \in DOMAIN a.rows : i = map[k]
    BY <2>1, <2>3 DEF MergedRowsOK
  <2> QED BY <2>1, <2>2, <2>3
<1> QED BY <1>1, <1>2, <1>3 DEF SyncsKept

\* The archive's version of what both have; the rows the archive does not know.
RowsAdded(d, a, c) ==
    Range(c.rows) = Range(a.rows) \cup
      {r \in Range(d.rows) : \A x \in Range(a.rows) : x.sync # r.sync}

LEMMA RowsSaid ==
    ASSUME NEW base, NEW a, NEW map, NEW c, MergedRowsOK(base, a, map, c.rows),
           SyncsKept(base.tables, a, c, map)
    PROVE  RowsAdded(base.tables, a, c)
<1> DEFINE d == base.tables
<1>1. ASSUME NEW i \in DOMAIN c.rows
      PROVE  \/ c.rows[i] \in Range(a.rows)
             \/ /\ c.rows[i] \in Range(d.rows)
                /\ \A x \in Range(a.rows) : x.sync # c.rows[i].sync
  <2>1. CASE \E k \in DOMAIN a.rows : i = map[k]
    <3>1. PICK k \in DOMAIN a.rows : i = map[k]
      BY <2>1
    <3> QED BY <3>1 DEF SyncsKept, Range
  <2>2. CASE ~\E k \in DOMAIN a.rows : i = map[k]
    BY <2>2 DEF MergedRowsOK, Range
  <2> QED BY <2>1, <2>2
<1>2. ASSUME NEW k \in DOMAIN a.rows PROVE a.rows[k] \in Range(c.rows)
  BY DEF SyncsKept, Range
<1>3. ASSUME NEW i \in DOMAIN d.rows, \A x \in Range(a.rows) : x.sync # d.rows[i].sync
      PROVE  d.rows[i] \in Range(c.rows)
  <2>1. i \in DOMAIN c.rows /\ c.rows[i].sync = d.rows[i].sync
    BY DEF SyncsKept
  <2>2. ~\E k \in DOMAIN a.rows : i = map[k]
    <3>1. ASSUME NEW k \in DOMAIN a.rows, i = map[k] PROVE FALSE
      <4>1. a.rows[k].sync = d.rows[i].sync /\ a.rows[k] \in Range(a.rows)
        BY <2>1, <3>1 DEF SyncsKept, Range
      <4> QED BY <1>3, <4>1
    <3> QED BY <3>1
  <2>3. c.rows[i] = d.rows[i]
    BY <2>1, <2>2 DEF MergedRowsOK
  <2> QED BY <2>1, <2>3 DEF Range
<1>4. \A r : r \in Range(c.rows) => r \in Range(a.rows) \/ (r \in Range(d.rows) /\ \A x \in Range(a.rows) : x.sync # r.sync)
  BY <1>1 DEF Range
<1>5. \A r : r \in Range(a.rows) => r \in Range(c.rows)
  BY <1>2 DEF Range
<1>6. \A r \in Range(d.rows) : (\A x \in Range(a.rows) : x.sync # r.sync) => r \in Range(c.rows)
  <2>1. ASSUME NEW r \in Range(d.rows), \A x \in Range(a.rows) : x.sync # r.sync
        PROVE  r \in Range(c.rows)
    <3>1. PICK i \in DOMAIN d.rows : r = d.rows[i]
      BY DEF Range
    <3> QED BY <1>3, <2>1, <3>1
  <2> QED BY <2>1
<1> QED BY <1>4, <1>5, <1>6 DEF RowsAdded

\* Relations and mentions by sync_id and name, as Contents has them.
Related(d) ==
    {<<SyncOf(d, r[1]), SyncOf(d, r[2])>> :
       r \in {x \in d.relations : {x[1], x[2]} \subseteq DOMAIN d.rows}}
Mentioned(d) ==
    {<<d.names[m[1]], SyncOf(d, m[2])>> :
       m \in {x \in d.mentions : x[1] \in DOMAIN d.names /\ x[2] \in DOMAIN d.rows}}

LEMMA SyncsSaid ==
    ASSUME NEW d, NEW a, NEW c, NEW map, SyncsKept(d, a, c, map)
    PROVE  /\ \A i \in DOMAIN d.rows : i \in DOMAIN c.rows /\ SyncOf(c, i) = SyncOf(d, i)
           /\ \A k \in DOMAIN a.rows : map[k] \in DOMAIN c.rows /\ SyncOf(c, map[k]) = SyncOf(a, k)
           /\ DOMAIN map = DOMAIN a.rows
BY DEF SyncsKept, SyncOf

LEMMA RelationsSaid ==
    ASSUME NEW base, Sound(base), NEW a, NEW map, NEW c,
           SyncsKept(base.tables, a, c, map), c.relations = MergedRelations(base.tables, a, map)
    PROVE  Related(c) = Related(base.tables) \cup Related(a)
<1> DEFINE d == base.tables
           Syncs(x, r) == <<SyncOf(x, r[1]), SyncOf(x, r[2])>>
           At(r) == <<map[r[1]], map[r[2]]>>
           KnownTo(x) == {r \in x.relations : {r[1], r[2]} \subseteq DOMAIN x.rows}
<1>1. /\ \A i \in DOMAIN d.rows : i \in DOMAIN c.rows /\ SyncOf(c, i) = SyncOf(d, i)
      /\ \A k \in DOMAIN a.rows : map[k] \in DOMAIN c.rows /\ SyncOf(c, map[k]) = SyncOf(a, k)
      /\ DOMAIN map = DOMAIN a.rows
  BY SyncsSaid
<1>2. \A r \in d.relations : {r[1], r[2]} \subseteq DOMAIN d.rows
  BY DEF Sound, ForeignKeys
<1>3. c.relations = d.relations \cup {At(r) : r \in KnownTo(a)}
  BY <1>1 DEF MergedRelations
<1>4. ASSUME NEW r \in KnownTo(d) PROVE r \in KnownTo(c) /\ Syncs(c, r) = Syncs(d, r)
  BY <1>1, <1>3
<1>5. ASSUME NEW r \in KnownTo(a) PROVE At(r) \in KnownTo(c) /\ Syncs(c, At(r)) = Syncs(a, r)
  <2>1. At(r)[1] = map[r[1]] /\ At(r)[2] = map[r[2]] /\ {r[1], r[2]} \subseteq DOMAIN a.rows
    OBVIOUS
  <2> QED BY <1>1, <1>3, <2>1
<1>6. ASSUME NEW r \in KnownTo(c) PROVE r \in KnownTo(d) \/ \E x \in KnownTo(a) : r = At(x)
  BY <1>2, <1>3
<1>7. /\ Related(c) = {Syncs(c, r) : r \in KnownTo(c)}
      /\ Related(d) = {Syncs(d, r) : r \in KnownTo(d)}
      /\ Related(a) = {Syncs(a, r) : r \in KnownTo(a)}
  BY DEF Related
<1> HIDE DEF KnownTo, Syncs, At
<1>8. ASSUME NEW z \in Related(c) PROVE z \in Related(d) \cup Related(a)
  BY <1>4, <1>5, <1>6, <1>7
<1>9. ASSUME NEW z \in Related(d) \cup Related(a) PROVE z \in Related(c)
  BY <1>4, <1>5, <1>7
<1> QED BY <1>8, <1>9

LEMMA MentionsSaid ==
    ASSUME NEW base, Sound(base), NEW a, NEW map, MapOK(base, a, map), NEW c, NEW ents,
           MergedRowsOK(base, a, map, c.rows), SyncsKept(base.tables, a, c, map),
           EntitiesOK(base.tables.names, a, c.names, ents),
           c.mentions = MergedMentions(base.tables, a, ents, map)
    PROVE  Mentioned(c) = Mentioned(base.tables) \cup Mentioned(a)
<1> DEFINE d == base.tables
           Said(x, m) == <<x.names[m[1]], SyncOf(x, m[2])>>
           At(m) == <<ents[m[1]], map[m[2]]>>
           KnownTo(x) == {m \in x.mentions : m[1] \in DOMAIN x.names /\ m[2] \in DOMAIN x.rows}
<1>1. /\ \A i \in DOMAIN d.rows : i \in DOMAIN c.rows /\ SyncOf(c, i) = SyncOf(d, i)
      /\ \A k \in DOMAIN a.rows : map[k] \in DOMAIN c.rows /\ SyncOf(c, map[k]) = SyncOf(a, k)
      /\ DOMAIN map = DOMAIN a.rows
  BY SyncsSaid
<1>2. /\ \A i \in DOMAIN d.names : i \in DOMAIN c.names /\ c.names[i] = d.names[i]
      /\ DOMAIN ents = DOMAIN a.names
      /\ \A k \in DOMAIN a.names : ents[k] \in DOMAIN c.names /\ c.names[ents[k]] = a.names[k]
  BY DEF EntitiesOK
<1>3. c.mentions = d.mentions \cup {At(m) : m \in KnownTo(a)}
  BY <1>1, <1>2 DEF MergedMentions
<1>4. ASSUME NEW m \in KnownTo(d) PROVE m \in KnownTo(c) /\ Said(c, m) = Said(d, m)
  BY <1>1, <1>2, <1>3
<1>5. ASSUME NEW m \in KnownTo(a) PROVE At(m) \in KnownTo(c) /\ Said(c, At(m)) = Said(a, m)
  <2>1. At(m)[1] = ents[m[1]] /\ At(m)[2] = map[m[2]] /\ m[1] \in DOMAIN a.names /\ m[2] \in DOMAIN a.rows
    OBVIOUS
  <2> QED BY <1>1, <1>2, <1>3, <2>1
<1>6. ASSUME NEW m \in KnownTo(c) PROVE m \in KnownTo(d) \/ \E x \in KnownTo(a) : m = At(x)
  <2>1. CASE m \in d.mentions
    <3>1. m[1] \in DOMAIN d.names
      BY <2>1 DEF Sound, ForeignKeys
    <3>2. m[2] < base.next
      BY <2>1 DEF Sound
    <3>3. ASSUME m[2] \notin DOMAIN d.rows PROVE \E x \in DOMAIN a.rows : m[2] = map[x] /\ x \in New(d, a)
      <4>1. PICK x \in DOMAIN a.rows : m[2] = map[x]
        BY <3>3 DEF MergedRowsOK
      <4>2. map[x] \notin RowsOf(d, a.rows[x].sync)
        BY <3>3, <4>1 DEF RowsOf
      <4> QED BY <4>1, <4>2 DEF MapOK
    <3>4. ASSUME m[2] \notin DOMAIN d.rows PROVE FALSE
      <4>1. base.next <= m[2]
        BY <3>3, <3>4 DEF MapOK
      <4>2. base.next \in Nat /\ m[2] \in Nat
        BY <2>1, ArchiveAssumption DEF Sound, Database
      <4> QED BY <3>2, <4>1, <4>2
    <3> QED BY <2>1, <3>1, <3>4
  <2>2. CASE m \notin d.mentions
    BY <1>3, <2>2
  <2> QED BY <2>1, <2>2
<1>7. /\ Mentioned(c) = {Said(c, m) : m \in KnownTo(c)}
      /\ Mentioned(d) = {Said(d, m) : m \in KnownTo(d)}
      /\ Mentioned(a) = {Said(a, m) : m \in KnownTo(a)}
  BY DEF Mentioned
<1> HIDE DEF KnownTo, Said, At
<1>8. ASSUME NEW z \in Mentioned(c) PROVE z \in Mentioned(d) \cup Mentioned(a)
  BY <1>4, <1>5, <1>6, <1>7
<1>9. ASSUME NEW z \in Mentioned(d) \cup Mentioned(a) PROVE z \in Mentioned(c)
  BY <1>4, <1>5, <1>7
<1> QED BY <1>8, <1>9

LEMMA NamesSaid ==
    ASSUME NEW names, NEW a, NEW all, NEW ents, EntitiesOK(names, a, all, ents)
    PROVE  Range(all) = Range(names) \cup Range(a.names)
<1>1. ASSUME NEW i \in DOMAIN all PROVE all[i] \in Range(names) \cup Range(a.names)
  BY DEF EntitiesOK
<1>2. ASSUME NEW i \in DOMAIN names PROVE names[i] \in Range(all)
  BY DEF EntitiesOK, Range
<1>3. ASSUME NEW k \in DOMAIN a.names PROVE a.names[k] \in Range(all)
  BY DEF EntitiesOK, Range
<1> QED BY <1>1, <1>2, <1>3 DEF Range

\* The facts of one row and one text: those of the project, and one more for each of the
\* archive's.
FactPlaces(d, s, t) ==
    {k \in DOMAIN d.facts : d.facts[k].text = t /\ SyncOf(d, d.facts[k].row) = s}

FactsAdded(d, a, c, s, t) == FactCount(c, s, t) = FactCount(d, s, t) + FactCount(a, s, t)

LEMMA FactsSaid ==
    ASSUME NEW base, Sound(base), NEW a, Database(a), NEW map, NEW c, NEW at,
           SyncsKept(base.tables, a, c, map),
           MergedFactsOK(base.tables, a, map, c.facts, at),
           NEW s \in SyncIds, NEW t
    PROVE  FactsAdded(base.tables, a, c, s, t)
<1> DEFINE d == base.tables
           n == Len(d.facts)
           m == Len(c.facts) - n
           K == FactPlaces(c, s, t)
           A == FactPlaces(a, s, t)
           D == FactPlaces(d, s, t)
<1>1. /\ \A i \in DOMAIN d.rows : i \in DOMAIN c.rows /\ SyncOf(c, i) = SyncOf(d, i)
      /\ \A k \in DOMAIN a.rows : map[k] \in DOMAIN c.rows /\ SyncOf(c, map[k]) = SyncOf(a, k)
      /\ DOMAIN map = DOMAIN a.rows
  BY SyncsSaid
<1>2. /\ d.facts \in Seq(Facts) /\ n \in Nat /\ DOMAIN d.facts = 1..n
      /\ a.facts \in Seq(Facts)
      /\ \A k \in DOMAIN a.facts : a.facts[k] \in Facts
      /\ \A k \in DOMAIN d.facts : d.facts[k].row \in DOMAIN d.rows
  <2>1. d.facts \in Seq(Facts) /\ a.facts \in Seq(Facts)
    BY DEF Sound, Database, Facts
  <2>2. \A k \in DOMAIN d.facts : d.facts[k].row \in DOMAIN d.rows
    BY DEF Sound, ForeignKeys, Range
  <2> QED BY <2>1, <2>2
<1>3. /\ c.facts \in Seq(Facts) /\ m \in Nat /\ DOMAIN c.facts = 1..(n + m)
      /\ \A k \in 1..n : c.facts[k] = d.facts[k]
      /\ at \in [1..m -> {i \in DOMAIN a.facts : a.facts[i].row \in DOMAIN map}]
      /\ \A k, l \in 1..m : at[k] = at[l] => k = l
      /\ \A i \in DOMAIN a.facts : a.facts[i].row \in DOMAIN map => \E k \in 1..m : at[k] = i
      /\ \A k \in 1..m : /\ c.facts[n + k].row = map[a.facts[at[k]].row]
                         /\ c.facts[n + k].text = a.facts[at[k]].text
  <2>1. /\ c.facts \in Seq(Facts) /\ Len(c.facts) \in Nat /\ Len(c.facts) >= n
        /\ DOMAIN c.facts = 1..Len(c.facts)
    BY DEF MergedFactsOK
  <2>2. m \in Nat /\ n + m = Len(c.facts)
    <3> HIDE DEF n
    <3> QED BY <1>2, <2>1
  <2>3. \A k \in 1..n : c.facts[k] = d.facts[k]
    BY DEF MergedFactsOK
  <2>4. /\ at \in [1..m -> {i \in DOMAIN a.facts : a.facts[i].row \in DOMAIN map}]
        /\ \A k, l \in 1..m : at[k] = at[l] => k = l
        /\ \A i \in DOMAIN a.facts : a.facts[i].row \in DOMAIN map => \E k \in 1..m : at[k] = i
    BY DEF MergedFactsOK
  <2>5. \A k \in 1..m : /\ c.facts[n + k].row = map[a.facts[at[k]].row]
                        /\ c.facts[n + k].text = a.facts[at[k]].text
    BY DEF MergedFactsOK
  <2> HIDE DEF n, m
  <2> QED BY <2>1, <2>2, <2>3, <2>4, <2>5
<1> HIDE DEF n, m
<1>4. IsFiniteSet(K) /\ IsFiniteSet(1..n)
  <2>1. IsFiniteSet(1..(n + m)) /\ IsFiniteSet(1..n)
    BY <1>2, <1>3, FS_Interval
  <2>2. K \in SUBSET (1..(n + m))
    BY <1>3 DEF FactPlaces
  <2> QED BY <2>1, <2>2, FS_Subset
<1>5. K \cap (1..n) = D
  <2>1. ASSUME NEW k \in 1..n
        PROVE  k \in DOMAIN c.facts /\ c.facts[k] = d.facts[k] /\ k \in DOMAIN d.facts
               /\ SyncOf(c, c.facts[k].row) = SyncOf(d, d.facts[k].row)
    <3>1. k \in DOMAIN c.facts /\ c.facts[k] = d.facts[k] /\ k \in DOMAIN d.facts
      BY <1>2, <1>3
    <3>2. d.facts[k].row \in DOMAIN d.rows
      BY <1>2
    <3> QED BY <1>1, <3>1, <3>2
  <2> QED BY <1>2, <2>1 DEF FactPlaces
<1>6. ASSUME NEW k \in 1..m
      PROVE  /\ at[k] \in DOMAIN a.facts /\ n + k \in DOMAIN c.facts
             /\ n + k \in K <=> at[k] \in A
  <2>1. at[k] \in DOMAIN a.facts /\ a.facts[at[k]].row \in DOMAIN a.rows /\ a.facts[at[k]] \in Facts
    BY <1>1, <1>2, <1>3
  <2>2. PICK r : r = a.facts[at[k]].row
    OBVIOUS
  <2>3. c.facts[n + k].text = a.facts[at[k]].text /\ c.facts[n + k].row = map[r]
    BY <1>3, <2>1, <2>2 DEF Facts
  <2>4. SyncOf(c, c.facts[n + k].row) = SyncOf(a, a.facts[at[k]].row)
    BY <1>1, <2>1, <2>2, <2>3
  <2>5. n + k \in DOMAIN c.facts
    BY <1>2, <1>3
  <2> QED BY <2>1, <2>3, <2>4, <2>5 DEF FactPlaces
<1>7. \A k \in K \ (1..n) : k - n \in 1..m /\ n + (k - n) = k
  BY <1>2, <1>3 DEF FactPlaces
<1>8. PICK f : f = [k \in K \ (1..n) |-> at[k - n]]
  OBVIOUS
<1>9. f \in [K \ (1..n) -> A]
  BY <1>6, <1>7, <1>8
<1>10. ASSUME NEW x \in K \ (1..n), NEW y \in K \ (1..n), f[x] = f[y] PROVE x = y
  <2>1. at[x - n] = at[y - n]
    BY <1>8, <1>10
  <2>2. x - n = y - n
    BY <1>3, <1>7, <2>1
  <2>3. n + (x - n) = x /\ n + (y - n) = y
    BY <1>7
  <2> QED BY <2>2, <2>3
<1>11. ASSUME NEW z \in A PROVE \E x \in K \ (1..n) : f[x] = z
  <2>1. z \in DOMAIN a.facts /\ a.facts[z].row \in DOMAIN a.rows
    BY ArchiveAssumption DEF FactPlaces, SyncOf
  <2>2. PICK k \in 1..m : at[k] = z
    BY <1>1, <1>3, <2>1
  <2>3. n + k \in K /\ n + k \notin 1..n /\ (n + k) - n = k
    BY <1>2, <1>3, <1>6, <2>2
  <2> QED BY <1>8, <2>2, <2>3
<1>12. IsFiniteSet(K \ (1..n)) /\ Cardinality(K \ (1..n)) = Cardinality(K) - Cardinality(D)
  BY <1>4, <1>5, FS_Difference
<1>13. Cardinality(K \ (1..n)) = Cardinality(A)
  <2>1. PICK L : L = K \ (1..n)
    OBVIOUS
  <2>2. /\ IsFiniteSet(L) /\ f \in [L -> A] /\ \A x, y \in L : f[x] = f[y] => x = y
        /\ \A z \in A : \E x \in L : f[x] = z
    BY <1>9, <1>10, <1>11, <1>12, <2>1
  <2> HIDE DEF K, A
  <2>3. Cardinality(L) = Cardinality(A)
    BY ONLY <2>2, OneToOne
  <2> QED BY <2>1, <2>3
<1>14. Cardinality(K) \in Nat /\ Cardinality(D) \in Nat
  <2>1. D \in SUBSET (1..n)
    BY <1>5
  <2>2. IsFiniteSet(D)
    BY <1>4, <2>1, FS_Subset
  <2> QED BY <1>4, <2>2, FS_CardinalityType
<1>15. Cardinality(K) = Cardinality(D) + Cardinality(A)
  <2>1. Cardinality(A) = Cardinality(K) - Cardinality(D)
    BY <1>12, <1>13
  <2> HIDE DEF K, A, D
  <2> QED BY <1>14, <2>1
<1> QED BY <1>15 DEF FactsAdded, FactCount, FactPlaces

\* Into an empty project every edge goes as it is.
Weighed(d) ==
    {<<d.names[e[1]], d.names[e[2]], d.edges[e].weight, SyncOf(d, d.edges[e].row)>> :
       e \in {x \in DOMAIN d.edges : {x[1], x[2]} \subseteq DOMAIN d.names}}

LEMMA EdgesSaid ==
    ASSUME NEW d, DOMAIN d.edges = {}, NEW a, Payload(a), NEW map, NEW c, NEW ents, NEW names,
           SyncsKept(d, a, c, map), DOMAIN c.rows \subseteq 1..MaxRow,
           EntitiesOK(names, a, c.names, ents),
           c.edges = MergedEdges(d, a, ents, map)
    PROVE  Weighed(c) = Weighed(a)
<1> DEFINE known == {e \in DOMAIN a.edges : {e[1], e[2]} \subseteq DOMAIN ents /\ e[1] # e[2]}
           at == [e \in known |-> <<ents[e[1]], ents[e[2]]>>]
           src(e) == IF a.edges[e].row \in DOMAIN map THEN map[a.edges[e].row] ELSE 0
           Said(x, e) == <<x.names[e[1]], x.names[e[2]], x.edges[e].weight, SyncOf(x, x.edges[e].row)>>
           KnownTo(x) == {e \in DOMAIN x.edges : {e[1], e[2]} \subseteq DOMAIN x.names}
           Chosen(p) == CHOOSE x \in known : at[x] = p
           Alone(e) == [weight |-> a.edges[e].weight, row |-> src(e)]
<1>1. /\ \A k \in DOMAIN a.rows : map[k] \in DOMAIN c.rows /\ SyncOf(c, map[k]) = SyncOf(a, k)
      /\ DOMAIN map = DOMAIN a.rows
  BY SyncsSaid
<1>2. /\ DOMAIN ents = DOMAIN a.names
      /\ \A k \in DOMAIN a.names : ents[k] \in DOMAIN c.names /\ c.names[ents[k]] = a.names[k]
      /\ \A i, j \in DOMAIN a.names : a.names[i] = a.names[j] => i = j
  BY DEF EntitiesOK, Payload, Unique
<1>3. \A e \in DOMAIN a.edges : e \in Nat \X Nat /\ e[1] # e[2]
  BY DEF Payload, Database
<1>4. known = KnownTo(a)
  BY <1>2, <1>3
<1>5. ASSUME NEW e \in known, NEW g \in known, at[e] = at[g] PROVE e = g
  <2>1. /\ ents[e[1]] = ents[g[1]] /\ ents[e[2]] = ents[g[2]]
        /\ {e[1], e[2], g[1], g[2]} \subseteq DOMAIN a.names
    BY <1>2, <1>5
  <2>2. e[1] = g[1] /\ e[2] = g[2]
    BY <1>2, <2>1
  <2> QED BY <1>3, <2>2
<1>6. /\ DOMAIN c.edges = Range(at)
      /\ \A p \in Range(at) : c.edges[p] = Alone(Chosen(p))
  BY DEF MergedEdges
<1>7. ASSUME NEW e \in known
      PROVE  at[e] \in KnownTo(c) /\ Said(c, at[e]) = Said(a, e)
  <2>1. PICK p : p = at[e]
    OBVIOUS
  <2>2. p \in Range(at)
    BY <2>1 DEF Range
  <2>3. Chosen(p) = e
    <3> HIDE DEF known, at
    <3> QED BY <1>5, <2>1
  <2>4. c.edges[p] = Alone(e) /\ p \in DOMAIN c.edges
    <3> HIDE DEF known, at, Alone, Chosen
    <3> QED BY <1>6, <2>2, <2>3
  <2>5. p[1] = ents[e[1]] /\ p[2] = ents[e[2]] /\ {e[1], e[2]} \subseteq DOMAIN a.names
    BY <1>2, <2>1
  <2>6. /\ {p[1], p[2]} \subseteq DOMAIN c.names
        /\ c.names[p[1]] = a.names[e[1]] /\ c.names[p[2]] = a.names[e[2]]
    BY <1>2, <2>5
  <2>7. SyncOf(c, src(e)) = SyncOf(a, a.edges[e].row)
    <3>1. CASE a.edges[e].row \in DOMAIN a.rows
      BY <1>1, <3>1
    <3>2. CASE a.edges[e].row \notin DOMAIN a.rows
      <4>1. src(e) = 0 /\ 0 \notin DOMAIN c.rows
        BY <1>1, <3>2
      <4> QED BY <3>2, <4>1 DEF SyncOf
    <3> QED BY <3>1, <3>2
  <2>8. c.edges[p].weight = a.edges[e].weight /\ c.edges[p].row = src(e)
    BY <2>4
  <2>9. Said(c, p) = Said(a, e)
    <3> HIDE DEF src
    <3> QED BY <2>6, <2>7, <2>8
  <2>10. p \in KnownTo(c)
    BY <2>4, <2>6
  <2> HIDE DEF Said, KnownTo, at
  <2> QED BY <2>1, <2>9, <2>10
<1>8. ASSUME NEW p \in KnownTo(c) PROVE \E e \in known : p = at[e]
  <2>1. p \in Range(at)
    BY <1>6
  <2> QED BY <2>1 DEF Range
<1>9. /\ Weighed(c) = {Said(c, e) : e \in KnownTo(c)}
      /\ Weighed(a) = {Said(a, e) : e \in KnownTo(a)}
  BY DEF Weighed
<1> HIDE DEF KnownTo, Said, at, known
<1>10. ASSUME NEW z \in Weighed(c) PROVE z \in Weighed(a)
  BY <1>4, <1>7, <1>8, <1>9
<1>11. ASSUME NEW z \in Weighed(a) PROVE z \in Weighed(c)
  BY <1>4, <1>7, <1>9
<1> QED BY <1>10, <1>11

\* What the merge of any archive into a sound project says.
MergeSays(d, a, c) ==
    /\ RowsAdded(d, a, c)
    /\ \A s \in SyncIds, t \in Texts : FactsAdded(d, a, c, s, t)
    /\ Related(c) = Related(d) \cup Related(a)
    /\ Mentioned(c) = Mentioned(d) \cup Mentioned(a)
    /\ Range(c.names) = Range(d.names) \cup Range(a.names)
    /\ c.sessions = d.sessions \cup a.sessions \cup NamedSessions(a)
    /\ c.prompts = MergedPrompts(d, a)
    /\ DOMAIN d.edges = {} => Weighed(c) = Weighed(a)

LEMMA MergeSaysAll ==
    ASSUME NEW base, Sound(base), NEW a, Payload(a), Merge(base, a).next <= MaxRow + 1
    PROVE  MergeSays(base.tables, a, Merge(base, a).tables)
<1>1. PICK c : c = Merge(base, a).tables
  OBVIOUS
<1>2. PICK map, ents : MergedOK(base, a, c, map, ents)
  BY <1>1, MergedParts
<1>3. /\ MapOK(base, a, map) /\ MergedRowsOK(base, a, map, c.rows)
      /\ EntitiesOK(base.tables.names, a, c.names, ents)
      /\ c.sessions = base.tables.sessions \cup a.sessions \cup NamedSessions(a)
      /\ c.prompts = MergedPrompts(base.tables, a)
      /\ c.facts = MergedFacts(base.tables, a, map)
      /\ c.relations = MergedRelations(base.tables, a, map)
      /\ c.mentions = MergedMentions(base.tables, a, ents, map)
      /\ c.edges = MergedEdges(base.tables, a, ents, map)
  BY <1>2 DEF MergedOK
<1>4. SyncsKept(base.tables, a, c, map)
  BY <1>3, MergeKeepsSyncs
<1>5. RowsAdded(base.tables, a, c)
  BY <1>3, <1>4, RowsSaid
<1>6. Related(c) = Related(base.tables) \cup Related(a)
  BY <1>3, <1>4, RelationsSaid
<1>7. Mentioned(c) = Mentioned(base.tables) \cup Mentioned(a)
  BY <1>3, <1>4, MentionsSaid
<1>8. Range(c.names) = Range(base.tables.names) \cup Range(a.names)
  BY <1>3, NamesSaid
<1>9. Database(a) /\ Database(base.tables)
  BY DEF Payload, Sound
<1>10. \A k \in DOMAIN map : map[k] \in 1..MaxRow
  <2>1. base.next + Cardinality(New(base.tables, a)) <= MaxRow + 1
    BY DEF Merge
  <2>2. DOMAIN map = DOMAIN a.rows
    BY <1>3 DEF MapOK
  <2>3. \A k \in DOMAIN a.rows : map[k] \in 1..MaxRow
    BY <1>3, <2>1, MergedRowsSound
  <2> QED BY <2>2, <2>3
<1>11. ASSUME NEW s \in SyncIds, NEW t \in Texts
       PROVE  FactsAdded(base.tables, a, c, s, t)
  <2>1. PICK at : MergedFactsOK(base.tables, a, map, c.facts, at)
    BY <1>3, <1>9, <1>10, FactsAreMerged
  <2> QED BY <1>4, <1>9, <2>1, FactsSaid
<1>12. DOMAIN c.rows \subseteq 1..MaxRow
  <2>1. Sound(Merge(base, a))
    BY MergeSound
  <2> QED BY <1>1, <2>1 DEF Sound, Database
<1>13. DOMAIN base.tables.edges = {} => Weighed(c) = Weighed(a)
  BY <1>3, <1>4, <1>12, EdgesSaid
<1>14. MergeSays(base.tables, a, c)
  BY <1>3, <1>5, <1>6, <1>7, <1>8, <1>11, <1>13 DEF MergeSays
<1> QED BY <1>1, <1>14

\* Contents in the names used here.
LEMMA ContentsSaid ==
    ASSUME NEW d
    PROVE  /\ Contents(d).sessions = d.sessions \cup NamedSessions(d)
           /\ Contents(d).rows = Range(d.rows) /\ Contents(d).prompts = d.prompts
           /\ Contents(d).facts = [f \in SyncIds \X Texts |-> FactCount(d, f[1], f[2])]
           /\ Contents(d).relations = Related(d) /\ Contents(d).mentions = Mentioned(d)
           /\ Contents(d).names = Range(d.names) /\ Contents(d).edges = Weighed(d)
BY DEF Contents, Related, Mentioned, Weighed

LEMMA SameContents ==
    ASSUME NEW d, NEW e, d.sessions \cup NamedSessions(d) = e.sessions \cup NamedSessions(e),
           Range(d.rows) = Range(e.rows), d.prompts = e.prompts,
           \A s \in SyncIds, t \in Texts : FactCount(d, s, t) = FactCount(e, s, t),
           Related(d) = Related(e), Mentioned(d) = Mentioned(e),
           Range(d.names) = Range(e.names), Weighed(d) = Weighed(e)
    PROVE  Contents(d) = Contents(e)
<1>1. [f \in SyncIds \X Texts |-> FactCount(d, f[1], f[2])]
        = [f \in SyncIds \X Texts |-> FactCount(e, f[1], f[2])]
  OBVIOUS
<1>2. ASSUME NEW x
      PROVE  Contents(x) =
               [sessions |-> x.sessions \cup NamedSessions(x), rows |-> Range(x.rows),
                prompts |-> x.prompts,
                facts |-> [f \in SyncIds \X Texts |-> FactCount(x, f[1], f[2])],
                relations |-> Related(x), mentions |-> Mentioned(x),
                names |-> Range(x.names), edges |-> Weighed(x)]
  BY DEF Contents, Related, Mentioned, Weighed
<1> QED BY <1>1, <1>2

LEMMA EmptyFacts == \A s, t : FactCount(Nothing, s, t) = 0
<1> SUFFICES ASSUME NEW s, NEW t PROVE FactCount(Nothing, s, t) = 0
  OBVIOUS
<1>1. DOMAIN Nothing.facts = {}
  BY DEF Nothing
<1>2. {k \in DOMAIN Nothing.facts : Nothing.facts[k].text = t /\ SyncOf(Nothing, Nothing.facts[k].row) = s} = {}
  BY <1>1
<1> QED BY <1>2, FS_EmptySet DEF FactCount

LEMMA FactCountType ==
    ASSUME NEW d, Database(d), NEW s, NEW t
    PROVE  FactCount(d, s, t) \in Nat
<1>1. d.facts \in Seq(Facts)
  BY DEF Database, Facts
<1>2. DOMAIN d.facts = 1..Len(d.facts) /\ Len(d.facts) \in Nat
  BY <1>1
<1>3. IsFiniteSet(1..Len(d.facts))
  BY <1>2, FS_Interval
<1>4. FactPlaces(d, s, t) \in SUBSET (1..Len(d.facts))
  BY <1>2 DEF FactPlaces
<1>5. Cardinality(FactPlaces(d, s, t)) \in Nat
  BY <1>3, <1>4, FS_Subset, FS_CardinalityType
<1> QED BY <1>5 DEF FactCount, FactPlaces

LEMMA NamesTheSame ==
    ASSUME NEW c, NEW a, Range(c.rows) = Range(a.rows), c.prompts = a.prompts
    PROVE  NamedSessions(c) = NamedSessions(a)
<1>1. ASSUME NEW x PROVE {x.rows[k].session : k \in DOMAIN x.rows} = {r.session : r \in Range(x.rows)}
  BY DEF Range
<1> QED BY <1>1 DEF NamedSessions

\* Only Apply takes an import from "apply" to "requeue".
LEMMA OnlyApply ==
    ASSUME ArchiveInv, [Next]_vars, im.pc = "apply", im'.pc = "requeue"
    PROVE  Apply
<1>1. im' = im => FALSE
  OBVIOUS
<1>2. NoImport.pc = "idle"
  BY DEF NoImport
<1>3. ~UNCHANGED vars
  BY <1>1 DEF vars
<1>4. ~OtherClients
  BY <1>1 DEF OtherClients, StartSession, SaveObservation, SoftDelete, HardDelete, InsertFact,
              Update, SavePrompt, Write
<1>5. ~\E p \in Projects, s \in RawSeeds \cup {None} : StartExport(p, s)
  BY <1>1 DEF StartExport
<1>6. ~(DumpTable \/ EncodeFails \/ CreateTmp \/ WriteTmp \/ Rename)
  BY <1>1 DEF DumpTable, EncodeFails, CreateTmp, WriteTmp, Rename
<1>7. ~\E p \in Projects, m \in {"merge", "replace"}, s \in RawSeeds \cup {None} : ReadArchive(p, m, s)
  BY DEF ReadArchive
<1>8. ~Requeue /\ ~SkipRequeue /\ ~Crash
  BY <1>2 DEF Requeue, SkipRequeue, Crash
<1> QED BY <1>3, <1>4, <1>5, <1>6, <1>7, <1>8 DEF Next

\* What the transaction was given and what it left.
LEMMA Transaction ==
    ASSUME ArchiveInv, Apply, im'.pc = "requeue"
    PROVE  /\ im.project \in Projects /\ Sound(db[im.project]) /\ Payload(im.payload)
           /\ im.mode \in {"merge", "replace"}
           /\ ApplyPayload(db[im.project], im.payload, im.mode).next <= MaxRow + 1
           /\ db'[im.project] = ApplyPayload(db[im.project], im.payload, im.mode)
<1>1. PICK p : p = im.project
  OBVIOUS
<1>2. PICK d : d = ApplyPayload(db[p], im.payload, im.mode)
  OBVIOUS
<1>3. /\ p \in Projects /\ im.mode \in {"merge", "replace"} /\ Payload(im.payload)
      /\ Sound(db[p]) /\ DOMAIN db = Projects
  BY <1>1 DEF ArchiveInv, DbOK, ImportOK, Apply
<1>4. d.next <= MaxRow + 1
  BY <1>1, <1>2 DEF Apply
<1>5. Sound(d)
  BY <1>2, <1>3, <1>4, ApplySound
<1>6. db' = [db EXCEPT ![p] = d]
  BY <1>1, <1>2, <1>5 DEF Apply, Sound
<1> QED BY <1>1, <1>2, <1>3, <1>4, <1>6

(* An import with replace leaves what the archive says and nothing else, for     *)
(* every archive that an export or a crash can leave and every project: all ids  *)
(* change in apply_payload and no reference is lost, added or moved.             *)
THEOREM RestoresAreFaithful == Spec => RestoreIsFaithful
<1>1. ASSUME ArchiveInv, [Next]_vars, Applied("replace")
      PROVE  Contents(db'[im.project].tables) = Contents(im.payload)
  <2>1. PICK base : base = Wipe(db[im.project])
    OBVIOUS
  <2>2. PICK a : a = im.payload
    OBVIOUS
  <2>3. Apply
    BY <1>1, OnlyApply DEF Applied
  <2>4. /\ Sound(db[im.project]) /\ Payload(a) /\ Merge(base, a).next <= MaxRow + 1
        /\ db'[im.project] = Merge(base, a)
    BY <1>1, <2>1, <2>2, <2>3, Transaction DEF Applied, ApplyPayload
  <2>5. Sound(base) /\ base.tables = Nothing
    BY <2>1, <2>4, WipeSound
  <2>6. PICK c : c = Merge(base, a).tables
    OBVIOUS
  <2>7. MergeSays(Nothing, a, c)
    BY <2>4, <2>5, <2>6, MergeSaysAll
  <2>8. /\ Nothing.sessions = {} /\ Range(Nothing.rows) = {} /\ Nothing.prompts = {}
        /\ Range(Nothing.names) = {} /\ DOMAIN Nothing.edges = {}
        /\ Nothing.relations = {} /\ Nothing.mentions = {}
    BY DEF Nothing, Range
  <2>9. Related(Nothing) = {} /\ Mentioned(Nothing) = {}
    BY <2>8 DEF Related, Mentioned
  <2>10. Range(c.rows) = Range(a.rows)
    BY <2>7, <2>8 DEF MergeSays, RowsAdded
  <2>11. c.prompts = a.prompts
    BY <2>7, <2>8 DEF MergeSays, MergedPrompts
  <2>12. /\ Related(c) = Related(a) /\ Mentioned(c) = Mentioned(a)
         /\ Range(c.names) = Range(a.names) /\ Weighed(c) = Weighed(a)
    BY <2>7, <2>8, <2>9 DEF MergeSays
  <2>13. \A s \in SyncIds, t \in Texts : FactCount(c, s, t) = FactCount(a, s, t)
    <3>1. ASSUME NEW s \in SyncIds, NEW t \in Texts
          PROVE  FactCount(c, s, t) = FactCount(a, s, t)
      <4>1. FactCount(c, s, t) = 0 + FactCount(a, s, t)
        BY <2>7, EmptyFacts DEF MergeSays, FactsAdded
      <4>2. FactCount(a, s, t) \in Nat
        BY <2>4, FactCountType DEF Payload
      <4> QED BY <4>1, <4>2
    <3> QED BY <3>1
  <2>14. NamedSessions(c) = NamedSessions(a)
    BY <2>10, <2>11, NamesTheSame
  <2>15. c.sessions \cup NamedSessions(c) = a.sessions \cup NamedSessions(a)
    BY <2>7, <2>8, <2>14 DEF MergeSays
  <2>16. Contents(c) = Contents(a)
    BY <2>10, <2>11, <2>12, <2>13, <2>15, SameContents
  <2> QED BY <2>2, <2>4, <2>6, <2>16
<1>2. ArchiveInv /\ [Next]_vars =>
        [Applied("replace") => Contents(db'[im.project].tables) = Contents(im.payload)]_vars
  BY <1>1
<1> QED BY ArchiveInductive, <1>2, PTL DEF Spec, RestoreIsFaithful

(* An import with merge takes the archive's version of what both have, keeps the *)
(* project's own rows with their facts, relations and mentions, and adds the     *)
(* archive's, fact by fact.                                                      *)
THEOREM MergesKeepBoth == Spec => MergeKeepsBoth
<1> DEFINE Both(old, new, arc) ==
             /\ new.rows = arc.rows \cup {r \in old.rows : \A a \in arc.rows : a.sync # r.sync}
             /\ \A f \in SyncIds \X Texts : new.facts[f] = old.facts[f] + arc.facts[f]
             /\ new.relations = old.relations \cup arc.relations
             /\ new.mentions = old.mentions \cup arc.mentions
             /\ new.names = old.names \cup arc.names
<1>1. ASSUME ArchiveInv, [Next]_vars, Applied("merge")
      PROVE  Both(Contents(db[im.project].tables), Contents(db'[im.project].tables),
                  Contents(im.payload))
  <2>1. PICK base : base = db[im.project]
    OBVIOUS
  <2>2. PICK a : a = im.payload
    OBVIOUS
  <2>3. Apply
    BY <1>1, OnlyApply DEF Applied
  <2>4. /\ Sound(base) /\ Payload(a) /\ Merge(base, a).next <= MaxRow + 1
        /\ db'[im.project] = Merge(base, a)
    BY <1>1, <2>1, <2>2, <2>3, Transaction DEF Applied, ApplyPayload
  <2>5. PICK c : c = Merge(base, a).tables
    OBVIOUS
  <2>6. MergeSays(base.tables, a, c)
    BY <2>4, <2>5, MergeSaysAll
  <2>7. PICK old, new, arc : old = Contents(base.tables) /\ new = Contents(c) /\ arc = Contents(a)
    OBVIOUS
  <2>8. new.rows = arc.rows \cup {r \in old.rows : \A x \in arc.rows : x.sync # r.sync}
    <3>1. new.rows = Range(c.rows) /\ old.rows = Range(base.tables.rows) /\ arc.rows = Range(a.rows)
      BY <2>7, ContentsSaid
    <3>2. RowsAdded(base.tables, a, c)
      BY <2>6 DEF MergeSays
    <3> QED BY <3>1, <3>2 DEF RowsAdded
  <2>9. ASSUME NEW f \in SyncIds \X Texts
        PROVE  new.facts[f] = old.facts[f] + arc.facts[f]
    <3>1. PICK s \in SyncIds, t \in Texts : s = f[1] /\ t = f[2]
      OBVIOUS
    <3>2. FactCount(c, s, t) = FactCount(base.tables, s, t) + FactCount(a, s, t)
      BY <2>6 DEF MergeSays, FactsAdded
    <3>3. ASSUME NEW x PROVE Contents(x).facts[f] = FactCount(x, s, t)
      <4>1. Contents(x).facts = [g \in SyncIds \X Texts |-> FactCount(x, g[1], g[2])]
        BY ContentsSaid
      <4> QED BY <3>1, <4>1
    <3>4. /\ new.facts[f] = FactCount(c, s, t) /\ old.facts[f] = FactCount(base.tables, s, t)
          /\ arc.facts[f] = FactCount(a, s, t)
      BY <2>7, <3>3
    <3> QED BY <3>2, <3>4
  <2>10. /\ new.relations = old.relations \cup arc.relations
         /\ new.mentions = old.mentions \cup arc.mentions
         /\ new.names = old.names \cup arc.names
    BY <2>6, <2>7, ContentsSaid DEF MergeSays
  <2>11. Both(old, new, arc)
    BY <2>8, <2>9, <2>10
  <2> QED BY <2>1, <2>2, <2>4, <2>5, <2>7, <2>11
<1>2. ArchiveInv /\ [Next]_vars =>
        [Applied("merge") =>
           LET old == Contents(db[im.project].tables)
               new == Contents(db'[im.project].tables)
               arc == Contents(im.payload)
           IN /\ new.rows = arc.rows \cup {r \in old.rows : \A a \in arc.rows : a.sync # r.sync}
              /\ \A f \in SyncIds \X Texts : new.facts[f] = old.facts[f] + arc.facts[f]
              /\ new.relations = old.relations \cup arc.relations
              /\ new.mentions = old.mentions \cup arc.mentions
              /\ new.names = old.names \cup arc.names]_vars
  BY <1>1
<1> QED BY ArchiveInductive, <1>2, PTL DEF Spec, MergeKeepsBoth

==============================================================================
