----------------------------- MODULE MemArchive -----------------------------
(***************************************************************************)
(* Portable .mem archives: mem_export.rs and mem_import.rs in the daemon,  *)
(* snapshot.rs and mem_archive.rs in memlayer-sync.                        *)
(*                                                                         *)
(* ExportMem reads the tables of one project one after the other, on a     *)
(* read connection and outside any transaction, while the write thread of  *)
(* the project goes on: an archive need not be a state the project was     *)
(* ever in.  ImportMem applies an archive in one transaction on the write  *)
(* thread of a project that has ids of its own, so every reference of the  *)
(* archive has to be carried over to the new ids.                          *)
(*                                                                         *)
(* A database is a record of tables.  Rows keep their rowid; facts are in  *)
(* rowid order; an entity's id is its place in the table.  A row's title,  *)
(* content and timestamps are one text; which fact supersedes which, and   *)
(* confidence, salience and dates of the other tables, are left out.       *)
(***************************************************************************)
EXTENDS Naturals, Sequences, FiniteSets, Functions, SequencesExt, Lists

CONSTANTS
  Projects, SyncIds, Sessions, Texts, Names,  \* Names of entities
  Start,        \* the contents the projects may begin with
  RawSeeds,     \* seed phrases as typed
  Normalized,   \* their normal form, or TooShort; None for no seed
  TooShort, None, Torn,
  MaxRow,       \* bound on row ids
  MaxWrites,    \* bound on the writes of other clients
  MaxExports, MaxImports, MaxCrashes

VARIABLES
  db,      \* the database of each project
  ex,      \* the ExportMem request under way
  tmp,     \* <file>.mem.tmp
  file,    \* <file>.mem
  im,      \* the ImportMem request under way, or the last one
  writes, exports, imports, crashes

vars == <<db, ex, tmp, file, im, writes, exports, imports, crashes>>

-----------------------------------------------------------------------------
Row == [sync : SyncIds, session : Sessions, text : Texts, live : BOOLEAN]

(* insert_edge starts a weight with 1 and adds to it, so that max(1.0) of  *)
(* merge_graph finds nothing to do.  0 for no observation.                 *)
Edge == [weight : Nat \ {0}, row : 0..MaxRow]

Tables == <<"sessions", "rows", "prompts", "facts", "relations", "names",
            "mentions", "edges">>

(* Tables of the right types, whether they are of one project or were read *)
(* one after the other.                                                    *)
Database(d) ==
  /\ DOMAIN d = Range(Tables)
  /\ d.sessions \subseteq Sessions
  /\ DOMAIN d.rows \subseteq 1..MaxRow /\ Range(d.rows) \subseteq Row
  /\ d.prompts \subseteq [sync : SyncIds, session : Sessions]
  /\ d.facts \in Seq([row : 1..MaxRow, text : Texts])
  /\ d.relations \subseteq (1..MaxRow) \X (1..MaxRow)
  /\ d.names \in Seq(Names)
  /\ d.mentions \subseteq Nat \X (1..MaxRow)
  /\ \A e \in DOMAIN d.edges : e \in Nat \X Nat /\ e[1] # e[2]
  /\ Range(d.edges) \subseteq Edge

(* The unique indexes: sync_id of a table's rows, norm_name of entities.   *)
Unique(d) ==
  /\ \A i, j \in DOMAIN d.rows : d.rows[i].sync = d.rows[j].sync => i = j
  /\ \A p, q \in d.prompts : p.sync = q.sync => p = q
  /\ \A i, j \in DOMAIN d.names : d.names[i] = d.names[j] => i = j

Nothing ==
  [sessions |-> {}, rows |-> << >>, prompts |-> {}, facts |-> << >>, relations |-> {},
   names |-> << >>, mentions |-> {}, edges |-> << >>]

(* The foreign keys of the schema.  entity_mentions.observation_id and     *)
(* entity_edges.src_observation_id have none.                              *)
ForeignKeys(d) ==
  /\ \A i \in DOMAIN d.rows : d.rows[i].session \in d.sessions
  /\ \A p \in d.prompts : p.session \in d.sessions
  /\ \A f \in Range(d.facts) : f.row \in DOMAIN d.rows
  /\ \A r \in d.relations : {r[1], r[2]} \subseteq DOMAIN d.rows
  /\ \A m \in d.mentions : m[1] \in DOMAIN d.names
  /\ \A e \in DOMAIN d.edges : {e[1], e[2]} \subseteq DOMAIN d.names

(* A project: tables that obey the schema, and the next rowid, above every *)
(* id in use or ever used: the ids are AUTOINCREMENT.                      *)
Sound(base) ==
  /\ DOMAIN base = {"tables", "next"} /\ base.next \in 1..MaxRow + 1
  /\ Database(base.tables) /\ Unique(base.tables) /\ ForeignKeys(base.tables)
  /\ \A i \in DOMAIN base.tables.rows : i < base.next
  /\ \A m \in base.tables.mentions : m[2] < base.next

ASSUME ArchiveAssumption ==
  /\ Normalized \in [RawSeeds \cup {None} -> RawSeeds \cup {TooShort, None}]
  /\ \A s \in RawSeeds \cup {None} : Normalized[s] = None <=> s = None
  /\ \A n \in {MaxRow, MaxWrites, MaxExports, MaxImports, MaxCrashes} : n \in Nat
  /\ None \notin SyncIds
  /\ \A d \in Start : DOMAIN d = Projects /\ \A p \in Projects : Sound(d[p])

-----------------------------------------------------------------------------
(* apply_payload                                                           *)

RowsOf(d, s) == {i \in DOMAIN d.rows : d.rows[i].sync = s}

(* obs_id_map: a row with the same sync_id is updated, any other gets the  *)
(* next id; the archive's rows come in the order of their own ids.         *)
New(d, a) == {k \in DOMAIN a.rows : RowsOf(d, a.rows[k].sync) = {}}

RowMap(d, next, a) ==
  [k \in DOMAIN a.rows |->
     IF k \in New(d, a) THEN next + Cardinality({j \in New(d, a) : j < k})
     ELSE CHOOSE i \in RowsOf(d, a.rows[k].sync) : TRUE]

MergedNames(names, a) == names \o Sift(a.names, Range(a.names) \ Range(names))

(* ent_id_map: entities are matched by norm_name. *)
EntityMap(names, a) ==
  LET all == MergedNames(names, a)
  IN [k \in DOMAIN a.names |-> CHOOSE i \in DOMAIN all : all[i] = a.names[k]]

MergedRows(d, a, map) ==
  [i \in DOMAIN d.rows \cup Range(map) |->
     IF i \in Range(map) THEN a.rows[CHOOSE k \in DOMAIN map : map[k] = i] ELSE d.rows[i]]

\* Mutant: facts keep the row ids of the archive.
MergedFactsUnmapped(d, a, map) == d.facts \o Sift(a.facts, {f \in Range(a.facts) : f.row \in DOMAIN map})

(* A fact is inserted even if the project has the same one already. *)
MergedFacts(d, a, map) ==
  LET kept == Sift(a.facts, {f \in Range(a.facts) : f.row \in DOMAIN map})
  IN d.facts \o [k \in DOMAIN kept |-> [kept[k] EXCEPT !.row = map[kept[k].row]]]

MergedPrompts(d, a) ==
  d.prompts \cup {p \in a.prompts : \A q \in d.prompts : q.sync # p.sync}

\* Mutant: relations keep the row ids of the archive.
MergedRelationsKeepsOld(d, a, map) ==
  d.relations \cup {r \in a.relations : {r[1], r[2]} \subseteq DOMAIN map}

MergedRelations(d, a, map) ==
  d.relations \cup
  {<<map[r[1]], map[r[2]]>> : r \in {x \in a.relations : {x[1], x[2]} \subseteq DOMAIN map}}

MergedMentions(d, a, ents, map) ==
  d.mentions \cup
  {<<ents[m[1]], map[m[2]]>> :
     m \in {x \in a.mentions : x[1] \in DOMAIN ents /\ x[2] \in DOMAIN map}}

(* An edge that is there already gets the archive's weight on top of its own. *)
MergedEdges(d, a, ents, map) ==
  LET known == {e \in DOMAIN a.edges : {e[1], e[2]} \subseteq DOMAIN ents /\ e[1] # e[2]}
      at    == [e \in known |-> <<ents[e[1]], ents[e[2]]>>]
      src(e) == IF a.edges[e].row \in DOMAIN map THEN map[a.edges[e].row] ELSE 0
  IN [p \in DOMAIN d.edges \cup Range(at) |->
        IF p \notin Range(at) THEN d.edges[p]
        ELSE LET e == CHOOSE x \in known : at[x] = p
             IN IF p \in DOMAIN d.edges
                THEN [weight |-> d.edges[p].weight + a.edges[e].weight,
                      row    |-> IF src(e) = 0 THEN d.edges[p].row ELSE src(e)]
                ELSE [weight |-> a.edges[e].weight, row |-> src(e)]]

\* Mutant: ensure_session is not called.
NamedSessionsIgnored(a) == {}

(* ensure_session: rows and prompts bring the session they name. *)
NamedSessions(a) ==
  {a.rows[k].session : k \in DOMAIN a.rows} \cup {p.session : p \in a.prompts}

Merge(base, a) ==
  LET d    == base.tables
      map  == RowMap(d, base.next, a)
      ents == EntityMap(d.names, a)
  IN [tables |->
        [sessions  |-> d.sessions \cup a.sessions \cup NamedSessions(a),
         rows      |-> MergedRows(d, a, map),
         prompts   |-> MergedPrompts(d, a),
         facts     |-> MergedFacts(d, a, map),
         relations |-> MergedRelations(d, a, map),
         names     |-> MergedNames(d.names, a),
         mentions  |-> MergedMentions(d, a, ents, map),
         edges     |-> MergedEdges(d, a, ents, map)],
      next |-> base.next + Cardinality(New(d, a))]

(* wipe_project empties the tables; the rowids go on where they were. *)
Wipe(base) == [base EXCEPT !.tables = Nothing]

ApplyPayload(base, a, mode) == Merge(IF mode = "replace" THEN Wipe(base) ELSE base, a)

-----------------------------------------------------------------------------
(* encode and decode: an archive is obfuscated, or sealed under a key made *)
(* from the normal form of the seed.  A file may be cut short.             *)

Encode(a, seed) == [key |-> Normalized[seed], payload |-> a]

(* What ImportMem makes of the file and the seed given with it. *)
DecodeError(f, seed) ==
  CASE f = None -> "no file"
    [] f = Torn -> "not an archive"
    [] f \notin {None, Torn} ->
         CASE f.key = None -> "none"
           [] f.key # None /\ seed = None -> "seed required"
           [] f.key # None /\ seed # None ->
                CASE Normalized[seed] = TooShort -> "seed too short"
                  [] Normalized[seed] = f.key -> "none"
                  [] OTHER -> "invalid seed"

-----------------------------------------------------------------------------
NoExport == [pc |-> "idle", project |-> None, table |-> 0, seed |-> None, read |-> Nothing]
NoImport == [pc |-> "idle", project |-> None, mode |-> "merge", payload |-> Nothing,
             before |-> 0, offered |-> {}, skipped |-> FALSE, answer |-> "none"]

Init ==
  /\ db \in Start
  /\ ex = NoExport /\ tmp = None /\ file = None /\ im = NoImport
  /\ writes = 0 /\ exports = 0 /\ imports = 0 /\ crashes = 0

(* Writes of other clients, each one request of the write thread.          *)
Write(p, d) ==
  /\ writes < MaxWrites
  /\ writes' = writes + 1
  /\ db' = [db EXCEPT ![p].tables = d]
  /\ UNCHANGED <<ex, tmp, file, im, exports, imports, crashes>>

StartSession(p, s) ==
  LET d == db[p].tables IN s \notin d.sessions /\ Write(p, [d EXCEPT !.sessions = @ \cup {s}])

SaveObservation(p, s, session, t) ==
  LET d == db[p].tables
  IN /\ writes < MaxWrites /\ session \in d.sessions /\ RowsOf(d, s) = {}
     /\ db[p].next <= MaxRow
     /\ writes' = writes + 1
     /\ db' = [db EXCEPT ![p] =
                 [tables |-> [d EXCEPT !.rows =
                    [i \in DOMAIN d.rows \cup {db[p].next} |->
                       IF i = db[p].next
                       THEN [sync |-> s, session |-> session, text |-> t, live |-> TRUE]
                       ELSE d.rows[i]]],
                  next |-> db[p].next + 1]]
     /\ UNCHANGED <<ex, tmp, file, im, exports, imports, crashes>>

Update(p, i, t) ==
  LET d == db[p].tables
  IN i \in DOMAIN d.rows /\ d.rows[i].live /\ Write(p, [d EXCEPT !.rows[i].text = t])

SoftDelete(p, i) ==
  LET d == db[p].tables
  IN i \in DOMAIN d.rows /\ d.rows[i].live /\ Write(p, [d EXCEPT !.rows[i].live = FALSE])

(* ON DELETE CASCADE takes facts and relations; the graph keeps its rows. *)
HardDelete(p, i) ==
  LET d == db[p].tables
  IN /\ i \in DOMAIN d.rows
     /\ Write(p, [d EXCEPT !.rows = [j \in DOMAIN d.rows \ {i} |-> d.rows[j]],
                           !.facts = Sift(@, {f \in Range(@) : f.row # i}),
                           !.relations = {r \in @ : i \notin {r[1], r[2]}}])

SavePrompt(p, s, session) ==
  LET d == db[p].tables
  IN /\ session \in d.sessions /\ \A q \in d.prompts : q.sync # s
     /\ Write(p, [d EXCEPT !.prompts = @ \cup {[sync |-> s, session |-> session]}])

InsertFact(p, i) ==
  LET d == db[p].tables
  IN i \in DOMAIN d.rows /\ Write(p, [d EXCEPT !.facts = Append(@, [row |-> i, text |-> d.rows[i].text])])

OtherClients ==
  \E p \in Projects :
    \/ \E s \in Sessions : StartSession(p, s)
    \/ \E s \in SyncIds, n \in Sessions, t \in Texts : SaveObservation(p, s, n, t)
    \/ \E i \in DOMAIN db[p].tables.rows :
         SoftDelete(p, i) \/ HardDelete(p, i) \/ InsertFact(p, i) \/ \E t \in Texts : Update(p, i, t)
    \/ \E s \in SyncIds, n \in Sessions : SavePrompt(p, s, n)

-----------------------------------------------------------------------------
(* ExportMem *)

StartExport(p, seed) ==
  /\ ex.pc = "idle" /\ exports < MaxExports
  /\ exports' = exports + 1
  /\ ex' = [NoExport EXCEPT !.pc = "dump", !.project = p, !.table = 1, !.seed = seed]
  /\ UNCHANGED <<db, tmp, file, im, writes, imports, crashes>>

(* dump_payload: one SELECT per table, with the writers in between. *)
DumpTable ==
  /\ ex.pc = "dump" /\ ex.table <= Len(Tables)
  /\ LET t == Tables[ex.table]
     IN ex' = [ex EXCEPT !.read[t] = db[ex.project].tables[t], !.table = @ + 1]
  /\ UNCHANGED <<db, tmp, file, im, writes, exports, imports, crashes>>

(* encode: a seed that is too short fails before anything is written. *)
EncodeFails ==
  /\ ex.pc = "dump" /\ ex.table > Len(Tables)
  /\ Normalized[ex.seed] = TooShort
  /\ ex' = NoExport
  /\ UNCHANGED <<db, tmp, file, im, writes, exports, imports, crashes>>

(* write_atomic: create or truncate, write, rename. *)
CreateTmp ==
  /\ ex.pc = "dump" /\ ex.table > Len(Tables)
  /\ Normalized[ex.seed] # TooShort
  /\ tmp' = Torn
  /\ ex' = [ex EXCEPT !.pc = "write"]
  /\ UNCHANGED <<db, file, im, writes, exports, imports, crashes>>

WriteTmp ==
  /\ ex.pc = "write"
  /\ tmp' = Encode(ex.read, ex.seed)
  /\ ex' = [ex EXCEPT !.pc = "rename"]
  /\ UNCHANGED <<db, file, im, writes, exports, imports, crashes>>

Rename ==
  /\ ex.pc = "rename"
  /\ file' = tmp /\ tmp' = None
  /\ ex' = NoExport
  /\ UNCHANGED <<db, im, writes, exports, imports, crashes>>

-----------------------------------------------------------------------------
(* ImportMem *)

(* The file is read and decoded before the write thread hears of it. *)
ReadArchive(p, mode, seed) ==
  /\ im.pc \in {"idle", "answered"} /\ imports < MaxImports
  /\ imports' = imports + 1
  /\ LET e == DecodeError(file, seed)
     IN im' = [NoImport EXCEPT !.project = p, !.mode = mode, !.answer = e,
                               !.pc = IF e = "none" THEN "apply" ELSE "answered",
                               !.payload = IF e = "none" THEN file.payload ELSE @]
  /\ UNCHANGED <<db, ex, tmp, file, writes, exports, crashes>>

(* apply_on_write_thread: one transaction, rolled back if a statement fails. *)
Apply ==
  /\ im.pc = "apply"
  /\ LET p == im.project
         d == ApplyPayload(db[p], im.payload, im.mode)
     IN /\ d.next <= MaxRow + 1
        /\ IF ForeignKeys(d.tables)
           THEN /\ db' = [db EXCEPT ![p] = d]
                /\ im' = [im EXCEPT !.pc = "requeue", !.before = d.next]
           ELSE /\ im' = [im EXCEPT !.pc = "answered", !.answer = "refused"]
                /\ UNCHANGED db
  /\ UNCHANGED <<ex, tmp, file, writes, exports, imports, crashes>>

\* Mutant: rows that were updated are not embedded again.
RequeueNewOnly ==
  /\ im.pc = "requeue"
  /\ LET d == db[im.project].tables
     IN im' = [im EXCEPT !.pc = "answered", !.answer = "ok",
                         !.offered = {i \in DOMAIN d.rows : d.rows[i].live /\ i > Cardinality(DOMAIN im.payload.rows)}]
  /\ UNCHANGED <<db, ex, tmp, file, writes, exports, imports, crashes>>

(* imported_observation_ids: every live row of the project is offered to   *)
(* the embed queue.                                                        *)
Requeue ==
  /\ im.pc = "requeue"
  /\ LET d == db[im.project].tables
     IN im' = [im EXCEPT !.pc = "answered", !.answer = "ok",
                         !.offered = {i \in DOMAIN d.rows : d.rows[i].live}]
  /\ UNCHANGED <<db, ex, tmp, file, writes, exports, imports, crashes>>

(* There is no embed pool, or the rows cannot be read: the import answers  *)
(* as if they had been offered.                                            *)
SkipRequeue ==
  /\ im.pc = "requeue"
  /\ im' = [im EXCEPT !.pc = "answered", !.answer = "ok", !.skipped = TRUE]
  /\ UNCHANGED <<db, ex, tmp, file, writes, exports, imports, crashes>>

(* The daemon dies; files and databases stay as they are. *)
Crash ==
  /\ crashes < MaxCrashes
  /\ crashes' = crashes + 1
  /\ ex' = NoExport /\ im' = NoImport
  /\ UNCHANGED <<db, tmp, file, writes, exports, imports>>

Next ==
  \/ OtherClients
  \/ \E p \in Projects, s \in RawSeeds \cup {None} : StartExport(p, s)
  \/ DumpTable \/ EncodeFails \/ CreateTmp \/ WriteTmp \/ Rename
  \/ \E p \in Projects, m \in {"merge", "replace"}, s \in RawSeeds \cup {None} : ReadArchive(p, m, s)
  \/ Apply \/ Requeue \/ SkipRequeue \/ Crash

Spec == Init /\ [][Next]_vars

-----------------------------------------------------------------------------
(* What a database says, whatever the ids: references are followed to      *)
(* sync_ids and names; what points nowhere says nothing.                   *)

SyncOf(d, i) == IF i \in DOMAIN d.rows THEN d.rows[i].sync ELSE None

FactCount(d, s, t) ==
  Cardinality({k \in DOMAIN d.facts : d.facts[k].text = t /\ SyncOf(d, d.facts[k].row) = s})

Contents(d) ==
  [sessions  |-> d.sessions \cup NamedSessions(d),
   rows      |-> Range(d.rows),
   prompts   |-> d.prompts,
   facts     |-> [f \in SyncIds \X Texts |-> FactCount(d, f[1], f[2])],
   relations |-> {<<SyncOf(d, r[1]), SyncOf(d, r[2])>> :
                    r \in {x \in d.relations : {x[1], x[2]} \subseteq DOMAIN d.rows}},
   mentions  |-> {<<d.names[m[1]], SyncOf(d, m[2])>> :
                    m \in {x \in d.mentions : x[1] \in DOMAIN d.names /\ x[2] \in DOMAIN d.rows}},
   names     |-> Range(d.names),
   edges     |-> {<<d.names[e[1]], d.names[e[2]], d.edges[e].weight, SyncOf(d, d.edges[e].row)>> :
                    e \in {x \in DOMAIN d.edges : {x[1], x[2]} \subseteq DOMAIN d.names}}]

(* The state has its type, and every foreign key holds in every database.  *)
TypeOK ==
  /\ DOMAIN db = Projects /\ \A p \in Projects : Sound(db[p])
  /\ ex.pc \in {"idle", "dump", "write", "rename"}
  /\ im.pc \in {"idle", "apply", "requeue", "answered"}

(* An archive read while others were writing can still be imported: its    *)
(* rows and prompts may name sessions, and its facts, relations and        *)
(* mentions rows, that it does not have, and no statement fails over it.   *)
ImportNeverRefused == im.answer # "refused"

(* Embeddings are left out of archives and made anew: when an import was   *)
(* answered, every live row it brought or updated was offered to the queue,*)
(* unless there was no pool or the rows could not be read, which the       *)
(* answer does not tell.                                                   *)
ImportedIsOffered ==
  im.answer = "ok" /\ ~im.skipped =>
    \A i \in DOMAIN db[im.project].tables.rows :
      LET r == db[im.project].tables.rows[i]
      IN (r.live /\ i < im.before /\ \E k \in DOMAIN im.payload.rows : im.payload.rows[k].sync = r.sync)
           => i \in im.offered

Applied(mode) == im.pc = "apply" /\ im'.pc = "requeue" /\ im.mode = mode

(* Import with replace leaves the archive's contents and nothing else,     *)
(* every fact, relation, mention and edge on the row it was about, though  *)
(* all ids have changed.                                                   *)
RestoreIsFaithful ==
  [][Applied("replace") => Contents(db'[im.project].tables) = Contents(im.payload)]_vars

(* Import with merge takes the archive's version of what both have, keeps  *)
(* the project's own rows with all that hangs on them, and adds the rest.  *)
MergeKeepsBoth ==
  [][Applied("merge") =>
       LET old == Contents(db[im.project].tables)
           new == Contents(db'[im.project].tables)
           arc == Contents(im.payload)
       IN /\ new.rows = arc.rows \cup {r \in old.rows : \A a \in arc.rows : a.sync # r.sync}
          /\ \A f \in SyncIds \X Texts : new.facts[f] = old.facts[f] + arc.facts[f]
          /\ new.relations = old.relations \cup arc.relations
          /\ new.mentions = old.mentions \cup arc.mentions
          /\ new.names = old.names \cup arc.names]_vars

=============================================================================
