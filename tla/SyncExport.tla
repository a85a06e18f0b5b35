------------------------------ MODULE SyncExport ------------------------------
(***************************************************************************)
(* SyncExport (memlayer-daemon: sync_export.rs; memlayer-storage:             *)
(* sync_state.rs; memlayer-sync: chunk.rs, manifest.rs): the rows that were    *)
(* not exported yet go into a chunk file of the project's git repository, the  *)
(* chunk is added to the repository's manifest, and the rows are marked as     *)
(* exported. Exports of one project exclude each other; saves and deletes,      *)
(* other projects with the same repository, and crashes come in between, and a *)
(* client that goes away ends its export at any await while a file operation   *)
(* or a request to the write thread it has started runs on without the mutex.  *)
(*                                                                          *)
(* A chunk is named by the hash of its content: here it is that content. A     *)
(* file is written in one step (Registry takes such a write apart). A soft      *)
(* delete is one more revision of its row: the export takes such rows too.      *)
(***************************************************************************)
EXTENDS Naturals, FiniteSets, Sequences

CONSTANTS
    Projects,
    Exporters,   \* SyncExport requests; each may be sent again
    Session, Observations, Prompts,   \* rows a project may get
    RepoOf,      \* the repository of each project
    None,
    MaxRev, MaxCrashes, MaxCancels, MaxFaults, MaxExports  \* bounds for model checking

Rows == {Session} \cup Observations \cup Prompts
Repos == {RepoOf[p] : p \in Projects}

ASSUME SyncExportAssumption ==
    /\ RepoOf \in [Projects -> Repos]
    /\ Session \notin Observations \cup Prompts /\ Observations \cap Prompts = {}
    /\ None \notin Exporters
    /\ {MaxRev, MaxCrashes, MaxCancels, MaxFaults, MaxExports} \subseteq Nat

Line == Projects \X Rows \X (1..MaxRev)   \* one line of a chunk: a row in one revision
NoExport == [at |-> "idle", no |-> 0, project |-> None, lines |-> {}, base |-> {}]

VARIABLES
    rev,       \* writes each row has had: the revision it is in
    there,     \* rows of each project
    deleted,   \* history: rows that have been deleted for good
    exported,  \* rows whose exported_at is set
    chunks,    \* chunk files of each repository
    manifest,  \* manifest.json of each repository: the chunks it lists
    temp,      \* manifest.tmp of each repository
    mutex,     \* the exporter that holds the export mutex of each project
    export,    \* what each request does
    jobs,      \* per project, the Custom requests sent to its write thread
    imported,  \* sync_chunks of each project
    orphans,   \* writes and renames of manifest.tmp whose request was cancelled
    crashes, cancels, faults, exports,
    orphaned,  \* history: there has been such a write
    unmarked   \* history: a listed chunk's mark request failed, was not sent or was dropped

vars == <<rev, there, deleted, exported, chunks, manifest, temp, mutex, export, jobs, imported,
          orphans, crashes, cancels, faults, exports, orphaned, unmarked>>
db == <<rev, there, deleted, exported, imported>>
files == <<chunks, manifest, temp, orphans>>
counts == <<crashes, cancels, faults, exports, orphaned, unmarked>>

Places == {"idle", "lock", "observations", "sessions", "prompts", "chunk", "read", "write",
           "rename", "send", "wait"}
Manifest == SUBSET SUBSET Line   \* the chunks of a repository

Export == [at : Places, no : Nat, project : Projects \cup {None}, lines : SUBSET Line,
           base : Manifest]
Job == [no : Nat, chunk : SUBSET Line, at : {"observations", "sessions", "prompts", "record"}]

RowsOK ==
    /\ rev \in [Projects -> [Rows -> 0..MaxRev]]
    /\ there \in [Projects -> SUBSET Rows] /\ deleted \in [Projects -> SUBSET Rows]
    /\ \A p \in Projects : \A r \in there[p] : rev[p][r] > 0
    /\ exported \in [Projects -> SUBSET Rows]
    /\ imported \in [Projects -> Manifest]

FilesOK ==
    /\ chunks \in [Repos -> Manifest]
    /\ manifest \in [Repos -> Manifest]
    /\ temp \in [Repos -> Manifest \cup {None}]
    /\ orphans \subseteq Repos \X (Manifest \cup {None})

\* A request that is past the lock holds the mutex of its project.
ExportsOK ==
    /\ mutex \in [Projects -> Exporters \cup {None}]
    /\ export \in [Exporters -> Export]
    /\ \A e \in Exporters :
        /\ export[e].at # "idle" => export[e].project \in Projects
        /\ export[e].at \notin {"idle", "lock"} => mutex[export[e].project] = e

CountsOK ==
    /\ {crashes, cancels, faults, exports} \subseteq Nat
    /\ orphaned \in BOOLEAN /\ unmarked \in BOOLEAN

TypeOK == RowsOK /\ FilesOK /\ ExportsOK /\ jobs \in [Projects -> Seq(Job)] /\ CountsOK

Init ==
    /\ rev = [p \in Projects |-> [r \in Rows |-> 0]]
    /\ there = [p \in Projects |-> {}] /\ deleted = [p \in Projects |-> {}]
    /\ exported = [p \in Projects |-> {}]
    /\ chunks = [r \in Repos |-> {}] /\ manifest = [r \in Repos |-> {}]
    /\ temp = [r \in Repos |-> None]
    /\ mutex = [p \in Projects |-> None]
    /\ export = [e \in Exporters |-> NoExport]
    /\ jobs = [p \in Projects |-> <<>>]
    /\ imported = [p \in Projects |-> {}]
    /\ orphans = {}
    /\ crashes = 0 /\ cancels = 0 /\ faults = 0 /\ exports = 0
    /\ orphaned = FALSE /\ unmarked = FALSE

------------------------------------------------------------------------------
\* Saves and deletes. An observation or prompt needs its session, and its id, unlike a
\* session's, is never given out again; a row that is written again keeps its exported_at.
Save(p, r) ==
    /\ rev[p][r] < MaxRev
    /\ r # Session => Session \in there[p] /\ r \notin deleted[p]
    /\ rev' = [rev EXCEPT ![p][r] = @ + 1]
    /\ there' = [there EXCEPT ![p] = @ \cup {r}]
    /\ UNCHANGED <<deleted, exported, imported, files, mutex, export, jobs, counts>>

\* A hard delete, or delete_session, which the foreign keys refuse while a row refers to
\* the session.
Delete(p, r) ==
    /\ r \in there[p] /\ (r = Session => there[p] = {Session})
    /\ there' = [there EXCEPT ![p] = @ \ {r}]
    /\ exported' = [exported EXCEPT ![p] = @ \ {r}]
    /\ deleted' = [deleted EXCEPT ![p] = @ \cup {r}]
    /\ UNCHANGED <<rev, imported, files, mutex, export, jobs, counts>>

------------------------------------------------------------------------------
\* One export, from one await to the next.

Repo(e) == RepoOf[export[e].project]
Chunk(e) == export[e].lines
Goes(e, from, to) == export[e].at = from /\ export' = [export EXCEPT ![e].at = to]

\* Mutant: an export that ends keeps the mutex.
EndKeepsMutex(e) ==
    /\ export' = [export EXCEPT ![e] = NoExport]
    /\ UNCHANGED mutex

\* The end of an export, by an answer or an error: its guard releases the mutex.
End(e) ==
    /\ export' = [export EXCEPT ![e] = NoExport]
    /\ mutex' = [p \in Projects |-> IF mutex[p] = e THEN None ELSE mutex[p]]

Start(e, p) ==
    /\ export[e] = NoExport /\ exports < MaxExports
    /\ export' = [export EXCEPT ![e] = [NoExport EXCEPT !.at = "lock", !.no = exports + 1,
                                                     !.project = p]]
    /\ exports' = exports + 1
    /\ UNCHANGED <<db, files, mutex, jobs, crashes, cancels, faults, orphaned, unmarked>>

Lock(e) ==
    /\ Goes(e, "lock", "observations")
    /\ mutex[export[e].project] = None
    /\ mutex' = [mutex EXCEPT ![export[e].project] = e]
    /\ UNCHANGED <<db, files, jobs, counts>>

\* Mutant: WHERE exported_at IS NULL is missing.
UnexportedOrNot(p, kind) ==
    {<<p, r, rev[p][r]>> : r \in kind \cap there[p]}

\* select_unexported_for_export: three SELECTs of one connection, without a transaction.
Unexported(p, kind) == {<<p, r, rev[p][r]>> : r \in (kind \cap there[p]) \ exported[p]}

Select(e, from, kind, to) ==
    /\ export[e].at = from
    /\ export' = [export EXCEPT ![e].at = to,
                                ![e].lines = @ \cup Unexported(export[e].project, kind)]
    /\ UNCHANGED <<db, files, mutex, jobs, counts>>

\* Mutant: the sessions come first.
SelectRowsSessionsFirst(e) ==
    \/ Select(e, "observations", {Session}, "sessions")
    \/ Select(e, "sessions", Observations, "prompts")
    \/ Select(e, "prompts", Prompts, "chunk")

SelectRows(e) ==
    \/ Select(e, "observations", Observations, "sessions")
    \/ Select(e, "sessions", {Session}, "prompts")
    \/ Select(e, "prompts", Prompts, "chunk")

\* Nothing to export: an empty answer.
NothingToExport(e) ==
    /\ export[e].at = "chunk" /\ Chunk(e) = {}
    /\ End(e)
    /\ UNCHANGED <<db, files, jobs, counts>>

\* write_chunk_atomic: a temporary file and a rename; an existing chunk is kept. A crash
\* or cancellation leaves a temporary file at most, with the content of its name.
WriteChunk(e) ==
    /\ Chunk(e) # {}
    /\ Goes(e, "chunk", "read")
    /\ chunks' = [chunks EXCEPT ![Repo(e)] = @ \cup {Chunk(e)}]
    /\ UNCHANGED <<db, manifest, temp, orphans, mutex, jobs, counts>>

\* Mutant: a manifest that cannot be read counts as empty.
ReadManifestOrEmpty(e) ==
    /\ export[e].at = "read"
    /\ \E base \in {manifest[Repo(e)], {}} :
        export' = [export EXCEPT ![e].at = IF Chunk(e) \in base THEN "send" ELSE "write",
                                 ![e].base = base]
    /\ UNCHANGED <<db, files, mutex, jobs, counts>>

\* append_atomic: read, then write and rename unless the chunk is listed already.
ReadManifest(e) ==
    /\ export[e].at = "read"
    /\ export' = [export EXCEPT
            ![e].at = IF Chunk(e) \in manifest[Repo(e)] THEN "send" ELSE "write",
            ![e].base = manifest[Repo(e)]]
    /\ UNCHANGED <<db, files, mutex, jobs, counts>>

WriteManifest(e) ==
    /\ Goes(e, "write", "rename")
    /\ temp' = [temp EXCEPT ![Repo(e)] = export[e].base \cup {Chunk(e)}]
    /\ UNCHANGED <<db, chunks, manifest, orphans, mutex, jobs, counts>>

\* The rename moves whatever the temporary file holds; without one it fails.
RenameManifest(e) ==
    /\ export[e].at = "rename"
    /\ IF temp[Repo(e)] # None
       THEN /\ manifest' = [manifest EXCEPT ![Repo(e)] = temp[Repo(e)]]
            /\ temp' = [temp EXCEPT ![Repo(e)] = None]
            /\ export' = [export EXCEPT ![e].at = "send"] /\ UNCHANGED mutex
       ELSE End(e) /\ UNCHANGED <<manifest, temp>>
    /\ UNCHANGED <<db, chunks, orphans, jobs, counts>>

\* A file operation fails, or the write thread takes no request any more.
Fails(e) ==
    /\ export[e].at \in {"chunk", "read", "write", "rename", "send"} /\ faults < MaxFaults
    /\ faults' = faults + 1
    /\ unmarked' = (unmarked \/ export[e].at = "send")
    /\ End(e)
    /\ UNCHANGED <<db, files, jobs, crashes, cancels, exports, orphaned>>

SendMark(e) ==
    /\ Goes(e, "send", "wait")
    /\ jobs' = [jobs EXCEPT ![export[e].project] = Append(@, [no |-> export[e].no, chunk |-> Chunk(e),
                                        at |-> "observations"])]
    /\ UNCHANGED <<db, files, mutex, counts>>

\* The client goes away. Its file write goes on, its place in the write thread's
\* channel stays.
Cancel(e) ==
    /\ export[e].at # "idle" /\ cancels < MaxCancels
    /\ cancels' = cancels + 1
    /\ IF export[e].at \in {"write", "rename"}
       THEN /\ orphans' = orphans \cup
                   {<<Repo(e), IF export[e].at = "write" THEN export[e].base \cup {Chunk(e)}
                               ELSE None>>}
            /\ orphaned' = TRUE
       ELSE UNCHANGED <<orphans, orphaned>>
    /\ End(e)
    /\ UNCHANGED <<db, chunks, manifest, temp, jobs, crashes, faults, exports, unmarked>>

Orphan(o) ==
    /\ IF o[2] # None
       THEN temp' = [temp EXCEPT ![o[1]] = o[2]] /\ UNCHANGED manifest
       ELSE IF temp[o[1]] # None
       THEN /\ manifest' = [manifest EXCEPT ![o[1]] = temp[o[1]]]
            /\ temp' = [temp EXCEPT ![o[1]] = None]
       ELSE UNCHANGED <<temp, manifest>>
    /\ orphans' = orphans \ {o}
    /\ UNCHANGED <<db, chunks, mutex, export, jobs, counts>>

------------------------------------------------------------------------------
\* The Custom closure, one statement (and one commit) after the other.

\* Mutant: every row of the table is marked.
MarkedAll(chunk, kind) == kind

Marked(chunk, kind) == {r \in kind : \E l \in chunk : l[2] = r}

\* One UPDATE of mark_exported, of the rows that are still there, in whatever revision.
Mark(p, from, kind, to) ==
    /\ jobs[p] # <<>> /\ Head(jobs[p]).at = from
    /\ exported' = [exported EXCEPT
                        ![p] = @ \cup (Marked(Head(jobs[p]).chunk, kind) \cap there[p])]
    /\ jobs' = [jobs EXCEPT ![p][1].at = to]
    /\ UNCHANGED <<rev, there, deleted, imported, files, mutex, export, counts>>

MarkExported(p) ==
    \/ Mark(p, "observations", Observations, "sessions")
    \/ Mark(p, "sessions", {Session}, "prompts")
    \/ Mark(p, "prompts", Prompts, "record")

\* The reply of the request at the head, if somebody still waits for it.
Reply(p) ==
    /\ jobs' = [jobs EXCEPT ![p] = Tail(@)]
    /\ IF \E e \in Exporters : export[e].no = Head(jobs[p]).no
       THEN \E e \in Exporters : export[e].no = Head(jobs[p]).no /\ End(e)
       ELSE UNCHANGED <<export, mutex>>

\* record_chunk_imported.
RecordChunk(p) ==
    /\ jobs[p] # <<>> /\ Head(jobs[p]).at = "record"
    /\ imported' = [imported EXCEPT ![p] = @ \cup {Head(jobs[p]).chunk}]
    /\ Reply(p)
    /\ UNCHANGED <<rev, there, deleted, exported, files, counts>>

\* A statement of the closure fails, or the request is dropped behind another Custom: what
\* was marked stays marked, the chunk stays listed, and the export answers an error.
MarkFails(p) ==
    /\ jobs[p] # <<>> /\ faults < MaxFaults
    /\ faults' = faults + 1 /\ unmarked' = TRUE
    /\ Reply(p)
    /\ UNCHANGED <<db, files, crashes, cancels, exports, orphaned>>

\* The daemon dies: files and database stay.
Crash ==
    /\ crashes < MaxCrashes /\ crashes' = crashes + 1
    /\ export' = [e \in Exporters |-> NoExport]
    /\ mutex' = [p \in Projects |-> None]
    /\ jobs' = [p \in Projects |-> <<>>]
    /\ orphans' = {}
    /\ UNCHANGED <<db, chunks, manifest, temp, cancels, faults, exports, orphaned, unmarked>>

Proceed(e) ==
    \/ Lock(e) \/ SelectRows(e) \/ NothingToExport(e) \/ WriteChunk(e)
    \/ ReadManifest(e) \/ WriteManifest(e) \/ RenameManifest(e) \/ SendMark(e)

WriteThread(p) == MarkExported(p) \/ RecordChunk(p)

Next ==
    \/ \E p \in Projects, r \in Rows : Save(p, r) \/ Delete(p, r)
    \/ \E e \in Exporters : (\E p \in Projects : Start(e, p)) \/ Proceed(e) \/ Fails(e) \/ Cancel(e)
    \/ \E o \in orphans : Orphan(o)
    \/ \E p \in Projects : WriteThread(p) \/ MarkFails(p)
    \/ Crash

\* Requests run on, and a tokio mutex is fair.
Spec ==
    /\ Init /\ [][Next]_vars
    /\ \A e \in Exporters : WF_vars(Proceed(e)) /\ SF_vars(Lock(e))
    /\ \A p \in Projects : WF_vars(WriteThread(p))

------------------------------------------------------------------------------
\* Properties. A cancelled request whose write or rename of manifest.tmp still runs may
\* undo the next export: they are stated for histories without one.

Listed(p) == UNION manifest[RepoOf[p]]
Lists(chunk, p, r) == \E l \in chunk : l[1] = p /\ l[2] = r

\* A row marked as exported, which no later export selects, is in a chunk that the
\* manifest lists, whatever failed or crashed on the way.
MarkedIsListed ==
    ~orphaned => \A p \in Projects : \A r \in exported[p] : Lists(Listed(p), p, r)

\* An importer that has all listed chunks finds the session of every observation in
\* them, although the tables are read one after the other while rows are saved and
\* deleted. An observation that has been deleted for good is excepted: if it went after
\* the first SELECT, and its session before the second, it is listed alone.
ObservationsHaveSessions ==
    ~orphaned => \A p \in Projects : \A r \in Observations \ deleted[p] :
        Lists(Listed(p), p, r) => Lists(Listed(p), p, Session)

\* Exports of one project at once do not list a row twice (the test TS-19), as long as
\* none is cut short after its chunk was listed: neither by a crash, nor by its client,
\* nor by a mark request that fails or is dropped. A session that was deleted and started
\* again under its id is another row.
NoRowListedTwice ==
    crashes = 0 /\ cancels = 0 /\ ~unmarked =>
        \A p \in Projects : \A r \in Rows \ deleted[p] : \A c, d \in manifest[RepoOf[p]] :
            Lists(c, p, r) /\ Lists(d, p, r) => c = d

\* The manifest is append-only (docs/PRD.md: "Manifest append-only").
ManifestAppendOnly ==
    [][~orphaned' => \A r \in Repos : manifest[r] \subseteq manifest'[r]]_vars

\* Every export ends, also one that waits for the mutex of one that was cancelled.
EveryExportEnds == \A e \in Exporters : export[e].at # "idle" ~> export[e].at = "idle"

=============================================================================
