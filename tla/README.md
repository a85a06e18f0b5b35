# memlayer: TLA+ models, checks and proofs

memlayer is a local memory service for coding agents: a daemon keeps one SQLite
database per project; CLI, MCP server and UI talk to it over gRPC on a Unix
socket. This directory holds TLA+ models of the parts where interleavings,
crashes and partial failures matter, TLC runs on small instances, and TLAPS
proofs for all values of the constants.

- [1. Inventory](#1-inventory): the system's parts and what makes them correct
- [2. Modules](#2-modules): what is modelled, and how it corresponds to the code
- [3. Runs](#3-runs): what TLC checks, bounds, fairness
- [4. Proofs](#4-proofs)
- [5. Where code and documentation disagree](#5-where-code-and-documentation-disagree)
- [6. Plan](#6-plan)
- [7. Not modelled](#7-not-modelled)

To run: `tlc -config WriteThread.cfg MCWriteThread.tla`,
`tlapm StorageProofs.tla`. `PROJECT.json` lists the runs, the source lines
of every definition, the mutants that show each property can fail, the hazards
and the findings. Paths below are relative to `crates/`.

## 1. Inventory

| Component | State | Operations | Interacts with | Module |
|---|---|---|---|---|
| Write thread (`memlayer-storage/src/write.rs`) | bounded channel, batch, deferred replies, SQLite transaction | `send`, `run_write_loop`, `process_batch`; twelve kinds of `WriteRequest`, and `Custom` closures | every handler and worker sends to it; replies go back over oneshot channels | `WriteThread` |
| Observation handlers (`write.rs`) | `observations`, `observation_relations` | save (replay, topic upsert, hash dedupe, insert, supersede), update, soft and hard delete | run on the write thread; the conflict judge is asked inside the transaction | `ObservationStore` |
| Derived rows (`write.rs`, migrations) | embeddings (vec + meta), facts, mentions, mirror | insert, replace, cascade | written later by workers, keyed by an observation id | `SavePipeline` |
| Embed and extract workers (`embed_worker.rs`, `extract_worker.rs`) | bounded in-memory queues | `try_queue`, retry, pause, write back | read a snapshot, compute for seconds, send to the write thread | `SavePipeline` |
| Resolve worker, Decide (`resolve_worker.rs`, `decide.rs`) | a queue; relations `conflicts_with`, `resolved_by` | judge a pair, apply the verdict | two judges of one pair; several write requests per verdict | `Resolve` |
| Anchors and verification (`anchor.rs`, `verify.rs`, `verify_worker.rs`) | anchors and verdicts per observation | stamp, verify against git HEAD | a git repository, the write thread | `Anchors` |
| Registry (`registry.rs`) | map and LRU list of open projects under one mutex; `projects/<key>/config.json` | `get_or_open`, `set_repo_path`, eviction | every RPC; spawns write threads | `Registry` |
| Sessions, prompts, project administration (`service.rs`, `sessions.rs`, `projects_admin.rs`, `memlayer-cli/src/cmd_project.rs`) | tables and files of several projects | upsert, end, delete; merge, soft and hard delete, prune | two databases in one transaction; list first, delete later | `Workspace` |
| Reads, search, briefing (`read.rs`, `service.rs`, `memlayer-retrieval`, `token_budget.rs`) | none | lanes, fusion, decay, rerank, window, filter, quota, budget, graph | several queries per request, writers in between | `Retrieval`, `AllReads`, `Ranking` |
| Sync export (`sync_export.rs`, `memlayer-sync`) | chunk files, manifest, `exported_at`, `sync_chunks` | select, write chunk, write manifest, mark, record | reads one connection, writes through `Custom`; a mutex per project | `SyncExport` |
| Archives (`snapshot.rs`, `mem_archive.rs`, `mem_export.rs`, `mem_import.rs`) | a `.mem` file | dump table by table, seal, write; merge or replace | ids of two databases; the embed queue | `MemArchive` |
| Daemon lifecycle, auto-spawn (`lifecycle.rs`, `server.rs`, `memlayer-cli/src/autospawn.rs`, `cmd_daemon.rs`, `cmd_hook.rs`) | pid file, lock, socket | start, bind, drain, stop, restart, repair | several CLIs at once, crashed daemons | `Lifecycle` |
| Installer (`cmd_skill.rs`, `mcp_install.rs`, `git_hooks.rs`, `cmd_uninstall.rs`) | files of the user and of other programs | install, uninstall | owners who edit, runs that were killed | `ClientFiles` |
| gRPC service (`memlayer-daemon/src/service.rs`) | none of its own | 57 RPCs, several of them sequences of writes | registry, write thread, worker queues | in the modules above |
| Global mirror (`global.rs`) | `global.sqlite`, a copy of saved rows | upsert and search under a mutex | `save_observation`, last; the search of all projects; updates and deletes do not reach it | `SavePipeline`, `AllReads` |
| Sync import (`sync_state.rs`) | rows by `sync_id` | last-writer-wins upsert | called by unit tests only; the RPCs are stubs | |
| Disk monitor (`diskmon.rs`) | read-only flag | poll free space | consulted by write RPCs | |
| Tokens and grants (`memlayer-daemon/src/tokens.rs`, `auth.rs`) | token tables | issue, revoke, check | each RPC | |
| Models, judge | caches of model files | embed, rerank, extract, judge | workers; the judge also the write thread | free choices |
| CLI, MCP, client, UI | none that lasts | one RPC or a few per command | the daemon | |

The hard behaviour is in few places:

- **Batches.** Replies are fired after the commit of a batch that other callers
  share; `BEGIN`, a handler, a `COMMIT` can fail; a `Custom` splits a batch.
  Correct means: what was acknowledged stays, what was reported as dropped is
  not there, everyone hears something, the order of acceptance is the order of
  application.
- **The registry's two critical sections.** Between lookup and insert a handler
  writes files and starts a thread while others do the same for the same
  project. Correct means: whoever holds a `ProjectState` can use it, list and
  map agree, evicted threads go away.
- **Supersession.** Saves, updates and deletes in any order must leave every
  `superseded_by_id` pointing at a live row, and a save may hide nothing but
  what it replaces.
- **Answers that arrive late.** Embeddings, facts, judges' verdicts and
  verification results are computed from a row, or a commit, that has changed
  or gone when they are written. Correct means: they never land on another row,
  a row is withdrawn for a reason that was true, and what was queued is done.
- **Requests in several steps.** An export, an import, a merge, a prune, a
  session's deletion, a search: others act between any two, and a crash ends
  them anywhere. Correct means: nothing saved is lost, nothing is marked that is
  not in a file, no reference dangles, nothing deleted shows up.
- **Several processes.** CLIs that spawn, stop and repair daemons; installers
  that change files whose owner edits them.

The full list, each at its line and with the properties that cover it, is
`hazards` in `PROJECT.json`.

## 2. Modules

| Module | What it is |
|---|---|
| `WriteService` | abstract: what a project's write path promises |
| `WriteThread` | `WriteHandle::send`, `run_write_loop`, `process_batch`; implements `WriteService` |
| `ObservationStore` | the observations table and its four write handlers |
| `Registry` | `get_or_open`, `atomic_write`, the LRU, thread lifetimes, `hard_delete_project` |
| `Lifecycle` | commands and daemons around lock, pid file and socket |
| `SavePipeline` | `save_observation` after the row is written, the workers, reindexing |
| `Resolve` | judges of conflicting pairs |
| `Anchors` | stamping and verification against a moving HEAD |
| `SyncExport` | exports into a repository shared by projects |
| `MemArchive` | archives between databases |
| `Workspace` | sessions, prompts and observations of several projects |
| `Ranking`, `Retrieval` | pure ranking operators; search and briefing as a pipeline of reads |
| `AllReads` | `Retrieval` with the searches of all projects and the timeline |
| `ClientFiles` | install and uninstall |
| `Lists` | lists of finite sets: ORDER BY as `Listed`, `Ascending` and `Keyed`, WHERE as `Sift` |
| `MC...` | constants for TLC |
| `ListsProofs` | lemmas about `Lists` |
| `StorageProofs` | theorems about `WriteThread`, `ObservationStore`, `Anchors` |
| `DaemonProofs` | about `Registry`, `Lifecycle`, `ClientFiles` |
| `SavePipelineProofs`, `SyncExportProofs`, `ResolveProofs` | about the module of that name |
| `ArchiveProofs` | about `MemArchive` |
| `ServiceProofs` | about `Workspace` and the reads, `Retrieval` and `AllReads` |

How they meet. A *thread slot* of `Registry` is one `WriteThread`: `Registry`
says when it starts and when its last sender goes, `WriteThread` what happens
to the requests in between (`Evict` and `Exit` there are `Insert` and `Exit`
here). A *handled request* of `WriteThread` that is not a `Custom` is one step
of the other modules of a project (`ObservationStore`, `SavePipeline`, `Resolve`,
`Workspace`): the thread runs handlers one after the other, which is why a handler
may be one step, and the transaction says whether its step lasts. A `Custom`
runs in autocommit mode: where its statements can be seen apart, or torn by a
crash, they are steps (`SavePipeline` `Reindex`, `SyncExport` `WriteThread`, `Anchors`
`VerifyApply`, `Workspace` `MergeTarget` and `MergeSource`). `Lifecycle` says that
one daemon, hence one `Registry`, works on a data directory. They are checked
apart because their product adds states and no interaction beyond these.

### WriteThread

| State | Code |
|---|---|
| `caller[r]` | the handler's `send(..)` and `oneshot::Receiver::await`: `sending` (blocked in `send`), `waiting`, the reply (`ok`, `err`), `dropped` (`RecvError`), `gone` (client left), `lost` (daemon died) |
| `cached` | the registry holds the `ProjectState`, hence a `WriteHandle` |
| `chan` | `crossbeam_channel::bounded` |
| `phase`, `batch`, `replies` | program counter, `batch` and `replies` of `process_batch` |
| `tx`, `db` | whose statements are in the open transaction / in the database |

`Recv`, `Collect` and `CloseBatch` are the collection window: its end, by
timeout or because the batch is full, may come at any moment. `Begin`,
`Handle`, `Commit`, `SendReply` are the normal batch, `BeginFails` and
`CommitFails` its two early returns, which drop the batch and the
closures. At a `Custom`, the open transaction is committed (`Commit`), the
closures collected so far fire (`SendReply`), the closure runs on the bare
connection (`RunCustom`) and `process_batch` returns, which drops what was
behind it in the batch (`DropRest`). A handler that fails may leave part of its
statements in the transaction, as there is no savepoint: hence `wrote` is free
when the result is `err`. `Crash` is the end of the process at any point; a
panic of a handler is one, since the release profile aborts on panic.

### ObservationStore

`rows` is the table by id, `lastId` the AUTOINCREMENT counter, `edges` the
`supersedes` edges of `observation_relations`. `handle_save_observation` is
one action per outcome (`SaveKnown`, `UpsertTopic`, `FoldDuplicate`,
`InsertBeside`, `InsertSuperseding`), each with the conditions of the early
returns before it; the others are `Update`, `SoftDelete`, `HardDelete`. What
the code delegates to SQLite is modelled by what it does: the foreign key
without `ON DELETE` on `superseded_by_id`, the cascade to the edges, and the
comparison of `created_at` (`2026-01-02T..`) with `datetime('now', ..)`
(`2026-01-02 ..`) as strings, which on the cutoff's day is always true because
`'T'` sorts after a space; `DayTicks` sets the length of a day. The title match
of the full-text index is the relation `Matches`; ranks, and so the choice
among several matches, are open. The verdict of the judge is a free choice.

### Registry

`get_or_open` is cut where its mutex is not held. First section: `Hit` or
`Miss`. Between: `ReadConfig`; for a new project `CreateTemp`, `WriteTemp`,
`RenameTemp` (the steps of `atomic_write`, on a path all openers share);
`SpawnWriteThread`. Second section: `Insert`, with the eviction. `fd` follows
the file an opener has open through the renames and removals of others.
`Release` is the end of the handler, `Exit` the end of a thread all of whose
senders are gone, `DeleteDb` and `DeleteDir` the two effects of
`hard_delete_project`, which goes past the registry. `OpenFails` is any I/O error on the
way. The check `read_in_flight == 0` in `try_evict_oldest` is always true (the
counter is never raised) and so is not in the model.

### Lifecycle

| State | Code |
|---|---|
| `verb`, `cli` | what a command does and where it is: `ensure_running`, `start`, `stop`, `restart`, `force_start`, `dispatch_session_start` |
| `daemon` | where a daemon is between `run` and its exit |
| `holder` | who holds the flock on `daemon.lock`; the kernel frees it when its process ends |
| `sock`, `pid` | whose socket and pid file are there |

A command that finds no socket waits for the lock (`LockSpawn`), looks again,
spawns, unlocks and polls; every daemon tries the lock once (`TryLock`), binds
over whatever socket file is there, serves, and on a signal or `Shutdown` drains,
unlinks and unlocks. Commands may also remove a socket they believe stale.
`Crash` ends a daemon anywhere and leaves its files.

### SavePipeline

`save_observation` continues after its row is written: it reads the row again,
mirrors it, queues it for embedding and for extraction, and indexes it in the
graph, one action per request, from the copy it holds in `rpc`; a client may
leave between any two (`Abandon`). Workers take tasks, fail, back off, retry and
give up; the extract worker counts rate limits and pauses. `Reindex` and
`Reextract` queue rows in bulk, the forced forms delete first, in two statements
that a crash may part (`torn`). A row's title and content are a number, drawn
from a counter, so that a stale write is visible; `texts` remembers which a row
has had. `enabled` is the set of switches: a configuration is a constant of a
behaviour, except that the embedder may load late.

### Resolve

A save finds conflicts and queues them after it has answered; the worker and
every `Decide` that lists an open pair read both rows, ask a model, and apply the
verdict as a `plan` of two or three requests, any of which may fail and end it. A
synthesis is found again by its topic, `resolution/<newer row>`, and its scope, both
of which a user may change (`Edit`; `edited` is history). `kept` and `contested` are
history: who deleted which row for which, and which pairs two judges were asking
about together. What saves conflict with, and every verdict, is free. The row that
`Decide` itself saves is left out.

### Anchors

A repository is a growing sequence of commits and a HEAD that moves by commit
and checkout between any two steps. Stamping reads HEAD and digests, then
writes; verification reads HEAD, then the anchors, compares, and writes verdicts
with the HEAD it read. `basis` is history: the anchors and the commit a verdict
came from, whether git diff failed, which the code takes for no change
(`guessed`), and for which changed files git show failed, which it takes for
unprovable (`unshown`).

### SyncExport

One export is a sequence of actions: mutex, three selects, chunk file, read,
write and rename of the manifest, request, marks, record. Others save and delete in
between (`rev`, `there`; `deleted` is history), file operations fail, the mark request is
refused, fails half-way or is dropped (`Fails`, `MarkFails`), a client leaves (the file
operation under way and a request already sent go on without the mutex, `orphans`), the
daemon crashes. `orphaned` and `unmarked` are history: they name the executions in which
a cancelled request went on writing, or a listed chunk's rows were left unmarked. A chunk
is its content, as its name is its hash.

### MemArchive

An export reads eight tables one after the other while others write; an import
applies them in one transaction under new ids (`RowMap`, `EntityMap`), in merge
or replace mode, then queues embeddings, unless there is no pool or the rows cannot be read
(`SkipRequeue`). Left out of the tables: which fact supersedes which. `Contents` is what a database says
whatever its ids are; the two action properties compare it before and after. A
seed phrase is normalised or refused; what is sealed with one is read only with it.

### Workspace

`sessions`, `obs`, `prompts` of each project, with the foreign keys as guards; an RPC
is an action (`StartSession`), the write handler it sends to an operator (`UpsertSession`).
The requests that take two steps keep what they learnt in `deleting` (the session
that was found empty), `merging` (the pairs of a source and a target of which the target
file has committed and the source has not; neither can be written meanwhile) and `pruning`
(projects listed as empty). A hard delete unlinks the file whatever locks are on it; a
cached project goes on reading and writing the unlinked file (`unlinked`) until it is
evicted or the daemon ends, and then what was in it is gone (`Vanish`). Requests that open
the file by its name (page, session check, merge source, soft delete, prune) find none
meanwhile. `dropped`, `stranded` and `pruned` are history: what somebody deleted, what was
written to an unlinked file, and what was in a project when prune deleted it. `page` is a client that lists
observations page by page by `(created_at, id)` while the clock, of few ticks,
gives several rows the same time.

### Ranking, Retrieval, AllReads

`Ranking` defines fusion, rerank, quota, budget and graph walk as operators;
`Retrieval` runs them between reads: a search takes its lanes, fuses, reranks,
widens and packs, a briefing takes recent rows, anchored rows or a hybrid search,
then the graph's share of the budget. Deletes and verdicts come between any two.
What an index finds is free among `Rankings`, deleted rows included. `gone` and
`away` are the rows that were deleted, or withdrawn, from the beginning of the
request on. `Ranking` sorts by putting a key before each hit and listing the set of
triples (`Keyed`); a budget is the number of places up to which the hits fit (`Fitting`),
a share the places that a greedy walk takes (`Greedy`). `Batch` is the one query
that loads the hits of a fused list, `Expanded` and `GraphRows` are what a briefing gets
by its window and from the graph. `AllReads` adds the other requests: the search of all projects by the mirror,
by the mirror's keys and one dense lane per project, or, without a mirror, by attached
databases; and the timeline, whose three parts are read one after the other.

### ClientFiles

A settings file is the version of the user's settings in it with memlayer's own
entries; a text file is a sequence of user lines and block. A command visits the
files of the selected agents one by one: read, perhaps back up, write, each a
step. Its owner may edit it in between, add lines in front or behind, leave
something that does not parse, or a shape memlayer cannot add to (`Forms`), and have in it what no
writer keeps: an `autoMemoryEnabled` of the user's own, the comments of a TOML file
(`Fragile`, `own`). A crash may tear a write, of a text also within a token (`scrap`).
`wanted` is what the user has put into the file and no command is known to lose: a write
takes out of it exactly what `Spared` says it loses, and what is left goes on counting.
Owners who move or copy the markers are left out.

## 3. Runs

| Run | Properties | States | Shows |
|---|---|---|---|
| `WriteThread` | `AckedIsDurable` `EveryCallerAnswered` `ImplementsWriteService` | 62 thousand | two plain requests and a Custom through a channel of one, with one crash anywhere: acknowledged writes are durable, every caller hears something, and the thread implements the abstract service |
| `ObservationStore` | `SupersessionSound` `InsertHidesOnlyReplaced` `SaveNeverForksTopic` `DeletedRowsFrozen` | 112 thousand | all sequences of saves, updates and deletes up to three inserted rows, in and out of the dedupe window: supersession stays a forest, inserts hide only what they replace, topics do not fork, deleted rows never change |
| `Registry` | `HeldThreadIsLive` `CacheShape` | 6.5 million | two openers of two projects, one under two names, a list of two entries and a hard delete in two steps: whoever holds a project has a live thread of it, list and map agree although racing openers push duplicates |
| `Lifecycle` | `SingleDaemon` `ServerKeepsSocket` `CommandReturns` | 184 thousand | two commands of any kind and their daemons racing for lock, pid file and socket: one daemon owns the files, only a command that thinks it stale takes away a server's socket, and every command returns once the lock can be had |
| `SavePipeline` | `DerivedFromOwnRow` `EmbeddedIsFound` `QueuedIsEmbedded` | 412 thousand | savers, embed and extract workers, reindexing, deletes and a crash: what is derived belongs to a text its own row has had, what counts as embedded is found by the search, and what was queued is embedded, or given up after its retries |
| `SyncExport` | `MarkedIsListed` `ObservationsHaveSessions` `NoRowListedTwice` `ManifestAppendOnly` `EveryExportEnds` | 464 thousand | exports of one project with saves, deletes, errors of files and of the mark request, cancelled requests and a crash: a row marked as exported is in a listed chunk, an observation that is not deleted for good is listed with its session, no such row is listed twice unless an export was cut short before its marks, the manifest only grows, and every export ends |
| `MemArchive` | `ImportNeverRefused` `ImportedIsOffered` `RestoreIsFaithful` `MergeKeepsBoth` | 1.2 million | export and import of an archive between two databases in both modes, seeds and crashes included: foreign keys never refuse an archive, what an import brings is offered for embedding unless it skips that, replace restores what was archived, merge loses nothing of either side |
| `Resolve` | `SettledIsHidden` `OneResolution` `BothLostOnlyIfContested` | 3.6 million | worker and Decide judge pairs while users save, update and delete: a settled row is hidden, a newer row has at most one live resolution unless a user changed its scope or topic, and both rows of a pair are lost only if two judges, or a judge and a user, contested it |
| `Anchors` | `VerifiedIsEarned` `WithdrawnIsEarned` | 988 thousand | stamping and verification against a HEAD that commits and checkouts move in between: a row is verified at, or withdrawn for, a commit it really was compared with, but where git diff or git show failed |
| `Retrieval` | `DeletedStayHidden` `WithdrawnStayAway` `WithinBounds` `TimelineHasNoGaps` | 1.2 million | searches of one and of all projects, briefings and timelines, step by step against deletes and verdicts: rows deleted or withdrawn before the request stay away, limits, quotas and budgets hold, and a timeline skips no row in the order of time and id |
| `Workspace` | `SavedIsSomewhere` `PagesAreExact` | 2.4 million | sessions, prompts and observations of two projects under merge, prune, deletes, hard deletes of cached projects, evictions and crashes: what was saved is still somewhere unless it was deleted, written to an unlinked file or pruned, and paging shows each steady row exactly once |
| `ClientFiles` | `ClientTypeOK` `UserContentKept` `InstallRefreshes` `UninstallClears` | 244 thousand | up to four runs of install and uninstall over the user's files, with the owner editing in between and crashes in the middle of a write: user content survives but for what the code is known to lose, a completed install leaves one block and memlayer's entries, a completed uninstall none but hooks |

Every property has a mutant in `PROJECT.json`: a slip in one definition, written
beside it as an operator whose comment begins with "Mutant", under which TLC
finds the property violated.

### Bounds

The bounded clients stop after a while, so most runs switch the deadlock check
off; in `Registry` it is on. Where a request must come to an end, a liveness
property says so.

- `WriteThread`: two plain requests and one Custom, a channel of one, batches
  of three. That makes a sender block, and a batch with the Custom first, in
  the middle and last. `MaxCrashes` is 1: the only state that outlives a crash
  is `db`, so that a second crash meets no situation the first did not; the
  theorems hold for any number. A caller sends one request.
- `ObservationStore`: `MaxId` = 3 rows ever inserted make a chain of two
  supersessions and two rows with one superseder conceivable. Two contents and
  scopes, one topic, one sync_id, one type and one title are what the properties
  tell apart. `Times` = {1, 3} puts saves in and out of a window of one tick.
  `Window <= t` is assumed: the window does not reach before the epoch.
- `Registry`: two openers make each race of the two critical sections; two
  projects, one of them under two names; a list of two entries, which the
  duplicates of racing openers fill, so that evictions happen. `Slots` allows a
  live thread for each cached project and for each opener; one that would exceed
  it waits for an exit first (`Lingering` = 0). One hard delete. Symmetry is by openers.
- `Lifecycle`: two commands of any kind and a daemon started in the foreground,
  one crash: with the daemons the commands spawn, three candidates for the lock.
- `SavePipeline`: one saver, two rows and two texts, so that a text is
  rewritten or a row takes the place of another; queues of one, so that they
  drop; as many failures as retries (1), one crash, one bulk request. The four
  `Configs` are each switch where it matters; what they switch shares no state.
- `SyncExport`: one project, two exporters, two exports, a session and an observation
  (prompts are written, marked and deleted like observations), each saved twice and
  deleted in between, one crash, one cancelled request and one failure. Two projects
  in one repository are possible in the module; there `ManifestAppendOnly` does
  not hold (section 5).
- `MemArchive`: two databases whose rows, entities and edges have conflicting ids,
  one export, two imports, two writes, one crash; a seed phrase, one that is too short, none.
- `Resolve`: one worker, one `Decide`, four rows, two of them saved by users in
  the run, one more save of the same text, one change of scope or topic and one delete.
- `Anchors`: one observation with one path, whole file or symbol, two commits and any
  checkouts, two saves, two verifications.
- `Retrieval`: three rows of one project, two of them of one text, session and
  type and two of one second, one row of another project, four rankings, ten
  requests that switch on each stage alone and all at once, one write. `Steady` is
  the row of the other project, which nobody changes.
- `Workspace`: two projects, eight requests, two observations, two ticks, pages
  of one row. Eight requests are enough for a save into an unlinked file, a merge
  and an eviction around it. Merges in one direction (`OneWay`); both directions lose rows (section 5).
- `ClientFiles`: each kind of file alone (they share no state), four runs,
  three edits, two crashes.

### Fairness

- `WF(Thread)` in `WriteThread`: a `std::thread` is scheduled, `recv_timeout`
  returns, SQLite calls end (with an error at the latest when `busy_timeout`
  is over). It says nothing about which of success and failure happens.
  `WF(Enqueue(r))`: crossbeam wakes a blocked sender when there is room. With a
  caller that could be overtaken for ever, weak fairness would not do, but
  each caller sends once.
- `Lifecycle`: commands and daemons run on. `SF(LockSpawn(c))`: the kernel grants
  a blocking `flock` to who waits for it. Nobody is assumed to send a signal.
- `SavePipeline`: the RPC, the workers and a bulk request run on
  (`WF` of `SaverStep`, `WorkerStep`, `ExtractorStep`, `BulkStep`).
- `SyncExport`: an export that is not cancelled runs on, the write thread does,
  and the tokio mutex is fair (`SF(Lock(e))`; it is a queue in the code).

Nothing is assumed of clients, evictions, failures, deletes, crashes or restarts.

## 4. Proofs

| Theorem | Property | Inductive invariant |
|---|---|---|
| `WriteInvariant`, `TypeCorrect`, `AcknowledgedWritesAreDurable`, `DroppedWritesAreUndone`, `OpenTransactionIsPrivate` | `WriteInv`, `TypeOK`, `AckedIsDurable`, `DroppedIsUndone`, `UncommittedIsUnanswered` | `WriteInv` |
| `WriteThreadRefinesService` | `ImplementsWriteService` | `RefineInv` |
| `StoreTypeCorrect`, `SupersessionStaysSound`, `InsertsReplaceTheirLike`, `SavesNeverForkTopics`, `DeletedRowsStayFrozen` | `TypeOK`, `SupersessionSound`, `InsertHidesOnlyReplaced`, `SaveNeverForksTopic`, `DeletedRowsFrozen` | `StoreInv` |
| `HeldThreadsAreLive`, `ListAndMapAgree` | `HeldThreadIsLive`, `CacheShape` | `RegistryInv`, with `CacheShape` |
| `OneDaemonOwnsTheFiles`, `PidFileNamesTheServer`, `SocketOnlyRemovedByCommand` | `SingleDaemon`, `PidNamesServer`, `ServerKeepsSocket` | `TypeOK`, `SingleDaemon`, `PidNamesServer` |
| `PipelineInvariant`, `PipelineTypeCorrect`, `DerivedRowsAreOwn`, `EmbeddedRowsAreFound` | `PipelineInv`, `TypeOK`, `DerivedFromOwnRow`, `EmbeddedIsFound` | `PipelineInv` |
| `ExportInvariant`, `MarkedRowsAreListed`, `ListedObservationsHaveSessions`, `ExportsListOnce`, `ManifestOnlyGrows` | `ExportInv`, `MarkedIsListed`, `ObservationsHaveSessions`, `NoRowListedTwice`, `ManifestAppendOnly` | `ExportInv` |
| `ResolveInvariant`, `ResolveTypeCorrect`, `ResolvedRowsAreHidden`, `OneSynthesisPerNewerRow`, `BothLostNeedsContest` | `ResolveInv`, `TypeOK`, `SettledIsHidden`, `OneResolution`, `BothLostOnlyIfContested` | `ResolveInv` |
| `AnchorInvariant`, `AnchorsTypeCorrect`, `VerifiedStatesAreEarned`, `WithdrawnStatesAreEarned` | `AnchorInv`, `TypeOK`, `VerifiedIsEarned`, `WithdrawnIsEarned` | `AnchorInv` |
| `ArchiveTypeCorrect`, `ImportsAreNeverRefused`, `ImportsAreOffered`, `RestoresAreFaithful`, `MergesKeepBoth` | `TypeOK`, `ImportNeverRefused`, `ImportedIsOffered`, `RestoreIsFaithful`, `MergeKeepsBoth` | `ArchiveInv` |
| `WorkspaceTypeCorrect`, `SavedRowsAreSomewhere`, `ListingsAreExact` | `TypeOK`, `SavedIsSomewhere`, `PagesAreExact` | `RowsInv`, with `Refers`, `Kept` and `PageInv` |
| `DeletedAreNotServed`, `WithdrawnAreNotServed`, `TimelinesHaveNoGaps` | `DeletedStayHidden`, `WithdrawnStayAway`, `TimelineHasNoGaps` | `ReadsInv` |
| `ClientFilesTyped`, `UserContentIsKept`, `InstallLeavesThisVersion`, `UninstallLeavesNothing` | `ClientTypeOK`, `UserContentKept`, `InstallRefreshes`, `UninstallClears` | `ClientInv` |

They hold for all values of the constants that satisfy the assumptions each
module names (`WriteThreadAssumption`, `StoreAssumption`, ...): capacities are
positive, model values are distinct, the set of openers is finite, a digest is
not the absent digest, `KeyOf` and `RepoOf` are functions. TLC evaluates them in the
runs. The theorems about exports have one hypothesis more, `OwnRepos`: no two
projects share a repository. With a shared one a manifest may lose chunks (section
5), because the mutex of an export belongs to a project. `SavedRowsAreSomewhere` has the
hypothesis `Settles`, about the merges that are ever asked for: from no project do they lead
back to it, nor by two ways to one project. Without it the code does lose rows (section 5);
that it can be met is an assumption of `MCWorkspace` that TLC evaluates. Neither the number of
threads, clients, crashes and retries nor the bounds of the runs enter.

**WriteInv.** That an acknowledged request is in the database follows from: a
closure with Ok belongs to a request in `db` or in `tx` (`OkClosuresRan`), and
outside the drain phase `tx` is empty (`TxOfBatch`). That a dropped request is
not there needs the converse: what is in `db` is not told "dropped"
(`CommittedNotDisowned`), which each of the three dropping steps keeps because
a request still in the batch has run nothing (`PendingUntouched`), is in the
batch once and in no closure (`PendingOnce`, `HandledUncommitted`), and because
a failed commit empties `tx`. `PhaseShape` says which of batch and closures are
empty where. The lemmas on `Range` and `IsInjective` of appended, tailed and
concatenated sequences come first; then one lemma per group of actions.

**The refinement.** `WriteService` has a queue, a log and answers; the mapping
takes the requests whose closures are waiting, then the batch, then the channel for the queue
(`unsettled`), and `db` for the log. Until the commit a handled request is still in the
abstract queue, so the collection window, `Begin` and `Handle` stutter. `Commit` is
`Apply` of the group at the places of those that wrote something; that these places
exist and ascend is `InOrder`, the one part of `RefineInv` that `WriteInv` does not
have: `tx` lists the requests of `replies` in their order, some left out. A failed
commit, a failed `BEGIN` and `DropRest` are `Discard`, a reply is `Answer`. The rest
is associativity of concatenation.

**StoreInv** is type correctness and soundness together: a reference never
reaches beyond `lastId`, so a new row is referenced by nobody, and an insert
that supersedes gives the old row the only reference to the new one. Deletion
keeps references alive because the foreign key refuses to remove a superseder.
The three action properties are read off the outcomes of a save from `StoreInv`: an
insert finds no live row of its topic because the upsert comes before it.

**RegistryInv** adds the shape of the variables and, for each opener, that it
holds a slot exactly from the spawn to the release. A slot that is held or cached is
not `Unreferenced`, so it neither exits nor is given to another spawn, and it
keeps its name; an insert caches the slot its opener holds. `CacheShape` needs to
know what `Without`, the `retain` of an eviction, returns: the entries of the
list but those of the evicted project. It is a recursive function on the
length, and its lemmas are proved by a least counterexample (`LeastNat`), since
the induction theorems of the library cannot be instantiated here.

**Lifecycle.** The argument is the ownership of the flock: a daemon takes it
before it touches a file and gives it back after it has touched the last, so a
step of one daemon finds no other one owning; the invariant ties each place
between `locked` and `unlocked` to `holder`. The pid file is written and removed
by the holder alone. The socket can be removed by commands too, in the two
places `ServerKeepsSocket` excepts.

**PipelineInv** says of each place a text may be in (a copy in a handler, a queue, a
worker, a bulk request, a table) that its observation once had it (`Had`). An insert takes
an id above all earlier ones (AUTOINCREMENT), about which nothing old can speak. `PairsOK`
is what `EmbeddedIsFound` needs: meta rows are of one kind, and outside a torn
reindex and between its two DELETEs none is without its vector.

**ExportInv.** Four parts: between the read and the rename of a manifest nobody
else touches it (`Fresh`), by the mutex; the chunk of an export that is to be
marked is in the manifest (`Promised`), as the rename came first; an export
that took an observation which has not been deleted since took its session or found it
marked (`Accompanied`), by the order of the SELECTs, as a session cannot go before its
rows; a row that is listed is marked, deleted, or is to be marked by a job
or by an export that holds the mutex (`Pending`), so that no second one selects it. `orphaned` marks
the executions in which a cancelled request gave back the mutex with a file
operation under way; crashes, and mark requests that fail (`unmarked`), need no exception
but in `NoRowListedTwice`. The observation that is listed without its session, and the rows
that are listed twice, are findings (section 5).

**ResolveInv** says for each judge what can be left of its plan (`PlanOK`): a
`resolved_by` request is first in it only when the row it names has been withdrawn, or
the synthesis stored; withdrawn rows never come back, so later deletes do no
harm. A live synthesis has the scope of its newer row, and so has a judge at work on it, as long as
neither has been edited (`ScopesOK`): so `save_resolution` finds the one that is there. A pair is two different rows in the queue and in `conflicts_with`. For two
judges, `ContestOK`: judges that hold one pair at the same time are recorded in
`contested`, and so is every judge that may still delete a row of a pair of which
a judge already deleted one. `ReadPair` keeps the second because a row that was
deleted is never read again.

**AnchorInv** says that a stamped digest is the one of its commit (commits never
change, so it stays so whatever HEAD does), that what a verification has read is
among such anchors, and that a state names the anchors and the commit it was
derived from, and the anchors whose file git show did not give (`StateOK`).

**ArchiveInv** says of each database that it is sound (`Sound`): every reference is to a row
it has, ids are below the next one, sync ids are unique. Of an archive it says less: its tables
were read one after the other while others wrote, so it has the types and unique keys
of a database (`Payload`), but its references may dangle. `MergeSound` is that merging such an
archive into a sound database gives a sound one; that is `ImportNeverRefused`. The
maps of ids are one to one and go to rows that the merge makes or finds (`RowMapOK`, `EntityMapOK`), every table is
restricted to what is mapped, and missing sessions are created. The rows an import
offers are the live ones below the rowid it left behind (`ImportOK`), and rows that other
clients write later get ids beyond it (`Follows`). The two action properties
compare `Contents` before and after: the maps of ids cancel out, table by table.

**Workspace.** `RowsInv` is types, uniqueness of sync ids in a project, that `saved`
knows them all, and `Carried`: while a merge is between its two commits, the target
has a row for every live row of the source, so that marking the source deleted
takes nothing away; and `Doomed`: the rows in unlinked files are among the lost, so that an
eviction or a crash, which makes them vanish, takes nothing else. It does not say that this row is *live*: a merge
copies deleted rows too, and passes over the rows whose sync id the target has. `Kept`
therefore follows an observation along the merges: `down[p]` is where the rows of `p`
may end up, and an observation stored in `p` and not lost is live in
a project of `down[p]`. `PageInv` says that a listing has returned the steady rows up to
its cursor, each once, and none beyond: the cursor is the key of the last row of a full
page, and a page lists the rows beyond it in ascending order.

**ReadsInv.** A hit in hand is `Good`: the row was live, and unless the hit says so not
withdrawn, at some moment of the request; `gone` and `away` are set when the request begins and only
shrink while it runs, so this stays true when the row changes later. Each stage
takes rows from a table it reads now, or from hits it has (`LanesOK`, `HitsOK`); fusion,
rerank, quota, pack, window and graph only select and reorder. Of a briefing, what is shown has
passed the filter (`ShownOK`). The rows before the anchor of a timeline are read
first and lead up to it without a gap (`UpTo`), and no later write can put a row between.

**ClientInv.** A text that memlayer and its user write, with any crashes, has no marker or one
block (`TextOK`): a start, perhaps a body and an end right behind it, and no other. Either the block
is whole (`Whole`) or no end marker is there at all (`Sound`), since a crash keeps a prefix, and what a
command appends comes last; lines the user then adds behind do not change that, which is why a
later install, or uninstall, finds the block from its start and loses no marker. One lemma
for each operation on texts says what it does to the block and to the user's lines
(`WithBlockIs`, `WithoutBlockIs`, `CutIs`, `AddedToken`), by cutting the text in three at the block
(`AroundBlock`): the lines that are left are those of the text, or, if the block has no end, those in
front of it (`Intact`). Of settings, `ContentsKept` says that what is wanted is in the file, or in the
backup of a project file, and then the file was cut short and nobody has saved it since, or it was
written anew with an entry in it, so that no command writes it again (`Recovers`). What `Spared` and
`Replaces` take out of `wanted` is what the code is known to lose, and no more: that the backup of
an unreadable file overwrites the good one is among it. `VisitedDone` says that the files a
command has visited are as it leaves them, whatever their owners do meanwhile: an owner never
touches the entries or the block. The length of a text
needs the number of commands that still may add to it (`Room`). Here the bounds on runs, edits and
crashes are constants of any size.

**Lists.** These rest on a few facts about lists of finite sets (`ListsProofs`).
The place of an element is its rank, the number of elements before it; under a strict total
order ranks are one to one (`OneToOne`) and hence onto an initial
segment (`RankOnto`, from cardinalities). `ListedProperties`, `AscendingProperties` and
`SiftProperties` then say that a listing has every element once, in order, and a sifted list the
entries asked for in the order they had; `SiftConcat` that
sifting two lists joined joins what is sifted of each, which `ClientFiles` needs. So neither sorting nor selecting needs an
induction, which the installed provers could not do.

Only model-checked:

- `EveryCallerAnswered`, `CommandReturns`, `QueuedIsEmbedded`, `EveryExportEnds`:
  liveness under fairness is out of TLAPS' reach.
- `WithinBounds`: a budget bounds a sum, and what a sum over a list is for every list is
  induction over data.

`DroppedIsUndone`, `UncommittedIsUnanswered`, `PidNamesServer` and the type
invariants of the other modules are proved and are in no run; TLC agrees with them on
the instances of the runs. No module declares a RECURSIVE operator: sums and walks use the
folds of the community modules or are cut at a constant depth.

## 5. Where code and documentation disagree

All are in `findings`, each with the sentence it disagrees with. By component:

- *Write thread and handlers.* Requests collected behind a Custom are never run
  (write.rs:404); a failed handler's statements are committed with the batch
  (284); panics end the daemon (260); the dedupe window is the whole UTC day
  (1001) and ignores scope, type and title (999); a folded save forgets its
  `sync_id` (461); a superseder cannot be hard-deleted (727).
- *Registry.* Two names that collide are both served (registry.rs:128), openers
  share a temporary file (337), racing openers start two threads (159) and make
  the newest entry the oldest (180), and a hard delete leaves the old file in
  the cache (service.rs:2505).
- *Daemon lifecycle.* Waiting for the lock has no time limit (autospawn.rs:96), the spawn lock is
  released before the child has it (116), a stale socket counts as a daemon (82), `restart`
  may find the old one (cmd_daemon.rs:139), the hook removes a slow daemon's socket (cmd_hook.rs:121).
- *Derived rows.* The mirror may end with the older of two saves (service.rs:1139) and never
  hears of deletes (global.rs:125); an embedding may outlive its row (write.rs:840); after
  `embed.quantize` is switched on old vectors answer (read.rs:124); a torn forced
  reindex leaves rows that no reindex repairs (service.rs:1964).
- *Sync and archives.* Projects that share a repository lose each other's manifest
  lines (manifest.rs:96); mark and record are separate transactions
  (sync_export.rs:126, 129), and one that fails leaves listed rows unmarked (133); an observation
  deleted between the SELECTs, then its session, is listed alone (sync_state.rs:59); an archive drops
  supersession and anchors (snapshot.rs:36); two exports share a temporary file
  (mem_export.rs:109); an import that cannot queue embeddings does not say so (mem_import.rs:66).
- *Judges and anchors.* Two judges may delete both rows of a pair (resolve_worker.rs:198);
  `keep_both` is not remembered; a pair counts as resolved for another's sake (decide.rs:175);
  a pair whose older row is saved again is judged in the other order and may get a second
  resolution (service.rs:1198);
  `verify_anchors` blocks inside the runtime and aborts the daemon (service.rs:2086); a failed git
  diff counts as verified (verify.rs:66) and a failed git show as unprovable (76); anchors without a symbol multiply.
- *Reads.* The reranker is never asked (service.rs:360); the facts lane ignores filters
  (304); filters come after the cut and rows by id (read.rs:82), a
  timeline shows rows of its anchor's second, which its comment excludes (524); the all-projects search ignores
  filters (service.rs:1481), hands the query to FTS5 unescaped (1377) and fuses dense hits in the order of
  projects (read.rs:705); the session cursor skips a second (sessions.rs:69);
  a dream scan proposes both directions for rows of one second (dream.rs:121).
- *Workspace.* A merge there and back deletes everything (projects_admin.rs:226), and so do merges of A into
  B, A into C, B into C, since a merge copies deleted rows and what is copied hides what
  comes later (197); its two files commit
  one after the other (231), `prune` deletes what has been saved meanwhile (cmd_project.rs:164), and a session
  with soft-deleted rows cannot be deleted (service.rs:2249).
- *Client files.* A file that does not parse is overwritten (cmd_skill.rs:475), so is the
  user's `autoMemoryEnabled` (546), comments of TOML files are lost (mcp_install.rs:594), a torn
  one is backed up over the good backup (622), blocks grow by a line (832), uninstall leaves
  hooks behind (cmd_uninstall.rs:27).

Smaller ones, met while reading: `Decide` without hits saves its answer under an
empty session (decide.rs:82); `graph neighbors` repeats an entity per hop
(graph.rs:186); a session's context groups topics by key alone, across scopes
(sessions.rs:104); the quantized search cuts before it drops deleted rows
(read.rs:225); the git hook ends with `exit 0` in front of what others append (git_hooks.rs:16).

Where such a flaw would break a property, the property names the exception
(`torn`, `contested`, `edited`, `skipped`, `unmarked`, `unshown`, `stranded`, `pruned`, what
`Spared` takes out of `wanted`, rows deleted for good, one repository per project, merges in one
direction), so that it still says what the rest of the code guarantees.

## 6. Plan

Done: all components of section 1 that have state and more than one step, and a theorem for
every safety property of the runs but those section 4 names. What is left:

1. `WithinBounds`, should a prover that can instantiate the induction theorems be at hand.
2. More of the read service: history, relations, entity queries.
3. `SyncImport` once the RPCs exist: convergence of replicas under last-writer-wins.

## 7. Not modelled

The map covers about 15 % of the Rust code. What it leaves out is large in
lines and has no behaviour of the kind these models are for:

- CLI argument definitions and rendering (`cli.rs`, `render.rs`, the `cmd_*`
  files that send one RPC and print), the MCP server's tools, the client library,
  the UI and TUI: a third of the code. Their state is in the daemon.
- The evaluation harness: offline benchmarks with datasets, prompts, scoring and
  a database of facts and vectors of their own, one process, run by hand.
- Typed defaults of the configuration, models and their conversions, SQL row
  mappings, error texts.
- Embedding, reranking and extraction models, the processes of agent CLIs, the
  prompts and parsers of their answers: numeric or external. They appear as free choices.
- Tokens, grants and authentication: one statement per request on a table of its
  own, read anew by every call. The disk monitor: a polled flag.
- Sync import: the RPCs are stubs, and the upserts are called by tests only.
- Statistics, history, relations, entity queries, the dream scan, consolidation:
  one query, or a pure function of one, which no interleaving can change.
- `set_repo_path`, a read-modify-write of `config.json` without a lock; two
  exports to one path; the `sessions` cursor: findings or notes, not models.

In the modelled parts: counters and timestamps no lookup reads, `repo_path` in
`config.json`. The length of time: a handler, a window, a time-out take
arbitrarily long.
