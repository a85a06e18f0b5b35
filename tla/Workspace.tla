------------------------------ MODULE Workspace ------------------------------
(***************************************************************************)
(* Projects as a user works with them: sessions, prompts and observations  *)
(* of several project databases (service.rs, write.rs, sessions.rs), the   *)
(* merge of one project into another, soft and hard project deletes and    *)
(* pruning (projects_admin.rs, cmd_project.rs), and a client that pages    *)
(* through the observations while all this happens (read.rs).              *)
(*                                                                         *)
(* A save is here the plain insert of a new row; ObservationStore has its  *)
(* other outcomes.  A hard delete unlinks the file of a project by its     *)
(* name; a cached project goes on writing to it, unseen (a finding).       *)
(***************************************************************************)
EXTENDS Naturals, Sequences, FiniteSets, SequencesExt, Lists

CONSTANTS
  Projects, SessionIds, SyncIds, PromptIds,
  Merges,      \* the pairs <<from, to>> somebody merges
  Limit,       \* rows of a page
  None,
  MaxTime, MaxCalls  \* bounds

ASSUME WorkspaceAssumption ==
  /\ Merges \subseteq {m \in Projects \X Projects : m[1] # m[2]}
  /\ Limit \in Nat \ {0} /\ MaxTime \in Nat /\ MaxCalls \in Nat
  /\ None \notin Nat \X Nat

VARIABLES
  sessions,    \* per project, the function id -> [ended, summary]
  obs,         \* per project, the rows in order of their ids: [sync, session, at, status]
  prompts,     \* per project, the set of [sync, session]
  clock,       \* the seconds that created_at can tell apart
  deleting,    \* <<project, session>> that DeleteSession has found free of rows
  merging,     \* the <<from, to>> whose target has committed and whose source has not
  pruning,     \* the projects `project prune` was told to be empty
  unlinked,    \* the cached projects whose file a hard delete has unlinked
  page,        \* a listing: [project, cursor, seen, steady, done]
  saved, dropped,  \* history: sync_ids ever saved; those some delete took
  stranded,        \* history: those written to an unlinked file
  pruned,          \* history: those in projects that prune had listed as empty
  calls            \* requests so far, bounded

vars == <<sessions, obs, prompts, clock, deleting, merging, pruning, unlinked, page,
          saved, dropped, stranded, pruned, calls>>
work == <<deleting, merging, pruning>>
losses == <<dropped, stranded, pruned>>

Live(p) == {i \in DOMAIN obs[p] : obs[p][i].status = "live"}
Stored(p) == {i \in DOMAIN obs[p] : obs[p][i].status # "gone"}
SyncsOf(p, ids) == {obs[p][i].sync : i \in ids}

Sessions == [ended : BOOLEAN, summary : {None, "text"}]
Observations ==
  [sync : SyncIds, session : SessionIds, at : 0..MaxTime, status : {"live", "deleted", "gone"}]

Init ==
  /\ sessions = [p \in Projects |-> <<>>]
  /\ obs = [p \in Projects |-> <<>>]
  /\ prompts = [p \in Projects |-> {}]
  /\ clock = 0
  /\ deleting = None /\ merging = {} /\ pruning = {} /\ unlinked = {} /\ page = None
  /\ saved = {} /\ dropped = {} /\ stranded = {} /\ pruned = {} /\ calls = 0

Tick ==
  /\ clock < MaxTime /\ clock' = clock + 1
  /\ UNCHANGED <<sessions, obs, prompts, work, page, saved, losses, unlinked, calls>>

(* A request comes in. *)
Call == calls < MaxCalls /\ calls' = calls + 1

(* A merge holds the write locks of both files. *)
Locked == UNION {{m[1], m[2]} : m \in merging}
Writable(p) == p \notin Locked

-----------------------------------------------------------------------------
(* Sessions. *)

(* INSERT OR IGNORE of the rows of g: those of f stay. *)
Added(f, g) == [x \in DOMAIN f \cup DOMAIN g |-> IF x \in DOMAIN f THEN f[x] ELSE g[x]]

UpsertSession(p, s) ==
  sessions' = [sessions EXCEPT ![p] =
    Added(@, [x \in {s} |-> [ended |-> FALSE, summary |-> None]])]

(* An existing session is left as it is. *)
StartSession(p, s) ==
  /\ Call /\ Writable(p) /\ s \notin DOMAIN sessions[p]
  /\ UpsertSession(p, s)
  /\ UNCHANGED <<obs, prompts, clock, work, page, saved, losses, unlinked>>

(* handle_end_session keeps a summary when it is given none. *)
SetEnded(p, s, summary) ==
  sessions' = [sessions EXCEPT ![p][s].ended = TRUE,
                 ![p][s].summary = IF summary = None THEN @ ELSE summary]

EndSession(p, s, summary) ==
  /\ Call /\ Writable(p) /\ s \in DOMAIN sessions[p]
  /\ SetEnded(p, s, summary)
  /\ UNCHANGED <<obs, prompts, clock, work, page, saved, losses, unlinked>>

SetSummary(p, s) == sessions' = [sessions EXCEPT ![p][s].summary = "text"]

SaveSessionSummary(p, s) ==
  /\ Call /\ Writable(p) /\ s \in DOMAIN sessions[p]
  /\ SetSummary(p, s)
  /\ UNCHANGED <<obs, prompts, clock, work, page, saved, losses, unlinked>>

(* delete_session looks for rows that are not deleted on a read            *)
(* connection, opened by the name of the file ...                          *)
CheckSession(p, s) ==
  /\ Call /\ deleting = None /\ p \notin unlinked /\ s \in DOMAIN sessions[p]
  /\ \A i \in Live(p) : obs[p][i].session # s
  /\ deleting' = <<p, s>>
  /\ UNCHANGED <<sessions, obs, prompts, clock, merging, pruning, page, saved, losses, unlinked>>

Without(f, s) == [x \in DOMAIN f \ {s} |-> f[x]]

(* The foreign keys of observations and prompts, deleted rows included. *)
Referenced(p, s) ==
  (\E i \in Stored(p) : obs[p][i].session = s) \/ (\E q \in prompts[p] : q.session = s)

(* ... and the write thread deletes later: no row, or a row that is        *)
(* referenced, is an error.                                                *)
DeleteSession ==
  /\ deleting # None /\ Writable(deleting[1])
  /\ sessions' = IF Referenced(deleting[1], deleting[2]) THEN sessions
                 ELSE [sessions EXCEPT ![deleting[1]] = Without(@, deleting[2])]
  /\ deleting' = None
  /\ UNCHANGED <<obs, prompts, clock, merging, pruning, page, saved, losses, unlinked, calls>>

-----------------------------------------------------------------------------
(* Observations and prompts. *)

SaveObservation(p, o, s) ==
  /\ Call /\ Writable(p) /\ o \notin saved /\ s \in DOMAIN sessions[p]
  /\ obs' = [obs EXCEPT ![p] =
       Append(@, [sync |-> o, session |-> s, at |-> clock, status |-> "live"])]
  /\ saved' = saved \cup {o}
  /\ stranded' = stranded \cup {x \in {o} : p \in unlinked}
  /\ UNCHANGED <<sessions, prompts, clock, work, page, dropped, pruned, unlinked>>

(* Rows leave a listing in progress. *)
Leave(p, ids) ==
  page' = IF page # None /\ page.project = p THEN [page EXCEPT !.steady = @ \ ids] ELSE page

Mark(p, ids, status) ==
  obs' = [obs EXCEPT ![p] = [i \in DOMAIN @ |->
    IF i \in ids THEN [@[i] EXCEPT !.status = status] ELSE @[i]]]

DeleteObservation(p, i, status) ==
  /\ Call /\ Writable(p)
  /\ i \in IF status = "gone" THEN Stored(p) ELSE Live(p)
  /\ Mark(p, {i}, status) /\ Leave(p, {i})
  /\ dropped' = dropped \cup SyncsOf(p, {i})
  /\ UNCHANGED <<sessions, prompts, clock, work, saved, stranded, pruned, unlinked>>

(* A prompt whose sync_id is known is left as it is. *)
InsertPrompt(p, q, s) ==
  /\ \A r \in prompts[p] : r.sync # q
  /\ prompts' = [prompts EXCEPT ![p] = @ \cup {[sync |-> q, session |-> s]}]

SavePrompt(p, q, s) ==
  /\ Call /\ Writable(p) /\ s \in DOMAIN sessions[p]
  /\ InsertPrompt(p, q, s)
  /\ UNCHANGED <<sessions, obs, clock, work, page, saved, losses, unlinked>>

RemovePrompt(p, q) == prompts' = [prompts EXCEPT ![p] = @ \ {q}]

DeletePrompt(p, q) ==
  /\ Call /\ Writable(p) /\ q \in prompts[p]
  /\ RemovePrompt(p, q)
  /\ UNCHANGED <<sessions, obs, clock, work, page, saved, losses, unlinked>>

-----------------------------------------------------------------------------
(* Whole projects. *)

\* Mutant: rows keep their ids, and those that are taken are ignored.
CopiedById(from, to) ==
  [i \in 1..(IF Len(obs[from]) > Len(obs[to]) THEN Len(obs[from]) - Len(obs[to]) ELSE 0) |->
     obs[from][Len(obs[to]) + i]]

(* INSERT OR IGNORE ... SELECT: the rows the target does not know by their *)
(* sync_id, deleted ones included.                                         *)
Copied(from, to) ==
  LET known == SyncsOf(to, Stored(to))
  IN Sift(obs[from], {o \in Observations : o.status # "gone" /\ o.sync \notin known})

(* merge_into_target_conn copies sessions, observations and prompts and    *)
(* soft-deletes the source in one transaction over two files in WAL mode,  *)
(* which commit one after the other: a crash may separate them.  Both      *)
(* files were there when the request came; the write thread looks for the  *)
(* source's again, not for its own.                                        *)
MergeTarget(from, to) ==
  /\ from \notin unlinked /\ Writable(from) /\ Writable(to)
  /\ sessions' = [sessions EXCEPT ![to] = Added(@, sessions[from])]
  /\ obs' = [obs EXCEPT ![to] = @ \o Copied(from, to)]
  /\ prompts' = [prompts EXCEPT ![to] = @ \cup
       {q \in prompts[from] : \A r \in prompts[to] : r.sync # q.sync}]
  /\ merging' = merging \cup {<<from, to>>}
  /\ stranded' = stranded \cup
       {o \in SyncsOf(from, Live(from)) : to \in unlinked /\ o \notin SyncsOf(to, Stored(to))}
  /\ UNCHANGED <<clock, deleting, pruning, page, saved, dropped, pruned, unlinked>>

(* MergeProjects: a Custom of the target's write thread. *)
MergeProjects(from, to) == Call /\ from # to /\ MergeTarget(from, to)

MergeSource(m) ==
  /\ m \in merging /\ merging' = merging \ {m}
  /\ Mark(m[1], Live(m[1]), "deleted") /\ Leave(m[1], Live(m[1]))
  /\ UNCHANGED <<sessions, prompts, clock, deleting, pruning, saved, losses, unlinked, calls>>

(* soft_delete_project_observations opens the file by its name. *)
SoftDeleteProject(p) ==
  /\ Call /\ p \notin unlinked /\ Writable(p) /\ Live(p) # {}
  /\ Mark(p, Live(p), "deleted") /\ Leave(p, Live(p))
  /\ dropped' = dropped \cup SyncsOf(p, Live(p))
  /\ UNCHANGED <<sessions, prompts, clock, work, saved, stranded, pruned, unlinked>>

(* What the files of ps held is gone; whoever opens the projects creates   *)
(* them anew.                                                              *)
Vanish(ps) ==
  /\ sessions' = [p \in Projects |-> IF p \in ps THEN <<>> ELSE sessions[p]]
  /\ obs' = [p \in Projects |-> IF p \in ps THEN <<>> ELSE obs[p]]
  /\ prompts' = [p \in Projects |-> IF p \in ps THEN {} ELSE prompts[p]]

(* So the second commit of a merge from p is seen by nobody. *)
VanishOne(p) == Vanish({p}) /\ merging' = {m \in merging : m[1] # p}

(* The write thread of p is in a request. *)
InUse(p) == (\E m \in merging : m[2] = p) \/ (deleting # None /\ deleting[1] = p)

(* hard_delete_project unlinks the file, whatever locks are on it.  The    *)
(* registry is not told: a cached project keeps the file open.             *)
RemoveFiles(p) ==
  /\ p \notin unlinked
  /\ \/ unlinked' = unlinked \cup {p} /\ UNCHANGED <<sessions, obs, prompts, merging>>
     \/ ~InUse(p) /\ VanishOne(p) /\ UNCHANGED unlinked
  /\ Leave(p, Live(p))
  /\ UNCHANGED <<clock, deleting, saved, stranded>>

(* DeleteProject --hard *)
HardDeleteProject(p) ==
  /\ Call /\ sessions[p] # <<>>
  /\ RemoveFiles(p)
  /\ dropped' = dropped \cup SyncsOf(p, Live(p))
  /\ UNCHANGED <<pruning, pruned>>

(* The last holder of an unlinked file lets go of it: the LRU evicts the   *)
(* project.                                                                *)
Evict(p) ==
  /\ p \in unlinked /\ ~InUse(p)
  /\ unlinked' = unlinked \ {p} /\ VanishOne(p) /\ Leave(p, Live(p))
  /\ UNCHANGED <<clock, deleting, pruning, saved, losses, calls>>

(* `project prune` asks which files have no live observation, and then     *)
(* hard-deletes each in a request of its own.                              *)
PruneList ==
  /\ Call /\ pruning = {}
  /\ pruning' = {p \in Projects \ unlinked : Live(p) = {} /\ sessions[p] # <<>>}
  /\ UNCHANGED <<sessions, obs, prompts, clock, deleting, merging, page, saved, losses, unlinked>>

PruneDelete(p) ==
  /\ p \in pruning /\ pruning' = pruning \ {p}
  /\ RemoveFiles(p)
  /\ pruned' = pruned \cup SyncsOf(p, Live(p))
  /\ UNCHANGED <<dropped, calls>>

(* There is no file of this name any more. *)
PruneSkips(p) ==
  /\ p \in pruning \cap unlinked /\ pruning' = pruning \ {p}
  /\ UNCHANGED <<sessions, obs, prompts, clock, deleting, merging, page, saved, losses, unlinked, calls>>

(* The daemon, and the clients with it, go down in the middle of things. *)
Crash ==
  /\ deleting # None \/ merging # {} \/ pruning # {} \/ unlinked # {}
  /\ deleting' = None /\ merging' = {} /\ pruning' = {} /\ unlinked' = {} /\ page' = None
  /\ Vanish(unlinked)
  /\ UNCHANGED <<clock, saved, losses, calls>>

-----------------------------------------------------------------------------
(* ListObservations, page after page: newest first, ties by id.  Every     *)
(* page opens the file by its name.                                        *)

Before(p, i, j) ==
  obs[p][i].at > obs[p][j].at \/ (obs[p][i].at = obs[p][j].at /\ i > j)

ListBegin(p) ==
  /\ Call /\ page = None /\ p \notin unlinked /\ Live(p) # {}
  /\ page' = [project |-> p, cursor |-> None, seen |-> <<>>, steady |-> Live(p), done |-> FALSE]
  /\ UNCHANGED <<sessions, obs, prompts, clock, work, saved, losses, unlinked>>

(* The rows strictly after the cursor, <<created_at, id>> ...              *)
After(p, c, i) ==
  c = None \/ obs[p][i].at < c[1] \/ (obs[p][i].at = c[1] /\ i < c[2])

Ahead(p, c) ==
  Listed({i \in Live(p) : After(p, c, i)},
         {e \in Live(p) \X Live(p) : Before(p, e[1], e[2])})

(* ... and of them one more than asked.                                    *)
Fetched ==
  LET rows == Ahead(page.project, page.cursor)
  IN SubSeq(rows, 1, IF Len(rows) > Limit THEN Limit + 1 ELSE Len(rows))

\* Mutant: the cursor is the row that was fetched to see whether there is more.
ListPageTrimmed ==
  /\ page # None /\ ~page.done /\ page.project \notin unlinked
  /\ LET more == Len(Fetched) > Limit
         kept == IF more THEN Front(Fetched) ELSE Fetched
     IN page' = [page EXCEPT !.seen = @ \o kept, !.done = ~more,
                   !.cursor = IF more THEN <<obs[page.project][Last(Fetched)].at, Last(Fetched)>> ELSE @]
  /\ UNCHANGED <<sessions, obs, prompts, clock, work, saved, losses, unlinked, calls>>

(* The next cursor is the last row that is returned. *)
ListPage ==
  /\ page # None /\ ~page.done /\ page.project \notin unlinked
  /\ LET more == Len(Fetched) > Limit
         kept == IF more THEN Front(Fetched) ELSE Fetched
     IN page' = [page EXCEPT !.seen = @ \o kept, !.done = ~more,
                   !.cursor = IF more THEN <<obs[page.project][Last(kept)].at, Last(kept)>> ELSE @]
  /\ UNCHANGED <<sessions, obs, prompts, clock, work, saved, losses, unlinked, calls>>

-----------------------------------------------------------------------------
Next ==
  \/ Tick
  \/ \E p \in Projects, s \in SessionIds :
       \/ StartSession(p, s) \/ SaveSessionSummary(p, s) \/ CheckSession(p, s)
       \/ \E summary \in {None, "text"} : EndSession(p, s, summary)
       \/ \E o \in SyncIds : SaveObservation(p, o, s)
       \/ \E q \in PromptIds : SavePrompt(p, q, s)
  \/ DeleteSession
  \/ \E p \in Projects :
       \/ \E i \in DOMAIN obs[p], status \in {"deleted", "gone"} : DeleteObservation(p, i, status)
       \/ \E q \in prompts[p] : DeletePrompt(p, q)
       \/ SoftDeleteProject(p) \/ HardDeleteProject(p) \/ Evict(p)
       \/ PruneDelete(p) \/ PruneSkips(p) \/ ListBegin(p)
  \/ \E m \in Merges : MergeProjects(m[1], m[2])
  \/ \E m \in merging : MergeSource(m)
  \/ PruneList \/ ListPage \/ Crash

Spec == Init /\ [][Next]_vars

-----------------------------------------------------------------------------
(* Types, and the references of the schema: no sequence of checks, late    *)
(* deletes, merges and saves leaves an observation or a prompt without its *)
(* session, nor one sync_id on two rows of a project.                      *)
TypeOK ==
  /\ \A p \in Projects :
       /\ DOMAIN sessions[p] \subseteq SessionIds
       /\ \A s \in DOMAIN sessions[p] : sessions[p][s] \in Sessions
       /\ \A i \in DOMAIN obs[p] : obs[p][i] \in Observations
       /\ \A i \in Stored(p) : obs[p][i].session \in DOMAIN sessions[p]
       /\ \A q \in prompts[p] : q.sync \in PromptIds /\ q.session \in DOMAIN sessions[p]
       /\ Cardinality(SyncsOf(p, Stored(p))) = Cardinality(Stored(p))
  /\ clock \in 0..MaxTime /\ calls \in 0..MaxCalls
  /\ deleting \in {None} \cup Projects \X SessionIds
  /\ merging \subseteq Merges
  /\ pruning \subseteq Projects /\ unlinked \subseteq Projects
  /\ dropped \cup stranded \cup pruned \subseteq saved /\ saved \subseteq SyncIds

(* What the code loses: what somebody deleted, and, as two findings say,   *)
(* what was written to a file a hard delete had unlinked, and what was in  *)
(* a project when prune deleted it, which it had listed as empty.          *)
Lost == dropped \cup stranded \cup pruned

(* An observation that was saved and is not lost in one of these ways is   *)
(* live in some project, however merges, crashes in them, evictions, saves *)
(* and deletes of whole projects follow each other.                        *)
SavedIsSomewhere ==
  \A o \in saved \ Lost : \E p \in Projects : o \in SyncsOf(p, Live(p))

(* A listing shows every row that is there from its first page to its last *)
(* exactly once, whatever is saved, merged in or deleted between pages.    *)
PagesAreExact ==
  page # None /\ page.done =>
    \A i \in page.steady : Cardinality({k \in DOMAIN page.seen : page.seen[k] = i}) = 1

(* Where the rows of a project may end up: no project is merged into one   *)
(* that comes back to it, nor into two that are merged with one another.   *)
Settles(down) ==
  /\ \A p \in Projects : p \in down[p] /\ \A q \in down[p] : down[q] \subseteq down[p]
  /\ \A m \in Merges : m[1] \notin down[m[2]] /\ down[m[1]] = {m[1]} \cup down[m[2]]
=============================================================================
