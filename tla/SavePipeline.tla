----------------------------- MODULE SavePipeline -----------------------------
(***************************************************************************)
(* What happens to a saved observation after its row is written              *)
(* (memlayer-daemon: save_observation, reindex_observations,                  *)
(* reextract_observations, embed_worker.rs, extract_worker.rs;                *)
(* memlayer-storage: the handlers of write.rs for embeddings, facts and the    *)
(* graph, and global.rs). The RPC goes on with the row it was handed while     *)
(* others rewrite or delete that row: it re-reads it after stamping anchors,   *)
(* mirrors it into global.sqlite, queues it for embedding and fact             *)
(* extraction, and indexes it in the entity graph. The workers write what they *)
(* computed from the text they were given.                                    *)
(*                                                                          *)
(* A text stands for title and content. Each statement of the write thread is  *)
(* one step here: WriteThread shows why that is sound. Topic, hash and         *)
(* conflict rules are in ObservationStore; here a save inserts a row, rewrites *)
(* one, or returns one as it is.                                              *)
(***************************************************************************)
EXTENDS Naturals, Sequences, FiniteSets, Functions

CONSTANTS
    Savers,         \* clients in SaveObservation
    EmbedWorkers,
    QueueCapacity,  \* of the embed pool and of the extract pool
    Retries,        \* RETRY_BACKOFFS.len()
    RateLimit,      \* RATE_LIMIT_PAUSE_THRESHOLD
    Configs,        \* sets of what is switched on: the embedder, embed.quantize,
                    \* extract.enabled, graph.enabled, and the global database
    None,
    MaxRows, MaxTexts, MaxFailures, MaxCrashes, MaxBulk  \* bounds for model checking

ASSUME SavePipelineAssumption ==
    /\ {MaxRows, MaxTexts, MaxFailures, MaxCrashes, MaxBulk, Retries} \subseteq Nat
    /\ QueueCapacity \in Nat \ {0} /\ RateLimit \in Nat \ {0}
    /\ Configs \subseteq SUBSET {"embed", "quantize", "extract", "graph", "mirror"}

Ids == 1..MaxRows
Texts == 1..MaxTexts
Task == [id : Ids, text : Texts]
Partial(S) == UNION {[D -> S] : D \in SUBSET Ids}

VARIABLES
    enabled,    \* the member of Configs that holds
    rows,       \* observations: id -> text and whether deleted_at is NULL
    last,       \* the AUTOINCREMENT counter
    clock,      \* texts written so far
    texts,      \* history: the texts the row with this id has had
    rpc,        \* where each saver is, and the observation it holds
    loaded,     \* the embedder is there: embed_pool is Some
    embedQ, extractQ,
    worker,     \* what each embed worker works on, and its failed attempts
    extractor,  \* what the extract worker works on, and its consecutive_429
    bulk,       \* a running reindex or reextract, and the tasks it still has to queue
    vec,        \* observations_vec: id -> text
    meta,       \* observation_embedding_meta: id -> text and quantized
    facts,      \* ids and texts of facts
    mentions,   \* ids and texts of entity_mentions
    mirror,     \* global.sqlite: id -> text
    failures, crashes, bulks,
    torn        \* history: a reindex --force was cut short between its two DELETEs

client == <<enabled, rpc>>
queues == <<embedQ, extractQ, worker, extractor, bulk, loaded>>
derived == <<vec, meta, facts, mentions, mirror>>
table == <<rows, last, clock, texts>>
bounds == <<failures, crashes, bulks, torn>>
vars == <<table, client, queues, derived, bounds>>

Idle == [at |-> "idle", obs |-> None]
Free == [task |-> None, failed |-> 0]
NoBulk == [at |-> "none", todo |-> {}]

TypeOK ==
    /\ enabled \in Configs
    /\ rows \in Partial([text : Texts, live : BOOLEAN])
    /\ last \in 0..MaxRows /\ clock \in 0..MaxTexts
    /\ \A i \in DOMAIN rows : i <= last
    /\ texts \in [Ids -> SUBSET Texts]
    /\ \A s \in Savers : rpc[s].at # "idle" => rpc[s].obs \in Task
    /\ embedQ \in Seq(Task) /\ Len(embedQ) <= QueueCapacity
    /\ extractQ \in Seq(Task) /\ Len(extractQ) <= QueueCapacity
    /\ \A w \in EmbedWorkers : worker[w] \in [task : Task \cup {None}, failed : 0..Retries]
    /\ extractor \in [task : Task \cup {None}, failed : 0..RateLimit]
    /\ bulk.at \in {"none", "clear_meta", "select", "embed", "extract"}
    /\ bulk.todo \subseteq Task
    /\ vec \in Partial(Texts) /\ mirror \in Partial(Texts)
    /\ meta \in Partial([text : Texts, quantized : BOOLEAN])
    /\ facts \subseteq Ids \X Texts /\ mentions \subseteq Ids \X Texts

Init ==
    /\ enabled \in Configs
    /\ rows = <<>> /\ last = 0 /\ clock = 0
    /\ texts = [i \in Ids |-> {}]
    /\ rpc = [s \in Savers |-> Idle]
    /\ loaded = FALSE
    /\ embedQ = <<>> /\ extractQ = <<>>
    /\ worker = [w \in EmbedWorkers |-> Free] /\ extractor = Free
    /\ bulk = NoBulk
    /\ vec = <<>> /\ meta = <<>> /\ facts = {} /\ mentions = {} /\ mirror = <<>>
    /\ failures = 0 /\ crashes = 0 /\ bulks = 0 /\ torn = FALSE

Put(f, i, v) == [j \in DOMAIN f \cup {i} |-> IF j = i THEN v ELSE f[j]]
Drop(f, i) == Restrict(f, DOMAIN f \ {i})
Snapshot(i) == [id |-> i, text |-> rows[i].text]
Exists(i) == i \in DOMAIN rows
Live(i) == Exists(i) /\ rows[i].live

\* The write thread is not in the middle of the Custom of a reindex.
WriteThreadFree == bulk.at # "clear_meta"

------------------------------------------------------------------------------
\* The observations table.

Rewrite(i) ==
    /\ clock < MaxTexts
    /\ clock' = clock + 1
    /\ rows' = [rows EXCEPT ![i].text = clock + 1]
    /\ texts' = [texts EXCEPT ![i] = @ \cup {clock + 1}]
    /\ UNCHANGED last

\* Mutant: ids without AUTOINCREMENT, the largest rowid plus one.
InsertReusingId(i) ==
    /\ clock < MaxTexts /\ i = Cardinality(DOMAIN rows) + 1 /\ i \notin DOMAIN rows
    /\ \A j \in DOMAIN rows : j < i
    /\ last' = IF i > last THEN i ELSE last
    /\ clock' = clock + 1
    /\ rows' = Put(rows, i, [text |-> clock + 1, live |-> TRUE])
    /\ texts' = [texts EXCEPT ![i] = {clock + 1}]

Insert(i) ==
    /\ clock < MaxTexts /\ i = last + 1
    /\ last' = i
    /\ clock' = clock + 1
    /\ rows' = Put(rows, i, [text |-> clock + 1, live |-> TRUE])
    /\ texts' = [texts EXCEPT ![i] = {clock + 1}]

\* UpdateObservation writes the row and nothing that was derived from it.
Update(i) ==
    /\ WriteThreadFree /\ Live(i) /\ Rewrite(i)
    /\ UNCHANGED <<client, queues, derived, bounds>>

SoftDelete(i) ==
    /\ WriteThreadFree /\ Live(i)
    /\ rows' = [rows EXCEPT ![i].live = FALSE]
    /\ UNCHANGED <<last, clock, texts, client, queues, derived, bounds>>

\* The cascades of V4 and V5, and the trigger on observations_vec. The entity graph
\* and the mirror have no foreign key.
HardDelete(i) ==
    /\ WriteThreadFree /\ Exists(i)
    /\ rows' = Drop(rows, i)
    /\ vec' = Drop(vec, i) /\ meta' = Drop(meta, i)
    /\ facts' = {f \in facts : f[1] # i}
    /\ UNCHANGED <<last, clock, texts, client, queues, mentions, mirror, bounds>>

------------------------------------------------------------------------------
\* SaveObservation.

Step(s, from, to) ==
    /\ rpc[s].at = from
    /\ rpc' = [rpc EXCEPT ![s] = IF to = "idle" THEN Idle ELSE [@ EXCEPT !.at = to]]

\* The write thread's answer: a new row, a topic's row rewritten, or the row of a
\* known sync_id or duplicate as it is.
Save(s) ==
    /\ WriteThreadFree /\ rpc[s] = Idle
    /\ \E i \in Ids :
        /\ \/ Insert(i)
           \/ Live(i) /\ Rewrite(i)
           \/ Exists(i) /\ UNCHANGED table
        /\ rpc' = [rpc EXCEPT ![s] = [at |-> "saved", obs |-> [id |-> i, text |-> rows'[i].text]]]
    /\ UNCHANGED <<enabled, queues, derived, bounds>>

\* stamp_observation_anchors: afterwards the row is read again, unless there is no
\* anchor to stamp, the stamping fails, or the row is deleted.
Stamp(s) ==
    /\ Step(s, "saved", "stamped")
    /\ UNCHANGED <<enabled, table, queues, derived, bounds>>

StampAndReread(s) ==
    LET i == rpc[s].obs.id IN
    /\ rpc[s].at = "saved" /\ Live(i)
    /\ rpc' = [rpc EXCEPT ![s] = [at |-> "stamped", obs |-> Snapshot(i)]]
    /\ UNCHANGED <<enabled, table, queues, derived, bounds>>

\* upsert_observation, under the mutex of the global database, or its failure.
Mirror(s) ==
    /\ Step(s, "stamped", "mirrored")
    /\ mirror' \in {mirror} \cup IF "mirror" \in enabled
                                 THEN {Put(mirror, rpc[s].obs.id, rpc[s].obs.text)} ELSE {}
    /\ UNCHANGED <<enabled, table, queues, vec, meta, facts, mentions, bounds>>

\* try_queue: a task that finds the queue full is dropped.
TryQueue(queue, task) ==
    IF Len(queue) < QueueCapacity THEN Append(queue, task) ELSE queue

QueueEmbed(s) ==
    /\ Step(s, "mirrored", "embed_queued")
    /\ embedQ' = IF loaded THEN TryQueue(embedQ, rpc[s].obs) ELSE embedQ
    /\ UNCHANGED <<enabled, table, extractQ, worker, extractor, bulk, loaded, derived, bounds>>

QueueExtract(s) ==
    /\ Step(s, "embed_queued", "extract_queued")
    /\ extractQ' = IF "extract" \in enabled THEN TryQueue(extractQ, rpc[s].obs) ELSE extractQ
    /\ UNCHANGED <<enabled, table, embedQ, worker, extractor, bulk, loaded, derived, bounds>>

\* IndexGraph, or its failure; the row need not exist any more.
IndexGraph(s) ==
    /\ WriteThreadFree /\ Step(s, "extract_queued", "idle")
    /\ mentions' \in {mentions} \cup IF "graph" \in enabled
                                     THEN {mentions \cup {<<rpc[s].obs.id, rpc[s].obs.text>>}} ELSE {}
    /\ UNCHANGED <<enabled, table, queues, vec, meta, facts, mirror, bounds>>

\* The client goes away: the handler ends at its next await, with whatever it has
\* done. The write it waited for stays.
Abandon(s) ==
    /\ \/ Step(s, "saved", "idle")
       \/ Step(s, "extract_queued", "idle")
    /\ UNCHANGED <<enabled, table, queues, derived, bounds>>

------------------------------------------------------------------------------
\* ReindexObservations and ReextractObservations, one at a time.

SetBulk(at, todo) == bulk' = [at |-> at, todo |-> todo]

\* With force the vectors go first; without, the rows are selected at once.
Reindex ==
    /\ bulk = NoBulk /\ loaded /\ bulks < MaxBulk
    /\ bulks' = bulks + 1
    /\ \/ SetBulk("select", {}) /\ UNCHANGED vec
       \/ SetBulk("clear_meta", {}) /\ vec' = <<>>
    /\ UNCHANGED <<table, client, embedQ, extractQ, worker, extractor, loaded,
                   meta, facts, mentions, mirror, failures, crashes, torn>>

\* The second DELETE of the same Custom: no other write comes between, only a crash.
ClearMeta ==
    /\ bulk.at = "clear_meta"
    /\ meta' = <<>>
    /\ SetBulk("select", {})
    /\ UNCHANGED <<table, client, embedQ, extractQ, worker, extractor, loaded,
                   vec, facts, mentions, mirror, bounds>>

Snapshots(S) == {Snapshot(i) : i \in S}

SelectMissing ==
    /\ bulk.at = "select"
    /\ SetBulk("embed", Snapshots({i \in Ids : Live(i) /\ i \notin DOMAIN meta}))
    /\ UNCHANGED <<table, client, embedQ, extractQ, worker, extractor, loaded,
                   derived, bounds>>

Reextract ==
    /\ bulk = NoBulk /\ bulks < MaxBulk /\ "extract" \in enabled
    /\ bulks' = bulks + 1
    /\ \E all \in BOOLEAN :
        SetBulk("extract", Snapshots({i \in Ids : Live(i) /\ (all \/ \A f \in facts : f[1] # i)}))
    /\ UNCHANGED <<table, client, embedQ, extractQ, worker, extractor, loaded,
                   derived, failures, crashes, torn>>

\* The rows that were selected, in the order of their ids.
BulkQueue ==
    /\ bulk.at \in {"embed", "extract"}
    /\ \E task \in bulk.todo :
        /\ \A other \in bulk.todo : task.id <= other.id
        /\ SetBulk(bulk.at, bulk.todo \ {task})
        /\ embedQ' = IF bulk.at = "embed" THEN TryQueue(embedQ, task) ELSE embedQ
        /\ extractQ' = IF bulk.at = "extract" THEN TryQueue(extractQ, task) ELSE extractQ
    /\ UNCHANGED <<table, client, worker, extractor, loaded, derived, bounds>>

BulkEnd ==
    /\ bulk.at \in {"embed", "extract"} /\ bulk.todo = {}
    /\ bulk' = NoBulk
    /\ UNCHANGED <<table, client, embedQ, extractQ, worker, extractor, loaded, derived, bounds>>

------------------------------------------------------------------------------
\* The embed workers.

SetWorker(w, task, failed) == worker' = [worker EXCEPT ![w] = [task |-> task, failed |-> failed]]

Take(w) ==
    /\ worker[w] = Free /\ embedQ # <<>>
    /\ SetWorker(w, Head(embedQ), 0)
    /\ embedQ' = Tail(embedQ)
    /\ UNCHANGED <<table, client, extractQ, extractor, bulk, loaded, derived, bounds>>

\* Mutant: max_attempts = backoffs.len().
RetryOneLess(w) ==
    IF worker[w].failed + 1 < Retries THEN SetWorker(w, worker[w].task, worker[w].failed + 1)
                                      ELSE SetWorker(w, None, 0)

\* retry_with_backoff: a first attempt and one more after each backoff.
Retry(w) ==
    IF worker[w].failed < Retries THEN SetWorker(w, worker[w].task, worker[w].failed + 1)
                                  ELSE SetWorker(w, None, 0)

\* The embedder, opening the project or the write fails, and nothing is written.
EmbedFails(w) ==
    /\ worker[w] # Free /\ failures < MaxFailures
    /\ failures' = failures + 1
    /\ Retry(w)
    /\ UNCHANGED <<table, client, embedQ, extractQ, extractor, bulk, loaded, derived,
                   crashes, bulks, torn>>

\* Quantized, only the meta row is written; its foreign key refuses a deleted row.
InsertQuantized(w) ==
    LET t == worker[w].task IN
    /\ WriteThreadFree /\ worker[w] # Free
    /\ "quantize" \in enabled
    /\ IF Exists(t.id)
       THEN /\ meta' = Put(meta, t.id, [text |-> t.text, quantized |-> TRUE])
            /\ SetWorker(w, None, 0)
       ELSE UNCHANGED meta /\ Retry(w)
    /\ UNCHANGED <<table, client, embedQ, extractQ, extractor, bulk, loaded,
                   vec, facts, mentions, mirror, bounds>>

\* Mutant: the meta row is written before the vector is known to be stored.
InsertMetaFirst(w) ==
    LET t == worker[w].task IN
    /\ WriteThreadFree /\ worker[w] # Free
    /\ "quantize" \notin enabled
    /\ IF Exists(t.id)
       THEN /\ meta' = Put(meta, t.id, [text |-> t.text, quantized |-> FALSE])
            /\ \/ vec' = Put(vec, t.id, t.text) /\ SetWorker(w, None, 0)
               \/ UNCHANGED vec /\ Retry(w)
       ELSE UNCHANGED <<vec, meta>> /\ Retry(w)
    /\ UNCHANGED <<table, client, embedQ, extractQ, extractor, bulk, loaded,
                   facts, mentions, mirror, bounds>>

\* Otherwise the vector is written first. The virtual table has no foreign key: the
\* vector of a deleted row stays when the meta row is refused. Whether vec0 replaces
\* a row or refuses it depends on its version.
InsertVector(w) ==
    LET t == worker[w].task IN
    /\ WriteThreadFree /\ worker[w] # Free
    /\ "quantize" \notin enabled
    /\ \/ t.id \in DOMAIN vec /\ UNCHANGED <<vec, meta>> /\ Retry(w)
       \/ /\ vec' = Put(vec, t.id, t.text)
          /\ IF Exists(t.id)
             THEN /\ meta' = Put(meta, t.id, [text |-> t.text, quantized |-> FALSE])
                  /\ SetWorker(w, None, 0)
             ELSE UNCHANGED meta /\ Retry(w)
    /\ UNCHANGED <<table, client, embedQ, extractQ, extractor, bulk, loaded,
                   facts, mentions, mirror, bounds>>

------------------------------------------------------------------------------
\* The extract worker: no retry, a pause after RateLimit refusals in a row.

TakeExtract ==
    /\ extractor.task = None /\ extractor.failed < RateLimit /\ extractQ # <<>>
    /\ extractor' = [extractor EXCEPT !.task = Head(extractQ)]
    /\ extractQ' = Tail(extractQ)
    /\ UNCHANGED <<table, client, embedQ, worker, bulk, loaded, derived, bounds>>

\* Facts are added, none replaced; the foreign key refuses those of a deleted row.
AddFacts(t) == Exists(t.id) /\ facts' = facts \cup {<<t.id, t.text>>}

\* Disabled, a short text or no facts found write nothing.
InsertFacts ==
    LET t == extractor.task IN
    /\ WriteThreadFree /\ t # None
    /\ AddFacts(t) \/ UNCHANGED facts
    /\ extractor' = Free
    /\ UNCHANGED <<table, client, embedQ, extractQ, worker, bulk, loaded,
                   vec, meta, mentions, mirror, bounds>>

\* The model is busy, or it fails otherwise: the task is given up either way.
ExtractFails ==
    /\ extractor.task # None
    /\ \/ extractor' = Free
       \/ extractor' = [task |-> None, failed |-> extractor.failed + 1]
    /\ UNCHANGED <<table, client, embedQ, extractQ, worker, bulk, loaded, derived, bounds>>

Pause ==
    /\ extractor.task = None /\ extractor.failed = RateLimit
    /\ extractor' = Free
    /\ UNCHANGED <<table, client, embedQ, extractQ, worker, bulk, loaded, derived, bounds>>

------------------------------------------------------------------------------
LoadEmbedder ==
    /\ "embed" \in enabled /\ ~loaded /\ loaded' = TRUE
    /\ UNCHANGED <<table, client, embedQ, extractQ, worker, extractor, bulk, derived, bounds>>

\* The daemon dies and comes back: what was queued is forgotten.
Crash ==
    /\ crashes < MaxCrashes /\ crashes' = crashes + 1
    /\ torn' = (torn \/ ~WriteThreadFree)
    /\ rpc' = [s \in Savers |-> Idle]
    /\ embedQ' = <<>> /\ extractQ' = <<>> /\ loaded' = FALSE /\ bulk' = NoBulk
    /\ worker' = [w \in EmbedWorkers |-> Free] /\ extractor' = Free
    /\ UNCHANGED <<enabled, table, derived, failures, bulks>>

SaverStep(s) ==
    \/ Stamp(s) \/ StampAndReread(s) \/ Mirror(s) \/ QueueEmbed(s) \/ QueueExtract(s)
    \/ IndexGraph(s)

WorkerStep(w) == Take(w) \/ EmbedFails(w) \/ InsertQuantized(w) \/ InsertVector(w)
ExtractorStep == TakeExtract \/ InsertFacts \/ ExtractFails \/ Pause
BulkStep == ClearMeta \/ SelectMissing \/ BulkQueue \/ BulkEnd

Next ==
    \/ \E s \in Savers : Save(s) \/ SaverStep(s) \/ Abandon(s)
    \/ \E i \in Ids : Update(i) \/ SoftDelete(i) \/ HardDelete(i)
    \/ \E w \in EmbedWorkers : WorkerStep(w)
    \/ ExtractorStep \/ BulkStep
    \/ Reindex \/ Reextract \/ LoadEmbedder \/ Crash

\* Handlers and workers run on. Clients need not call, the model need not load.
Spec ==
    /\ Init /\ [][Next]_vars
    /\ \A s \in Savers : WF_vars(SaverStep(s))
    /\ \A w \in EmbedWorkers : WF_vars(WorkerStep(w))
    /\ WF_vars(ExtractorStep) /\ WF_vars(BulkStep)

------------------------------------------------------------------------------
\* Properties.

\* Whatever is derived from an observation comes from a text this very row has had:
\* late workers and RPCs never write to a row that took the place of another one.
DerivedFromOwnRow ==
    /\ \A i \in DOMAIN vec : vec[i] \in texts[i]
    /\ \A i \in DOMAIN meta : meta[i].text \in texts[i]
    /\ \A i \in DOMAIN mirror : mirror[i] \in texts[i]
    /\ \A f \in facts \cup mentions : f[2] \in texts[f[1]]

\* search_dense reads observations_vec unless every meta row is quantized, and then
\* the quantized blobs.
DenseHits ==
    IF DOMAIN meta # {} /\ \A i \in DOMAIN meta : meta[i].quantized
    THEN {i \in DOMAIN meta : Live(i)}
    ELSE {i \in DOMAIN vec : Live(i)}

\* An observation that a reindex takes for embedded can be found by its embedding,
\* as long as embed.quantize stays as it is and no forced reindex was cut short.
EmbeddedIsFound ==
    ~torn /\ WriteThreadFree =>
        \A i \in DOMAIN meta : Live(i) => i \in DenseHits

\* With no more failures than there are retries, and no crash, a queued embedding is
\* stored, unless its observation goes first.
QueuedIsEmbedded ==
    \A i \in Ids :
        (\E n \in DOMAIN embedQ : embedQ[n].id = i) ~>
            (i \in DOMAIN meta \/ ~Exists(i) \/ crashes > 0)

=============================================================================
