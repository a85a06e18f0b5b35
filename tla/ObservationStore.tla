--------------------------- MODULE ObservationStore ---------------------------
(***************************************************************************)
(* The observations table of one project and the handlers of               *)
(* memlayer-storage/src/write.rs that change it. The write thread runs them *)
(* one after the other, so each handler is one step.                        *)
(*                                                                          *)
(* A content stands for all texts with its normalized hash. Timestamps are  *)
(* ticks of which DayTicks make a UTC day. Left out: the columns no lookup  *)
(* reads (counters, last_seen_at, tool_name, anchors, review dates),        *)
(* the sessions a save creates on demand, the edges of verdicts that change  *)
(* no row, and, among several rows of one topic, which is the last updated. *)
(* An operator whose comment starts with "Mutant" is a slip the properties    *)
(* must catch; no action uses it.                                           *)
(***************************************************************************)
EXTENDS Integers, Functions

CONSTANTS
    SyncIds, Titles, Contents, Scopes, Types, Topics,
    NoSync,     \* the caller gives no sync_id: the row gets a fresh uuid
    NoTopic,
    Matches,    \* <<t, u>>: the words of title t occur, as a phrase, in title u
    DayTicks,
    Window,     \* dedupe_window_secs; 0 switches the hash dedupe off
    Times,      \* the instants at which handlers run
    MaxId       \* bound on the rows ever inserted

ASSUME StoreAssumption ==
    /\ NoSync \notin SyncIds /\ NoTopic \notin Topics
    /\ Matches \subseteq Titles \X Titles
    /\ DayTicks \in Nat \ {0} /\ Window \in Nat
    /\ Times \subseteq Nat /\ \A t \in Times : Window <= t
    /\ MaxId \in Nat

VARIABLES
    rows,    \* the rows, by id
    lastId,  \* sqlite_sequence: AUTOINCREMENT never reuses an id
    edges,   \* observation_relations of type supersedes: <<source, target>>
    now

storeVars == <<rows, lastId, edges, now>>

Ids == DOMAIN rows
Deleted == {"no", "soft", "superseded"}   \* deleted_at with delete_reason
Row == [sync : SyncIds \cup {NoSync}, title : Titles, content : Contents,
        scope : Scopes, type : Types, topic : Topics \cup {NoTopic},
        created : Times,
        deleted : Deleted, by : 0..MaxId, sups : 0..1]
Inputs == [sync : SyncIds \cup {NoSync}, title : Titles, content : Contents,
           scope : Scopes, type : Types, topic : Topics \cup {NoTopic},
           skip : BOOLEAN]                \* skip_supersede
Patches == [title : Titles, content : Contents, scope : Scopes, type : Types,
            topic : Topics \cup {NoTopic}]

StoreTypeOK ==
    /\ lastId \in 0..MaxId
    /\ Ids \subseteq 1..lastId /\ rows \in [Ids -> Row]
    /\ edges \subseteq Ids \X Ids
    /\ now \in Times

StoreInit == rows = <<>> /\ lastId = 0 /\ edges = {} /\ now \in Times

------------------------------------------------------------------------------
\* Lookups.

Active(i) == rows[i].deleted = "no"

Known(in) == in.sync # NoSync /\ \E i \in Ids : rows[i].sync = in.sync

\* Mutant: the topic lookup sees deleted rows.
TopicMatchesDeleted(in) ==
    {i \in Ids : /\ ~in.skip /\ in.topic # NoTopic
                 /\ rows[i].topic = in.topic /\ rows[i].scope = in.scope}

\* fetch_active_obs_by_topic.
TopicMatches(in) ==
    {i \in Ids : /\ ~in.skip /\ in.topic # NoTopic
                 /\ Active(i) /\ rows[i].topic = in.topic /\ rows[i].scope = in.scope}

\* created_at >= datetime('now', '-Window seconds') compares strings: created_at
\* has a 'T' between date and time, datetime() a space, which sorts before it. On
\* the cutoff's own day every time of day is later than the cutoff.
InWindow(i) == rows[i].created \div DayTicks >= (now - Window) \div DayTicks

\* fetch_active_obs_by_hash_in_window: the newest of the rows with that hash.
HashMatches(in) ==
    {i \in Ids : Window > 0 /\ Active(i) /\ rows[i].content = in.content /\ InWindow(i)}
Newest(S) == {i \in S : \A j \in S : rows[j].created <= rows[i].created}

\* Mutant: the conflict scan ignores the scope.
CandidatesAnyScope(in) ==
    {i \in Ids : /\ ~in.skip /\ Active(i)
                 /\ rows[i].type = in.type /\ <<in.title, rows[i].title>> \in Matches}

\* find_conflict_candidate: the best match of the title; ranks and ties are open.
Candidates(in) ==
    {i \in Ids : /\ ~in.skip /\ Active(i)
                 /\ rows[i].scope = in.scope /\ rows[i].type = in.type
                 /\ <<in.title, rows[i].title>> \in Matches}

------------------------------------------------------------------------------
\* handle_save_observation, one operator per outcome.

SaveKnown(in) ==
    /\ Known(in)
    /\ UNCHANGED storeVars

UpsertTopic(in) ==
    /\ ~Known(in)
    /\ \E i \in TopicMatches(in) :
         rows' = [rows EXCEPT ![i].title = in.title, ![i].content = in.content]
    /\ UNCHANGED <<lastId, edges, now>>

\* The save is answered with the newest row of that hash, whose duplicate_count and
\* last_seen_at go up.
FoldDuplicate(in) ==
    /\ ~Known(in) /\ TopicMatches(in) = {}
    /\ Newest(HashMatches(in)) # {}
    /\ UNCHANGED storeVars

NewRow(in, sups) ==
    [sync |-> in.sync, title |-> in.title, content |-> in.content, scope |-> in.scope,
     type |-> in.type, topic |-> in.topic, created |-> now,
     deleted |-> "no", by |-> 0, sups |-> sups]

\* The table rs with one more row, under the next id.
Added(rs, row) ==
    [i \in Ids \cup {lastId + 1} |-> IF i \in Ids THEN rs[i] ELSE row]

\* Mutant: the insert does not look at the topic.
InsertsAnyTopic(in) ==
    /\ ~Known(in) /\ HashMatches(in) = {}
    /\ lastId < MaxId /\ lastId' = lastId + 1
    /\ UNCHANGED now

Inserts(in) ==
    /\ ~Known(in) /\ TopicMatches(in) = {} /\ HashMatches(in) = {}
    /\ lastId < MaxId /\ lastId' = lastId + 1
    /\ UNCHANGED now

\* No conflict candidate, or one that the judge lets live.
InsertBeside(in) ==
    /\ Inserts(in)
    /\ rows' = Added(rows, NewRow(in, 0))
    /\ UNCHANGED edges

\* The candidate is superseded: the judge says so (and leaves an edge), fails, is
\* switched off or does not exist.
InsertSuperseding(in) ==
    /\ Inserts(in)
    /\ \E old \in Candidates(in), judged \in BOOLEAN :
         /\ rows' = Added([rows EXCEPT ![old].deleted = "superseded",
                                      ![old].by = lastId + 1],
                          NewRow(in, 1))
         /\ edges' = IF judged THEN edges \cup {<<lastId + 1, old>>} ELSE edges

Save(in) ==
    SaveKnown(in) \/ UpsertTopic(in) \/ FoldDuplicate(in)
    \/ InsertBeside(in) \/ InsertSuperseding(in)

------------------------------------------------------------------------------
\* The other handlers.

\* handle_update_obs; a patch cannot clear the topic.
Update(i, p) ==
    /\ Active(i)
    /\ rows[i].topic # NoTopic => p.topic # NoTopic
    /\ rows' = [rows EXCEPT ![i].title = p.title, ![i].content = p.content,
                            ![i].scope = p.scope, ![i].type = p.type,
                            ![i].topic = p.topic]
    /\ UNCHANGED <<lastId, edges, now>>

SoftDelete(i) ==
    /\ Active(i)
    /\ rows' = [rows EXCEPT ![i].deleted = "soft"]
    /\ UNCHANGED <<lastId, edges, now>>

\* Mutant: no foreign key on superseded_by_id.
HardDeleteUnchecked(i) ==
    /\ rows' = Restrict(rows, Ids \ {i})
    /\ edges' = {e \in edges : e[1] # i /\ e[2] # i}
    /\ UNCHANGED <<lastId, now>>

\* The foreign key superseded_by_id has no ON DELETE clause: a row that superseded
\* another cannot go. Edges cascade.
HardDelete(i) ==
    /\ \A j \in Ids : rows[j].by # i
    /\ rows' = Restrict(rows, Ids \ {i})
    /\ edges' = {e \in edges : e[1] # i /\ e[2] # i}
    /\ UNCHANGED <<lastId, now>>

Tick ==
    /\ now' \in {t \in Times : t > now}
    /\ UNCHANGED <<rows, lastId, edges>>

StoreNext ==
    \/ \E in \in Inputs : Save(in)
    \/ \E i \in Ids :
         (\E p \in Patches : Update(i, p)) \/ SoftDelete(i) \/ HardDelete(i)
    \/ Tick

StoreSpec == StoreInit /\ [][StoreNext]_storeVars

------------------------------------------------------------------------------
\* Properties.

\* Supersession is a forest of live references: a row is marked superseded exactly
\* when it names its superseder, which is younger, still in the table, and counts
\* it; no two rows name the same superseder; the judge's edges say the same.
SupersessionSound ==
    /\ \A i \in Ids :
         /\ rows[i].deleted = "superseded" <=> rows[i].by # 0
         /\ rows[i].by # 0 => rows[i].by \in Ids /\ rows[i].by > i
                              /\ rows[rows[i].by].sups = 1
    /\ \A i, j \in Ids : rows[i].by # 0 /\ rows[i].by = rows[j].by => i = j
    /\ \A e \in edges : rows[e[2]].by = e[1]

\* An insert leaves its row live and takes a row out of sight only in favour of
\* it, and only within a scope and a type.
InsertHidesOnlyReplaced ==
    [][lastId' # lastId =>
          /\ lastId' \in Ids' /\ rows'[lastId'].deleted = "no"
          /\ \A i \in Ids : Active(i) =>
                /\ i \in Ids'
                /\ rows'[i].deleted # "no" =>
                      /\ rows'[i].by = lastId'
                      /\ rows[i].scope = rows'[lastId'].scope
                      /\ rows[i].type = rows'[lastId'].type]_storeVars

\* The request that inserts row i.
RequestOf(i, skip) ==
    [sync |-> rows[i].sync, title |-> rows[i].title, content |-> rows[i].content,
     scope |-> rows[i].scope, type |-> rows[i].type, topic |-> rows[i].topic,
     skip |-> skip]

\* A save with a topic never adds a row beside a live one of its topic and scope
\* (skip_supersede saves may; updates may bring two together).
SaveNeverForksTopic ==
    [][lastId' # lastId /\ rows'[lastId'].topic # NoTopic
       /\ Save(RequestOf(lastId, FALSE)') =>
          \A i \in Ids' \ {lastId'} :
             rows'[i].deleted = "no" => \/ rows'[i].topic # rows'[lastId'].topic
                                        \/ rows'[i].scope # rows'[lastId'].scope]_storeVars

\* A row that has left the live set is never changed again, least of all revived:
\* it can only be removed for good.
DeletedRowsFrozen ==
    [][\A i \in Ids : ~Active(i) /\ i \in Ids' => rows'[i] = rows[i]]_storeVars

=============================================================================
