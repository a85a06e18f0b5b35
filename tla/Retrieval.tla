------------------------------ MODULE Retrieval ------------------------------
(***************************************************************************)
(* SearchObservations and Context (service.rs, read.rs): lanes of ranked   *)
(* rows, fused, reranked, widened, filtered and packed.  Every step is a   *)
(* query of its own on a read connection, and a rerank or an embedding     *)
(* takes time: rows are deleted and verified in between.                   *)
(*                                                                         *)
(* What a lane finds relevant is a free choice among rankings of the rows, *)
(* deleted ones included, since the index tables keep them.                *)
(***************************************************************************)
EXTENDS Ranking

CONSTANTS
  Rows,        \* ids 1..n, in order of creation
  Attr,        \* of every row: [project, type, session, time, text, tokens]
  Mentions,    \* entity_mentions, <<row, entity>>
  Edges,       \* entity_edges of the configured types
  Requests,    \* [kind, project, hybrid, type, limit, decay, rerank, window,
               \*  perType, stale, budget, share, seeds]
  Rankings,    \* what an index may answer, sequences of distinct rows
  Depth, K,    \* RRF_DEPTH, RRF_K
  Hops, DegreeCap,
  Unset,
  Steady,      \* bound: rows that stay as they are
  MaxWrites    \* bound

\* context takes the recent rows, those of an anchor, or a hybrid search.
Briefings == {"context", "recent", "anchor"}
Kinds == Briefings \cup {"search", "mirror", "global", "fanout", "timeline"}

ASSUME RetrievalAssumption ==
  /\ IsFiniteSet(Rows) /\ Rows = 1..Cardinality(Rows)
  /\ IsFiniteSet(Mentions)
  /\ Depth \in Nat \ {0} /\ K \in Nat \ {0} /\ Hops \in 0..2
  /\ \A r \in Rankings : r \in Seq(Rows) /\ IsInjective(r)
  /\ \A r \in Rows : Attr[r].time \in Nat
  /\ \A q \in Requests : q.kind \in Kinds /\ {q.limit, q.window} \subseteq Nat

VARIABLES
  live, state,        \* rows not deleted; verify_state of every row
  pc, req, lanes, hits, more,   \* the request: its lanes, hits and graph expansion
  gone, away,         \* rows deleted, or withdrawn, ever since the request began
  writes

readsVars == <<live, state, pc, req, lanes, hits, more, gone, away, writes>>
table == <<live, state, gone, away, writes>>

States == {"unanchored", "verified", "stale", "invalidated", "unprovable"}
Withdrawn == {"stale", "invalidated", "unprovable"}

Text == [r \in Rows |-> Attr[r].text]
Type == [r \in Rows |-> Attr[r].type]
Tokens == [r \in Rows |-> Attr[r].tokens]
Degree == [e \in {m[2] : m \in Mentions} |-> Cardinality({m \in Mentions : m[2] = e})]

ReadsInit ==
  /\ \E deleted \in SUBSET (Rows \ Steady) : live = Rows \ deleted
  /\ \E stale \in SUBSET (Rows \ Steady) :
       state = [r \in Rows |-> IF r \in stale THEN "stale" ELSE "unanchored"]
  /\ pc = "idle" /\ req = Unset /\ lanes = <<>> /\ hits = <<>> /\ more = <<>>
  /\ gone = {} /\ away = {} /\ writes = 0

-----------------------------------------------------------------------------
(* What others do to the rows. *)

SoftDelete(r) ==
  /\ r \in live \ Steady /\ writes < MaxWrites
  /\ live' = live \ {r} /\ writes' = writes + 1
  /\ UNCHANGED <<state, pc, req, lanes, hits, more, gone, away>>

SetState(r, s) ==
  /\ r \notin Steady /\ s # state[r] /\ writes < MaxWrites
  /\ state' = [state EXCEPT ![r] = s] /\ writes' = writes + 1
  /\ away' = IF s \in Withdrawn THEN away ELSE away \ {r}
  /\ UNCHANGED <<live, pc, req, lanes, hits, more, gone>>

-----------------------------------------------------------------------------
(* Reading rows: an observation carries the state it was read with. *)

OfProject(p) == {r \in Rows : Attr[r].project = p}
Here == live \cap OfProject(req.project)

Read(ids) == [i \in DOMAIN ids |-> [id |-> ids[i], state |-> state[ids[i]]]]
Wanted(r) == req.type = Unset \/ Type[r] = req.type
NewestFirst(ids) == Reverse(Ascending(ids))

(* What the index of a project answers, cut to limit. *)
Index(ranking, project, limit) ==
  Take(Sift(ranking, OfProject(project)), limit)

(* search: the filters apply after the index has been cut to limit, and    *)
(* the rows come back by id.                                               *)
Bm25(ranking, limit) ==
  NewestFirst({r \in live \cap ToSet(Index(ranking, req.project, limit)) : Wanted(r)})

(* search_dense, which knows no filter. *)
Dense(ranking, limit) == Sift(Index(ranking, req.project, limit), live)

\* Mutant: a row is fetched by its id alone.
FetchAny(ids) == Read(ids)

(* read::get, skipping what is not there. *)
Fetch(ids) == Read(Sift(ids, live))

Begin(q) ==
  /\ pc = "idle" /\ pc' = q.kind /\ req' = q
  /\ gone' = Rows \ live
  /\ away' = {r \in Rows : state[r] \in Withdrawn}
  /\ UNCHANGED <<live, state, lanes, hits, more, writes>>

(* The first lane; in bm25 mode the only one. *)
Search ==
  /\ pc \in {"search", "context"}
  /\ \E ranking \in Rankings :
       IF req.hybrid
       THEN lanes' = <<Read(Bm25(ranking, Depth))>> /\ pc' = "facts" /\ UNCHANGED hits
       ELSE hits' = Read(Bm25(ranking, req.limit)) /\ pc' = "rerank" /\ UNCHANGED lanes
  /\ UNCHANGED <<req, more, table>>

(* fact_parent_ids: ids only, of rows that may be deleted or of any type. *)
Facts ==
  /\ pc = "facts"
  /\ \E ranking \in Rankings :
       LET parents == Index(ranking, req.project, Depth)
       IN lanes' = Append(lanes, [i \in DOMAIN parents |-> [id |-> parents[i], state |-> Unset]])
  /\ pc' = "dense"
  /\ UNCHANGED <<req, hits, more, table>>

(* No embedder, or an error, is an empty lane. *)
DenseLane ==
  /\ pc = "dense"
  /\ \E ranking \in Rankings : lanes' = Append(lanes, Read(Dense(ranking, Depth)))
  /\ pc' = "fuse"
  /\ UNCHANGED <<req, hits, more, table>>

Ids(list) == [i \in DOMAIN list |-> list[i].id]

(* What hybrid_search keeps of the dense lane. *)
DenseHits == Sift(lanes[3], {o \in ToSet(lanes[3]) : Wanted(o.id)})

(* The lanes in the order bm25, dense, facts. *)
Lists == <<Ids(lanes[1]), Ids(DenseHits), Ids(lanes[2])>>

(* apply_time_decay depends on the clock: any order. *)
Orders(list) ==
  IF req.decay THEN {s \in [DOMAIN list -> ToSet(list)] : IsInjective(s)} ELSE {list}

(* hybrid_search from fusion on: rows in hand as they were read, the       *)
(* others fetched now, whatever their type.  With nothing beside bm25,     *)
(* before the type is looked at, its order stands.                         *)
FuseLanes ==
  /\ pc = "fuse"
  /\ LET fused == Fuse(Lists, K, Depth)
         inHand == ToSet(lanes[1]) \cup ToSet(DenseHits)
         Held(r) == \E o \in inHand : o.id = r
         kept == Sift(fused, {r \in ToSet(fused) : Held(r) \/ Fetch(<<r>>) # <<>>})
         Row(r) == IF Held(r) THEN CHOOSE o \in inHand : o.id = r ELSE Fetch(<<r>>)[1]
     IN IF lanes[2] = <<>> /\ lanes[3] = <<>>
        THEN \E order \in Orders(Take(lanes[1], req.limit)) : hits' = order
        ELSE \E order \in Orders([i \in DOMAIN kept |-> Row(kept[i])]) :
               hits' = Take(order, req.limit)
  /\ pc' = "rerank"
  /\ UNCHANGED <<req, lanes, more, table>>

(* Five seconds may pass here. *)
RerankHits ==
  /\ pc = "rerank"
  /\ hits' = IF req.rerank THEN Rerank(hits, Text) ELSE hits
  /\ pc' = IF req.kind = "search" THEN "pack" ELSE "expand"
  /\ UNCHANGED <<req, lanes, more, table>>

(* recent_active, or search_by_anchor with a free order. *)
Recent ==
  /\ pc = "recent"
  /\ hits' = Read(Take(NewestFirst(Here), req.limit))
  /\ pc' = "expand"
  /\ UNCHANGED <<req, lanes, more, table>>

ByAnchor ==
  /\ pc = "anchor"
  /\ \E ranking \in Rankings :
       hits' = Read(Take(Sift(ranking, Here), req.limit))
  /\ pc' = "expand"
  /\ UNCHANGED <<req, lanes, more, table>>

(* neighbors_in_session: rows with close ids in the session, if the seed   *)
(* is still there.                                                         *)
Neighbors(seed, window) ==
  IF seed \notin Here THEN <<>>
  ELSE Ascending({r \in Here : /\ r <= seed + window /\ seed <= r + window
                               /\ Attr[r].session = Attr[seed].session})

(* expand_evidence_window: each hit with its neighbors after it, every row *)
(* once, up to the limit.                                                  *)
Batch(h, window) == <<h>> \o Read(Sift(Neighbors(h.id, window), Rows \ {h.id}))

Expanded(window) ==
  LET Placed(i) == LET batch == Batch(hits[i], window)
                   IN {<<i, j, batch[j]>> : j \in DOMAIN batch}
      places == UNION {Placed(i) : i \in DOMAIN hits}
      Precedes(p, q) == p[1] < q[1] \/ (p[1] = q[1] /\ p[2] < q[2])
  IN Keyed({q \in places : \A p \in places : Precedes(p, q) => p[3].id # q[3].id})

Expand ==
  /\ pc = "expand"
  /\ hits' = Take(IF req.window = 0 THEN hits ELSE Expanded(req.window), req.limit)
  /\ pc' = "pack"
  /\ UNCHANGED <<req, lanes, more, table>>

(* context_allows *)
Allows(h) == req.stale \/ h.state \notin Withdrawn

\* Mutant: what the window brought in is not filtered.
PackUnfiltered ==
  /\ pc = "pack"
  /\ hits' = Pack(MaxPerType(hits, Type, req.perType), Tokens, req.budget)
  /\ pc' = IF req.kind = "context" /\ req.share > 0 THEN "graph" ELSE "done"
  /\ UNCHANGED <<req, lanes, more, table>>

(* The end of search_observations, and finalize_context_hits up to the     *)
(* graph: quota, withdrawal (context only), budget.                        *)
PackHits ==
  /\ pc = "pack"
  /\ LET quota == MaxPerType(hits, Type, req.perType)
         shown == IF req.kind = "search" THEN quota
                  ELSE Sift(quota, {h \in ToSet(quota) : Allows(h)})
     IN hits' = Pack(shown, Tokens, req.budget)
  /\ pc' = IF req.kind = "context" /\ req.share > 0 THEN "graph" ELSE "done"
  /\ UNCHANGED <<req, lanes, more, table>>

(* graph_expansion: rows near the entities of the query, greedily within   *)
(* its share of the budget, then by score.  Rows that are hits already are *)
(* not left out.                                                           *)
GraphRows ==
  LET walks == [s \in req.seeds |-> Walk(s, Hops, Edges, Degree, DegreeCap)]
      near == UNION {{w[1] : w \in walks[s]} : s \in req.seeds} \cup req.seeds
      cand == Sift(Mentioning(near, Mentions), {r \in Here : Allows([state |-> state[r]])})
      taken == Greedy(cand, Tokens, req.share)
  IN Keyed({<<-GraphScore(cand[i], req.seeds, walks, Hops, Mentions), i, cand[i]>> : i \in taken})

Graph ==
  /\ pc = "graph"
  /\ more' = Read(GraphRows)
  /\ pc' = "done"
  /\ UNCHANGED <<req, lanes, hits, table>>

RetrievalNext ==
  \/ \E q \in Requests : Begin(q)
  \/ Search \/ Facts \/ DenseLane \/ FuseLanes \/ RerankHits
  \/ Recent \/ ByAnchor \/ Expand \/ PackHits \/ Graph
  \/ \E r \in Rows : SoftDelete(r) \/ \E s \in States : SetState(r, s)

RetrievalSpec == ReadsInit /\ [][RetrievalNext]_readsVars

-----------------------------------------------------------------------------
(* A row that was deleted before the request came in is never served,      *)
(* whichever lane, neighbor or entity leads to it; only the global mirror, *)
(* which hears of no deletion, is excepted.                                *)
DeletedStayHidden ==
  pc = "done" /\ req.kind \notin {"mirror", "global"} =>
    (IdsOf(hits) \cup IdsOf(more)) \cap gone = {}

(* A briefing shows no observation that was withdrawn all the while.       *)
WithdrawnStayAway ==
  pc = "done" /\ req.kind \in Briefings /\ ~req.stale =>
    (IdsOf(hits) \cup IdsOf(more)) \cap away = {}

(* However rows come and go between the steps, no hit is served twice, the *)
(* limit, the quota and both budgets hold, and fusion respects its lanes.  *)
WithinBounds ==
  /\ pc = "done" =>
       /\ Cardinality(IdsOf(hits)) = Len(hits) /\ Len(hits) <= req.limit
       /\ req.budget > 0 => TokensOf(hits, Tokens) <= req.budget
       /\ TokensOf(more, Tokens) <= req.share
       /\ req.perType > 0 => \A t \in {Type[r] : r \in Rows} :
            Cardinality({i \in DOMAIN hits : Type[hits[i].id] = t}) <= req.perType
  /\ pc = "fuse" => RespectsLanes(Fuse(Lists, K, Depth), Lists)
=============================================================================
