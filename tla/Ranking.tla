------------------------------- MODULE Ranking -------------------------------
(***************************************************************************)
(* The pure part of retrieval: reciprocal rank fusion (rrf.rs,             *)
(* facts_fuse.rs), the rerank stage as the daemon calls it (rerank.rs),    *)
(* the round robin over types and the token budget (token_budget.rs), the  *)
(* evidence window and the graph walk (graph.rs, graph_rank.rs).           *)
(*                                                                         *)
(* A ranked list is a sequence, best first; hits are records with an id.   *)
(***************************************************************************)
EXTENDS Integers, Sequences, FiniteSets, SequencesExt, Lists

Position(x, list) == CHOOSE i \in DOMAIN list : list[i] = x
Take(list, n) == SubSeq(list, 1, IF Len(list) < n THEN Len(list) ELSE n)
IdsOf(hits) == {hits[i].id : i \in DOMAIN hits}

-----------------------------------------------------------------------------
(* Fusion.  A score is a sum of 1/(k + rank), here over the common         *)
(* denominator of all ranks up to depth.                                   *)

Denominator(k, depth) == ProductSet({k + r : r \in 1..depth})

Score(x, lists, k, depth) ==
  FoldFunction(+, 0, [l \in DOMAIN lists |->
    IF Contains(lists[l], x) THEN Denominator(k, depth) \div (k + Position(x, lists[l])) ELSE 0])

(* rrf_fuse_scored: by descending score, ties by first appearance. *)
Fuse(lists, k, depth) ==
  LET all == FlattenSeq(lists)
  IN Keyed({<<-Score(x, lists, k, depth), Position(x, all), x>> :
              x \in UNION {ToSet(lists[l]) : l \in DOMAIN lists}})

(* What fusion promises: a row that no lane misses and every lane puts     *)
(* before another one stays before it.                                     *)
RespectsLanes(fused, lists) ==
  \A a, b \in ToSet(fused) :
    /\ \E l \in DOMAIN lists : Contains(lists[l], a)
    /\ \A l \in DOMAIN lists : Contains(lists[l], b) =>
         Contains(lists[l], a) /\ Position(a, lists[l]) < Position(b, lists[l])
    => a = b \/ Position(a, fused) < Position(b, fused)

(* The reranker is asked for as many candidates as there are, and then     *)
(* returns them as they are without asking a model.  The service matches   *)
(* its texts back to the hits by their first occurrence and appends the    *)
(* rest: a later hit with the text of an earlier one goes to the end.      *)
Rerank(hits, text) ==
  LET First(i) == \A j \in 1..(i - 1) : text[hits[j].id] # text[hits[i].id]
  IN Keyed({<<IF First(i) THEN 0 ELSE 1, i, hits[i]>> : i \in DOMAIN hits})

(* apply_max_per_type: round robin over the types in order of appearance,  *)
(* at most max of each; 0 is no limit.                                     *)
MaxPerType(hits, type, max) ==
  LET TypeOf(i) == type[hits[i].id]
      Occurrence(i) == Cardinality({j \in 1..i : TypeOf(j) = TypeOf(i)})
      FirstOf(i) == Min({j \in DOMAIN hits : TypeOf(j) = TypeOf(i)})
      within == {i \in DOMAIN hits : Occurrence(i) <= max}
  IN IF max = 0 THEN hits ELSE Keyed({<<Occurrence(i), FirstOf(i), hits[i]>> : i \in within})

TokensOf(hits, tokens) == FoldFunction(+, 0, [i \in DOMAIN hits |-> tokens[hits[i].id]])

\* The places up to which the hits fit in the budget.
Fitting(hits, tokens, budget) ==
  {n \in DOMAIN hits : TokensOf(SubSeq(hits, 1, n), tokens) <= budget}

\* Mutant: the hit that exceeds the budget is kept.
PackOneMore(hits, tokens, budget) ==
  IF budget = 0 THEN hits ELSE Take(hits, Cardinality(Fitting(hits, tokens, budget)) + 1)

(* pack_by_token_budget: stops at the first hit that does not fit; 0 is no *)
(* limit.                                                                  *)
Pack(hits, tokens, budget) ==
  IF budget = 0 THEN hits ELSE Take(hits, Cardinality(Fitting(hits, tokens, budget)))

(* The places of the rows that fit in share when one is taken after the    *)
(* other, and those that do not fit are passed over.                       *)
Greedy(ids, tokens, share) ==
  LET used[n \in 0..Len(ids)] ==
        IF n = 0 THEN 0
        ELSE LET more == used[n - 1] + tokens[ids[n]]
             IN IF more > share THEN used[n - 1] ELSE more
  IN {n \in DOMAIN ids : used[n - 1] + tokens[ids[n]] <= share}

-----------------------------------------------------------------------------
(* neighbors: <<entity, hop>> within hops edges of the seed, not through   *)
(* entities with more mentions than the cap.  An entity may appear at      *)
(* several hops.                                                           *)
Walk(seed, hops, edges, degree, cap) ==
  LET step[h \in 0..hops] ==
        IF h = 0 THEN {<<seed, 0>>}
        ELSE step[h - 1] \cup {<<e[2], h>> : e \in {f \in edges :
               <<f[1], h - 1>> \in step[h - 1] /\ degree[f[2]] <= cap}}
  IN IF hops = 0 THEN {} ELSE step[hops]

(* observations_for_entities: rows by number of mentioned entities. *)
Mentioning(entities, mentions) ==
  LET named == {m \in mentions : m[2] \in entities}
      Refs(o) == Cardinality({m \in named : m[1] = o})
  IN Keyed({<<-Refs(m[1]), m[1], m[1]>> : m \in named})

(* graph_score: 2^-hop for every mentioned entity of the walks, and once   *)
(* more for the seeds, scaled by 2^hops.                                   *)
GraphScore(o, seeds, walks, hops, mentions) ==
  FoldFunction(+, 0, [s \in seeds |->
    MapThenSumSet(LAMBDA w : IF <<o, w[1]>> \in mentions THEN 2 ^ (hops - w[2]) ELSE 0, walks[s])
    + (IF <<o, s>> \in mentions THEN 2 ^ hops ELSE 0)])
=============================================================================
