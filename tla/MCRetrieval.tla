----------------------------- MODULE MCRetrieval -----------------------------
(* Three rows of one project, two of them of one text, session and type,   *)
(* two of one second, and a row of another project; the requests switch on *)
(* one stage at a time and all at once.                                    *)
EXTENDS AllReads

Note == [project |-> "pa", type |-> "note", session |-> "s", time |-> 1, text |-> "x", tokens |-> 1]
MCAttr ==
  <<Note, [Note EXCEPT !.type = "bug", !.time = 2, !.text = "y", !.tokens = 2],
    [Note EXCEPT !.time = 2], [Note EXCEPT !.project = "pb"]>>
MCProjects == <<"pa", "pb">>
MCMentions == {<<1, "e">>, <<2, "f">>, <<3, "f">>}
MCEdges == {<<"e", "f">>, <<"f", "e">>}
MCRankings == {<<>>, <<1, 2, 4, 3>>, <<4, 3, 1>>, <<2>>}

Plain == [kind |-> "search", project |-> "pa", hybrid |-> TRUE, type |-> Unset, limit |-> 2, decay |-> FALSE,
          rerank |-> FALSE, window |-> 0, perType |-> 0, stale |-> FALSE, budget |-> 0, share |-> 0, seeds |-> {}]
MCRequests ==
  {Plain, [Plain EXCEPT !.hybrid = FALSE, !.type = "note", !.budget = 1],
   [Plain EXCEPT !.limit = 3, !.decay = TRUE, !.rerank = TRUE, !.perType = 1, !.budget = 2],
   [Plain EXCEPT !.kind = "recent", !.window = 1, !.budget = 3],
   [Plain EXCEPT !.kind = "anchor", !.window = 1, !.stale = TRUE],
   [Plain EXCEPT !.kind = "context", !.window = 1, !.budget = 3, !.share = 1, !.seeds = {"e"}],
   [Plain EXCEPT !.kind = "context", !.rerank = TRUE, !.budget = 6, !.share = 3, !.seeds = {"e", "f"}],
   [Plain EXCEPT !.kind = "global", !.limit = 3],
   [Plain EXCEPT !.kind = "fanout", !.limit = 3],
   [Plain EXCEPT !.kind = "timeline", !.window = 2, !.limit = 5]}
=============================================================================
