---------------------------- MODULE MCMemArchive ----------------------------
(* Two projects: one with rows, a fact, a relation and a small graph, the  *)
(* other with a row and an entity of the same names under other ids.       *)
EXTENDS MemArchive

MCProjects == {"p", "q"}
MCSyncIds == {"a", "b"}
MCSessions == {"s", "t"}
MCTexts == {"x", "y"}
MCNames == {"m", "n"}

MCNormalized == [s \in RawSeeds \cup {None} |-> IF s = "short" THEN TooShort ELSE s]

Full ==
  [tables |->
    [sessions |-> {"s"}, prompts |-> {},
     rows |-> [i \in {1, 3} |-> [sync |-> IF i = 1 THEN "a" ELSE "b", session |-> "s",
                                 text |-> "x", live |-> TRUE]],
     facts |-> <<[row |-> 3, text |-> "x"]>>, relations |-> {<<1, 3>>},
     names |-> <<"m", "n">>, mentions |-> {<<1, 3>>, <<2, 1>>},
     edges |-> [e \in {<<1, 2>>} |-> [weight |-> 1, row |-> 3]]],
   next |-> 4]

Other ==
  [tables |->
    [sessions |-> {"t"}, prompts |-> {},
     rows |-> [i \in {1} |-> [sync |-> "b", session |-> "t", text |-> "y", live |-> FALSE]],
     facts |-> <<[row |-> 1, text |-> "y"]>>, relations |-> {},
     names |-> <<"n">>, mentions |-> {<<1, 1>>}, edges |-> << >>],
   next |-> 2]

MCStart == {[p \in Projects |-> IF p = "p" THEN Full ELSE Other]}
=============================================================================
