------------------------------ MODULE AllReads ------------------------------
(***************************************************************************)
(* The reads of service.rs beside those of Retrieval: the search of all    *)
(* projects, by the global mirror, by mirror and dense lanes, or by        *)
(* attached databases, and the timeline of a row.                          *)
(*                                                                         *)
(* The mirror's index is a ranking like the others, of rows of all         *)
(* projects; nothing takes deleted rows out of it.                         *)
(***************************************************************************)
EXTENDS Retrieval

CONSTANT ProjectList    \* as list_known_on_disk lists them, a sequence

ASSUME AllReadsAssumption ==
  /\ IsInjective(ProjectList)
  /\ \A r \in Rows : Attr[r].project \in ToSet(ProjectList)

\* Rows as the mirror has them: it knows nothing of verification.
Mirrored(ids) == [i \in DOMAIN ids |-> [id |-> ids[i], state |-> Unset]]

-----------------------------------------------------------------------------
(* All projects, bm25 mode: GlobalDb::search. *)
Mirror ==
  /\ pc = "mirror"
  /\ \E ranking \in Rankings : hits' = Mirrored(Take(ranking, req.limit))
  /\ pc' = "done"
  /\ UNCHANGED <<req, lanes, more, table>>

(* All projects, hybrid mode: the mirror's keys first.  Without a model,   *)
(* or when it fails, the request goes on as one of the mirror.             *)
GlobalKeys ==
  /\ pc = "global"
  /\ \/ pc' = "mirror" /\ UNCHANGED lanes
     \/ /\ \E ranking \in Rankings : lanes' = <<Mirrored(Take(ranking, Depth))>>
        /\ pc' = "globalDense"
  /\ UNCHANGED <<req, hits, more, table>>

(* search_dense_multi: one project after the other, each on a connection   *)
(* of its own; a database that fails adds nothing.  No filter applies.     *)
GlobalDense ==
  /\ pc = "globalDense"
  /\ LET project == ProjectList[Len(lanes)]
     IN \E ranking \in Rankings :
          lanes' = Append(lanes, Read(Sift(Index(ranking, project, Depth), live)))
  /\ pc' = IF Len(lanes) = Len(ProjectList) THEN "globalFuse" ELSE "globalDense"
  /\ UNCHANGED <<req, hits, more, table>>

(* The projects' dense rows form one lane, project after project, and are  *)
(* fused with the keys.  The rows of the mirror come from a second search, *)
(* after the cut: a key it no longer answers is left out.                  *)
GlobalFuse ==
  /\ pc = "globalFuse"
  /\ LET dense == FlattenSeq(Tail(lanes))
         fused == Take(Fuse(<<Ids(lanes[1]), Ids(dense)>>, K, Depth * Len(ProjectList)), req.limit)
     IN \E ranking \in Rankings :
          LET mirror == Mirrored(Take(ranking, Depth))
              Known(r, list) == \E h \in ToSet(list) : h.id = r
              kept == Sift(fused, {r \in Rows : Known(r, mirror) \/ Known(r, dense)})
          IN hits' = [i \in DOMAIN kept |->
                        CHOOSE h \in ToSet(IF Known(kept[i], mirror) THEN mirror ELSE dense) : h.id = kept[i]]
  /\ pc' = "done"
  /\ UNCHANGED <<req, lanes, more, table>>

(* search_all_projects, without a mirror: one statement over the attached  *)
(* databases.  Each index is cut to limit before deleted rows are dropped; *)
(* the order is by updated_at, hence any.                                  *)
FanOut ==
  /\ pc = "fanout"
  /\ \E ranking \in Rankings :
       LET found == {r \in live : \E i \in DOMAIN ProjectList : Contains(Index(ranking, ProjectList[i], req.limit), r)}
       IN \E order \in {s \in [1..Cardinality(found) -> found] : IsInjective(s)} :
            hits' = Read(Take(order, req.limit))
  /\ pc' = "done"
  /\ UNCHANGED <<req, lanes, more, table>>

-----------------------------------------------------------------------------
(* timeline: the anchor, then the rows before it, then those after it, by  *)
(* created_at and id.                                                      *)

\* Mutant: rows of the same second are neither before nor after.
EarlierByTime(a, b) == Attr[a].time < Attr[b].time

Earlier(a, b) ==
  \/ Attr[a].time < Attr[b].time
  \/ Attr[a].time = Attr[b].time /\ a < b

Timeline ==
  /\ pc = "timeline"
  /\ \E anchor \in OfProject(req.project) :
       /\ hits' = Fetch(<<anchor>>)
       /\ pc' = IF anchor \in live THEN "before" ELSE "done"
  /\ UNCHANGED <<req, lanes, more, table>>

TimelineBefore ==
  /\ pc = "before"
  /\ LET older == {r \in Here : Earlier(r, hits[1].id)}
         latest == Listed(older, {e \in older \X older : Earlier(e[2], e[1])})
     IN lanes' = <<Read(Take(latest, req.window))>>
  /\ pc' = "after"
  /\ UNCHANGED <<req, hits, more, table>>

(* The answer, oldest row first. *)
TimelineAfter ==
  /\ pc = "after"
  /\ LET newer == {r \in Here : Earlier(hits[1].id, r)}
         first == Listed(newer, {e \in newer \X newer : Earlier(e[1], e[2])})
     IN hits' = Reverse(lanes[1]) \o hits \o Read(Take(first, req.window))
  /\ pc' = "done"
  /\ UNCHANGED <<req, lanes, more, table>>

ReadsNext ==
  \/ RetrievalNext
  \/ Mirror \/ GlobalKeys \/ GlobalDense \/ GlobalFuse \/ FanOut
  \/ Timeline \/ TimelineBefore \/ TimelineAfter

ReadsSpec == ReadsInit /\ [][ReadsNext]_readsVars

-----------------------------------------------------------------------------
(* "chronological neighbors of one observation" (read.rs), whose comment   *)
(* has only the rows of an earlier or a later second; the code orders the  *)
(* rows of one second by id.  So a timeline skips no row that was there    *)
(* all the while: whatever lies in that order between two rows it shows is *)
(* shown too, although its parts are read one after the other.             *)
TimelineHasNoGaps ==
  LET Precedes(a, b) ==
        \/ Attr[a].time < Attr[b].time
        \/ Attr[a].time = Attr[b].time /\ a < b
  IN pc = "done" /\ req.kind = "timeline" =>
       \A i, j \in DOMAIN hits, r \in Here :
         Precedes(hits[i].id, r) /\ Precedes(r, hits[j].id) => r \in IdsOf(hits)
=============================================================================
