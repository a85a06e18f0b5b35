------------------------------- MODULE Resolve -------------------------------
(***************************************************************************)
(* Pairs of observations that conflict, and the judges that settle them:   *)
(* the thread of resolve_worker.rs, fed by a bounded queue, and the Decide *)
(* RPC (decide.rs), which judges open pairs itself.  A judge reads both    *)
(* rows, asks a model for as long as it takes, and then sends its verdict  *)
(* to the write thread as two or three separate requests: users, and the   *)
(* other judge, come in between.                                           *)
(*                                                                         *)
(* A row is [live, there, scope, seed]: there until it is hard-deleted,    *)
(* seed # 0 for a row with the topic resolution/<seed>, the synthesis of a *)
(* pair that was judged with seed as its newer row.  Titles and contents   *)
(* are left out: which row of its scope a save conflicts with is free.     *)
(* Users give no row of theirs a topic of that form.                       *)
(***************************************************************************)
EXTENDS Naturals, Sequences, FiniteSets, FiniteSetsExt

CONSTANTS
  Workers,    \* threads of the resolve pool
  Deciders,   \* Decide requests
  Capacity,   \* QUEUE_CAPACITY
  MaxRows, MaxSaves, MaxDecides, MaxAgain, MaxEdits, MaxDeletes   \* bounds on what users do

ASSUME ResolveAssumption == Capacity \in Nat /\ MaxRows \in Nat

Judges == Workers \cup Deciders

VARIABLES
  rows,       \* the observations, in the order of their ids
  conflicts,  \* relations conflicts_with, <<newer, older>>
  resolved,   \* relations resolved_by
  saved,      \* saves that are answered but have not queued their conflicts
  queue,      \* jobs <<old, new>> of the pool
  judge,      \* what each judge is doing
  decides, again, edits, deletes,   \* counters
  edited,     \* rows whose scope or topic a user has changed
  kept,       \* <<a, b>>: a judge deleted a to keep b
  contested   \* pairs two judges were asking about at once

vars == <<rows, conflicts, resolved, saved, queue, judge, decides, again, edits, deletes, edited,
          kept, contested>>
edit == <<edits, edited>>

Ids == 1..MaxRows
Scopes == {"project", "personal"}
Live(i) == i \in DOMAIN rows /\ rows[i].live
There(i) == i \in DOMAIN rows /\ rows[i].there

Idle == [pc |-> "idle", old |-> 0, new |-> 0, plan |-> << >>, made |-> 0,
         scope |-> "project"]

Init ==
  /\ rows = << >> /\ conflicts = {} /\ resolved = {} /\ saved = {} /\ queue = << >>
  /\ judge = [j \in Judges |-> Idle] /\ decides = 0 /\ again = 0 /\ edits = 0 /\ deletes = 0
  /\ edited = {} /\ kept = {} /\ contested = {}

-----------------------------------------------------------------------------
(* Users. *)

(* save_observation inserts a row; the conflict judge of the write thread  *)
(* may find that it conflicts with one live row of its kind and scope.     *)
Save(partner, scope) ==
  /\ Len(rows) < MaxRows /\ Cardinality({i \in DOMAIN rows : rows[i].seed = 0}) < MaxSaves
  /\ partner = 0 \/ (Live(partner) /\ rows[partner].scope = scope)
  /\ LET n == Len(rows) + 1
     IN /\ rows' = Append(rows, [live |-> TRUE, there |-> TRUE, scope |-> scope, seed |-> 0])
        /\ conflicts' = IF partner = 0 THEN conflicts ELSE conflicts \cup {<<n, partner>>}
        /\ saved' = saved \cup {n}
  /\ UNCHANGED <<resolved, queue, judge, decides, again, deletes, kept, contested, edit>>

(* A save folded into a live row by its topic queues that row's pairs again. *)
SaveAgain(n) ==
  /\ Live(n) /\ n \notin saved /\ \E c \in conflicts : n \in {c[1], c[2]}
  /\ again < MaxAgain /\ again' = again + 1
  /\ saved' = saved \cup {n}
  /\ UNCHANGED <<rows, conflicts, resolved, queue, judge, decides, deletes, kept, contested, edit>>

(* The other row of each conflicts_with relation of n, as the older one.   *)
Partners(n) == {i \in Ids : <<n, i>> \in conflicts \/ <<i, n>> \in conflicts}

(* save_observation after its reply: try_queue drops a job when the queue  *)
(* is full.  The relations come in any order.                              *)
QueueConflicts(n) ==
  /\ n \in saved
  /\ saved' = saved \ {n}
  /\ \E s \in [1..Cardinality(Partners(n)) -> Partners(n)] :
       /\ \A i \in Partners(n) : \E k \in DOMAIN s : s[k] = i
       /\ LET jobs == [k \in DOMAIN s |-> <<s[k], n>>]
              room == Min({Capacity - Len(queue), Len(jobs)})
          IN queue' = queue \o SubSeq(jobs, 1, room)
  /\ UNCHANGED <<rows, conflicts, resolved, judge, decides, again, deletes, kept, contested, edit>>

(* The client leaves before: nothing queues the pairs. *)
Leave(n) ==
  /\ n \in saved
  /\ saved' = saved \ {n}
  /\ UNCHANGED <<rows, conflicts, resolved, queue, judge, decides, again, deletes, kept, contested, edit>>

(* update_observation may give a live row another scope and another topic. *)
Edit(i) ==
  /\ Live(i) /\ edits < MaxEdits /\ edits' = edits + 1
  /\ \E scope \in Scopes, seed \in {rows[i].seed, 0} :
       /\ <<scope, seed>> # <<rows[i].scope, rows[i].seed>>
       /\ rows' = [rows EXCEPT ![i].scope = scope, ![i].seed = seed]
  /\ edited' = edited \cup {i}
  /\ UNCHANGED <<conflicts, resolved, saved, queue, judge, decides, again, deletes, kept, contested>>

SoftDelete(i) ==
  /\ Live(i) /\ deletes < MaxDeletes /\ deletes' = deletes + 1
  /\ rows' = [rows EXCEPT ![i].live = FALSE]
  /\ UNCHANGED <<conflicts, resolved, saved, queue, judge, decides, again, kept, contested, edit>>

(* The relations go with the row. *)
HardDelete(i) ==
  /\ There(i) /\ deletes < MaxDeletes /\ deletes' = deletes + 1
  /\ rows' = [rows EXCEPT ![i].live = FALSE, ![i].there = FALSE]
  /\ conflicts' = {c \in conflicts : i \notin {c[1], c[2]}}
  /\ resolved' = {r \in resolved : i \notin {r[1], r[2]}}
  /\ UNCHANGED <<saved, queue, judge, decides, again, kept, contested, edit>>

-----------------------------------------------------------------------------
(* Judges. *)

(* Another judge is between its reads and its last request about the pair. *)
Contesting(j, a, b) ==
  \E k \in Judges \ {j} : judge[k].pc # "idle" /\ {judge[k].old, judge[k].new} = {a, b}

\* Mutant: a row that is deleted is judged as well.
ReadPairAlways(j, old, new) ==
  /\ judge' = [judge EXCEPT ![j] = [Idle EXCEPT !.pc = "ask", !.old = old, !.new = new,
                                                   !.scope = rows[new].scope]]
  /\ contested' = IF Contesting(j, old, new) THEN contested \cup {{old, new}} ELSE contested

(* resolve_pair reads both rows; the job fails if one of them is gone. *)
ReadPair(j, old, new) ==
  IF Live(old) /\ Live(new)
  THEN /\ judge' = [judge EXCEPT ![j] = [Idle EXCEPT !.pc = "ask", !.old = old, !.new = new,
                                                   !.scope = rows[new].scope]]
       /\ contested' = IF Contesting(j, old, new) THEN contested \cup {{old, new}} ELSE contested
  ELSE UNCHANGED <<judge, contested>>

(* run_loop takes the next job. *)
Take(w) ==
  /\ judge[w].pc = "idle" /\ queue # << >>
  /\ queue' = Tail(queue)
  /\ ReadPair(w, Head(queue)[1], Head(queue)[2])
  /\ UNCHANGED <<rows, conflicts, resolved, saved, decides, again, deletes, kept, edit>>

(* pair_resolved: some resolved_by relation of either row, not of the pair. *)
PairResolved(a, b) == \E r \in resolved : {a, b} \cap {r[1], r[2]} # {}

(* Decide judges the open pairs of its hits; the smaller id is the old row. *)
Decide(d) ==
  /\ judge[d].pc = "idle" /\ decides < MaxDecides
  /\ decides' = decides + 1
  /\ \E c \in conflicts : ~PairResolved(c[1], c[2]) /\ ReadPair(d, Min({c[1], c[2]}), Max({c[1], c[2]}))
  /\ UNCHANGED <<rows, conflicts, resolved, saved, queue, again, deletes, kept, edit>>

Delete(a, b) == [op |-> "delete", row |-> a, keep |-> b]
Relate(a, b) == [op |-> "relate", row |-> a, keep |-> b]
Made == 0   \* stands for the row of a synthesis, known when it was saved

\* Mutant: the relation is added before the row is deleted.
PlanRelatesFirst(action, old, new) ==
  CASE action = "keep_both"  -> << >>
    [] action = "keep_new"   -> <<Relate(old, new), Delete(old, new)>>
    [] action = "keep_old"   -> <<Relate(new, old), Delete(new, old)>>
    [] action = "synthesize" -> <<[op |-> "save", row |-> new, keep |-> old],
                                  Relate(old, Made), Relate(new, Made)>>

(* apply_verdict: the requests of a verdict, in their order. *)
Plan(action, old, new) ==
  CASE action = "keep_both"  -> << >>
    [] action = "keep_new"   -> <<Delete(old, new), Relate(old, new)>>
    [] action = "keep_old"   -> <<Delete(new, old), Relate(new, old)>>
    [] action = "synthesize" -> <<[op |-> "save", row |-> new, keep |-> old],
                                  Relate(old, Made), Relate(new, Made)>>

(* The model answers with a verdict that can be parsed. *)
Answer(j, action) ==
  /\ judge[j].pc = "ask"
  /\ LET plan == Plan(action, judge[j].old, judge[j].new)
     IN judge' = [judge EXCEPT ![j] = IF plan = << >> THEN Idle
                                      ELSE [@ EXCEPT !.pc = "apply", !.plan = plan]]
  /\ UNCHANGED <<rows, conflicts, resolved, saved, queue, decides, again, deletes, kept, contested, edit>>

(* It fails, says something else, or takes longer than the timeout. *)
AskFails(j) ==
  /\ judge[j].pc = "ask"
  /\ judge' = [judge EXCEPT ![j] = Idle]
  /\ UNCHANGED <<rows, conflicts, resolved, saved, queue, decides, again, deletes, kept, contested, edit>>

Done(j) ==
  IF Len(judge[j].plan) = 1 THEN Idle ELSE [judge[j] EXCEPT !.plan = Tail(@)]

(* The request fails, or the write thread is gone: the rest of the verdict *)
(* is forgotten.                                                           *)
GiveUp(j) ==
  /\ judge' = [judge EXCEPT ![j] = Idle]
  /\ UNCHANGED <<rows, resolved, kept>>

(* soft_delete: NotFound for a row that is not live. *)
DeleteRow(j, step) ==
  /\ step.op = "delete"
  /\ IF Live(step.row)
     THEN /\ rows' = [rows EXCEPT ![step.row].live = FALSE]
          /\ kept' = kept \cup {<<step.row, step.keep>>}
          /\ judge' = [judge EXCEPT ![j] = Done(j)]
          /\ UNCHANGED resolved
     ELSE GiveUp(j)

(* add_resolved_by: the foreign keys want both rows. *)
AddResolvedBy(j, step) ==
  /\ step.op = "relate"
  /\ LET to == IF step.keep = Made THEN judge[j].made ELSE step.keep
     IN IF There(step.row) /\ There(to)
        THEN /\ resolved' = resolved \cup {<<step.row, to, step.keep = Made>>}
             /\ judge' = [judge EXCEPT ![j] = Done(j)]
             /\ UNCHANGED <<rows, kept>>
        ELSE GiveUp(j)

\* Mutant: the synthesis is saved without a topic.
SaveResolutionWithoutTopic(j, step) ==
  /\ step.op = "save" /\ Len(rows) < MaxRows
  /\ rows' = Append(rows, [live |-> TRUE, there |-> TRUE, scope |-> judge[j].scope, seed |-> step.row])
  /\ judge' = [judge EXCEPT ![j] = [Done(j) EXCEPT !.made = Len(rows) + 1]]
  /\ UNCHANGED <<resolved, kept>>

(* save_resolution: the topic resolution/<new> and the scope the newer row *)
(* was read with find the live synthesis of an earlier verdict; a new row  *)
(* may supersede a resolution of its scope that is like it.                *)
SaveResolution(j, step) ==
  /\ step.op = "save"
  /\ LET old == {i \in DOMAIN rows : /\ rows[i].live /\ rows[i].seed = step.row
                                     /\ rows[i].scope = judge[j].scope}
     IN IF old # {}
        THEN /\ \E i \in old : judge' = [judge EXCEPT ![j] = [Done(j) EXCEPT !.made = i]]
             /\ UNCHANGED rows
        ELSE /\ Len(rows) < MaxRows
             /\ \E hide \in {0} \cup {i \in DOMAIN rows : /\ rows[i].live /\ rows[i].seed # 0
                                                        /\ rows[i].scope = judge[j].scope} :
                  rows' = Append(IF hide = 0 THEN rows ELSE [rows EXCEPT ![hide].live = FALSE],
                                 [live |-> TRUE, there |-> TRUE, scope |-> judge[j].scope, seed |-> step.row])
             /\ judge' = [judge EXCEPT ![j] = [Done(j) EXCEPT !.made = Len(rows) + 1]]
  /\ UNCHANGED <<resolved, kept>>

ApplyStep(j) ==
  /\ judge[j].pc = "apply"
  /\ LET step == Head(judge[j].plan)
     IN DeleteRow(j, step) \/ AddResolvedBy(j, step) \/ SaveResolution(j, step)
  /\ UNCHANGED <<conflicts, saved, queue, decides, again, deletes, contested, edit>>

(* A request is lost with its write thread. *)
RequestFails(j) ==
  /\ judge[j].pc = "apply"
  /\ GiveUp(j)
  /\ UNCHANGED <<conflicts, saved, queue, decides, again, deletes, contested, edit>>

-----------------------------------------------------------------------------
UserNext ==
  \/ \E i \in Ids \cup {0}, scope \in Scopes : Save(i, scope)
  \/ \E i \in Ids : SaveAgain(i) \/ QueueConflicts(i) \/ Leave(i) \/ Edit(i) \/ SoftDelete(i) \/ HardDelete(i)

JudgeNext(j) ==
  \/ \E a \in {"keep_new", "keep_old", "keep_both", "synthesize"} : Answer(j, a)
  \/ AskFails(j) \/ ApplyStep(j) \/ RequestFails(j)

Next ==
  \/ UserNext
  \/ \E w \in Workers : Take(w)
  \/ \E d \in Deciders : Decide(d)
  \/ \E j \in Judges : JudgeNext(j)

Spec == Init /\ [][Next]_vars

-----------------------------------------------------------------------------
(* Relations join rows that exist, jobs name rows, the queue keeps its bound. *)
TypeOK ==
  /\ Len(rows) <= MaxRows
  /\ \A i \in DOMAIN rows :
       rows[i] \in [live : BOOLEAN, there : BOOLEAN, scope : Scopes, seed : 0..MaxRows] /\ (rows[i].live => rows[i].there)
  /\ \A c \in conflicts : There(c[1]) /\ There(c[2])
  /\ \A r \in resolved : There(r[1]) /\ There(r[2])
  /\ saved \subseteq Ids
  /\ Len(queue) <= Capacity /\ \A k \in DOMAIN queue : queue[k] \in Ids \X Ids
  /\ \A j \in Judges : judge[j].pc \in {"idle", "ask", "apply"} /\ (judge[j].pc = "apply" => judge[j].plan # << >>)

(* A row that is said to be resolved by the other row of its pair has been *)
(* withdrawn, whatever step of the verdict failed: Decide takes such a     *)
(* pair for settled and never looks at it again.                           *)
SettledIsHidden ==
  \A r \in resolved : ~r[3] => ~rows[r[1]].live

(* However often, by whom and at what time verdicts synthesize pairs with  *)
(* one newer row, one live resolution of that row comes of it, unless a    *)
(* user gave the row or a resolution of it another scope or topic: then    *)
(* the next verdict does not find the earlier resolution.  A pair that is  *)
(* judged once in each order (its older row saved again) has two newer     *)
(* rows, and may have two live resolutions: that is a finding.             *)
OneResolution ==
  \A i, k \in DOMAIN rows :
    /\ rows[i].live /\ rows[k].live /\ i # k
    /\ rows[i].seed # 0 /\ rows[i].seed = rows[k].seed
    => {i, k, rows[i].seed} \cap edited # {}

(* Only judges that asked about one pair at the same time can each delete  *)
(* the row the other one keeps; a pair judged again later is left alone.   *)
BothLostOnlyIfContested ==
  \A k \in kept : <<k[2], k[1]>> \in kept => {k[1], k[2]} \in contested
=============================================================================
