---------------------------- MODULE ResolveProofs ----------------------------
(***************************************************************************)
(* What judges leave behind, for any number of workers and Decide requests, *)
(* rows and users, and any capacity of the queue: a row is withdrawn before   *)
(* it is said to be resolved, a newer row has one synthesis, and two judges that    *)
(* each delete the other's choice asked about the pair at the same time.       *)
(***************************************************************************)
EXTENDS Resolve, SequenceTheorems, FiniteSetTheorems, TLAPS

RowSet == [live : BOOLEAN, there : BOOLEAN, scope : Scopes, seed : 0..MaxRows]

RowsOK ==
  /\ rows \in Seq(RowSet) /\ Len(rows) <= MaxRows
  /\ \A i \in DOMAIN rows : rows[i].live => rows[i].there

RelationsOK ==
  /\ \A c \in conflicts : There(c[1]) /\ There(c[2]) /\ c[1] # c[2]
  /\ \A r \in resolved : There(r[1]) /\ There(r[2])
  /\ saved \subseteq Ids

QueueOK ==
  /\ queue \in Seq(Ids \X Ids) /\ Len(queue) <= Capacity
  /\ \A k \in 1..Len(queue) : queue[k][1] # queue[k][2]

\* What is left of a verdict: a row is said to be resolved once it is withdrawn, and by a
\* synthesis once it is there.
PlanOK(x) ==
  \/ \E a, b \in DOMAIN rows :
       /\ {a, b} = {x.old, x.new}
       /\ \/ x.plan = <<Delete(a, b), Relate(a, b)>>
          \/ x.plan = <<Relate(a, b)>> /\ ~rows[a].live
  \/ x.plan = <<[op |-> "save", row |-> x.new, keep |-> x.old], Relate(x.old, Made), Relate(x.new, Made)>>
  \/ x.plan = <<Relate(x.old, Made), Relate(x.new, Made)>> /\ x.made \in DOMAIN rows
  \/ x.plan = <<Relate(x.new, Made)>> /\ x.made \in DOMAIN rows

Fields == {"pc", "old", "new", "plan", "made", "scope"}

JudgeOK(x) ==
  /\ DOMAIN x = Fields /\ x.pc \in {"idle", "ask", "apply"} /\ x.scope \in Scopes
  /\ x.pc # "idle" => x.old \in DOMAIN rows /\ x.new \in DOMAIN rows /\ x.old # x.new
  /\ x.pc = "apply" => PlanOK(x)

JudgesOK == DOMAIN judge = Judges /\ \A j \in Judges : JudgeOK(judge[j])

KeptOK == \A k \in kept : k[1] \in DOMAIN rows /\ ~rows[k[1]].live

Pair(x) == {x.old, x.new}

\* A judge that may still delete a row of its pair.
Deciding(x) == x.pc = "ask" \/ (x.pc = "apply" /\ Head(x.plan).op = "delete")

\* Two judges with one pair contest it; so does a judge that was asking when another one
\* deleted a row of the pair.
ContestOK ==
  /\ \A j, k \in Judges :
       j # k /\ judge[j].pc # "idle" /\ judge[k].pc # "idle" /\ Pair(judge[j]) = Pair(judge[k])
         => Pair(judge[j]) \in contested
  /\ \A j \in Judges : \A k \in kept :
       Deciding(judge[j]) /\ Pair(judge[j]) = {k[1], k[2]} => Pair(judge[j]) \in contested
  /\ BothLostOnlyIfContested

\* A synthesis, and a judge at work, have the scope of their newer row, if users leave the
\* scopes alone.
ScopesOK ==
  /\ \A i \in DOMAIN rows :
       rows[i].seed # 0 /\ {i, rows[i].seed} \cap edited = {} =>
         rows[i].seed \in DOMAIN rows /\ rows[i].scope = rows[rows[i].seed].scope
  /\ \A j \in Judges :
       judge[j].pc # "idle" /\ judge[j].new \notin edited => judge[j].scope = rows[judge[j].new].scope

ResolveInv ==
  /\ RowsOK /\ RelationsOK /\ QueueOK /\ JudgesOK /\ KeptOK /\ ScopesOK
  /\ SettledIsHidden /\ OneResolution /\ ContestOK

-----------------------------------------------------------------------------
(* Rows stay in their places, and a withdrawn row never comes back. *)

Grown ==
  /\ RowsOK /\ RowsOK' /\ Len(rows) \in Nat /\ Len(rows') \in Nat
  /\ DOMAIN rows = 1..Len(rows) /\ DOMAIN rows' = 1..Len(rows') /\ Len(rows) <= Len(rows')
  /\ edited \subseteq edited'
  /\ \A i \in DOMAIN rows :
       /\ rows'[i].live => rows[i].live
       /\ rows'[i].seed \in {rows[i].seed, 0}
       /\ i \notin edited' => rows'[i].seed = rows[i].seed /\ rows'[i].scope = rows[i].scope

LEMMA AppendRow ==
  ASSUME RowsOK, edited' = edited, NEW c \in Scopes, NEW old \in Seq(RowSet), Len(old) = Len(rows),
         \A i \in 1..Len(rows) : /\ old[i].seed = rows[i].seed /\ (old[i].live => rows[i].live)
                                 /\ old[i].scope = rows[i].scope
                                 /\ old[i].there = rows[i].there,
         Len(rows) < MaxRows, NEW s \in 0..MaxRows,
         rows' = Append(old, [live |-> TRUE, there |-> TRUE, scope |-> c, seed |-> s])
  PROVE  /\ Grown /\ Len(rows') = Len(rows) + 1
         /\ \A i \in 1..Len(rows) : rows'[i] = old[i]
         /\ rows'[Len(rows) + 1] = [live |-> TRUE, there |-> TRUE, scope |-> c, seed |-> s]
<1> DEFINE n == [live |-> TRUE, there |-> TRUE, scope |-> c, seed |-> s]
<1>1. n \in RowSet /\ n.there
  BY DEF RowSet
<1>2. rows \in Seq(RowSet) /\ Len(rows) \in Nat /\ DOMAIN rows = 1..Len(rows)
  BY LenProperties DEF RowsOK
<1> HIDE DEF n
<1>3. /\ rows' \in Seq(RowSet) /\ Len(rows') = Len(rows) + 1
      /\ \A i \in 1..Len(rows) : rows'[i] = old[i]
      /\ rows'[Len(rows) + 1] = n
  BY <1>1, AppendProperties DEF n
<1>4. DOMAIN rows' = 1..(Len(rows) + 1)
  BY <1>3, LenProperties
<1>5. \A i \in DOMAIN rows' : i \in 1..Len(rows) \/ i = Len(rows) + 1
  BY <1>2, <1>4
<1>6. \A i \in DOMAIN rows' : rows'[i].live => rows'[i].there
  BY <1>1, <1>2, <1>3, <1>5 DEF RowsOK
<1>7. Len(rows) + 1 <= MaxRows
  BY <1>2, ResolveAssumption
<1> QED BY <1>2, <1>3, <1>4, <1>6, <1>7 DEF Grown, RowsOK, n

\* One row is withdrawn, or removed.
LEMMA HideRow ==
  ASSUME RowsOK, NEW i \in DOMAIN rows, NEW next,
         \/ next = [rows EXCEPT ![i].live = FALSE]
         \/ next = [rows EXCEPT ![i].live = FALSE, ![i].there = FALSE]
  PROVE  /\ next \in Seq(RowSet) /\ Len(next) = Len(rows)
         /\ next[i].live = FALSE /\ next[i].seed = rows[i].seed /\ next[i].scope = rows[i].scope
         /\ next = [rows EXCEPT ![i].live = FALSE] => next[i].there = rows[i].there
         /\ \A k \in DOMAIN rows : k # i => next[k] = rows[k]
<1>1. rows \in Seq(RowSet) /\ rows[i] \in RowSet
  BY ElementOfSeq, LenProperties DEF RowsOK
<1>2. CASE next = [rows EXCEPT ![i].live = FALSE]
  <2>1. PICK r : r = [rows[i] EXCEPT !.live = FALSE]
    OBVIOUS
  <2>2. r \in RowSet /\ r.live = FALSE /\ r.there = rows[i].there /\ r.seed = rows[i].seed
      /\ r.scope = rows[i].scope
    BY <1>1, <2>1 DEF RowSet
  <2>3. next = [rows EXCEPT ![i] = r]
    BY <1>2, <2>1
  <2>4. /\ next \in Seq(RowSet) /\ Len(next) = Len(rows) /\ next[i] = r
        /\ \A k \in DOMAIN rows : k # i => next[k] = rows[k]
    BY <1>1, <2>2, <2>3, ExceptSeq
  <2> QED BY <2>2, <2>4
<1>3. CASE next = [rows EXCEPT ![i].live = FALSE, ![i].there = FALSE]
  <2>1. PICK r : r = [rows[i] EXCEPT !.live = FALSE, !.there = FALSE]
    OBVIOUS
  <2>2. r \in RowSet /\ r.live = FALSE /\ r.there = FALSE /\ r.seed = rows[i].seed
      /\ r.scope = rows[i].scope
    BY <1>1, <2>1 DEF RowSet
  <2>3. next = [rows EXCEPT ![i] = r]
    BY <1>3, <2>1
  <2>4. /\ next \in Seq(RowSet) /\ Len(next) = Len(rows) /\ next[i] = r
        /\ \A k \in DOMAIN rows : k # i => next[k] = rows[k]
    BY <1>1, <2>2, <2>3, ExceptSeq
  <2>5. next = [rows EXCEPT ![i].live = FALSE] => next[i].there = rows[i].there
    BY <1>1 DEF RowSet
  <2> QED BY <2>2, <2>4, <2>5
<1> QED BY <1>2, <1>3

\* What every step may assume of the rows after it.
LEMMA HideGrows ==
  ASSUME RowsOK, NEW i \in DOMAIN rows, edited' = edited,
         \/ rows' = [rows EXCEPT ![i].live = FALSE]
         \/ rows' = [rows EXCEPT ![i].live = FALSE, ![i].there = FALSE]
  PROVE  Grown /\ Len(rows') = Len(rows)
<1>1. /\ rows' \in Seq(RowSet) /\ Len(rows') = Len(rows)
      /\ rows'[i].live = FALSE /\ rows'[i].seed = rows[i].seed /\ rows'[i].scope = rows[i].scope
      /\ \A k \in DOMAIN rows : k # i => rows'[k] = rows[k]
  BY HideRow
<1>2. DOMAIN rows' = DOMAIN rows /\ DOMAIN rows = 1..Len(rows) /\ Len(rows) \in Nat
  BY <1>1, LenProperties DEF RowsOK
<1> QED BY <1>1, <1>2 DEF Grown, RowsOK

\* update_observation by a user.
LEMMA EditRow ==
  ASSUME RowsOK, NEW i \in Ids, Edit(i)
  PROVE  /\ Grown /\ Len(rows') = Len(rows)
         /\ edited' = edited \cup {i} /\ \A k \in DOMAIN rows : k # i => rows'[k] = rows[k]
         /\ \A k \in DOMAIN rows : rows'[k].there = rows[k].there
<1>1. i \in DOMAIN rows /\ edited' = edited \cup {i}
  BY DEF Edit, Live
<1>2. rows \in Seq(RowSet) /\ rows[i] \in RowSet /\ DOMAIN rows = 1..Len(rows) /\ Len(rows) \in Nat
  BY <1>1, ElementOfSeq, LenProperties DEF RowsOK
<1>3. PICK c \in Scopes, d \in {rows[i].seed, 0} :
        rows' = [rows EXCEPT ![i].scope = c, ![i].seed = d]
  BY DEF Edit
<1>4. PICK r : r = [rows[i] EXCEPT !.scope = c, !.seed = d]
  OBVIOUS
<1>5. /\ r \in RowSet /\ r.live = rows[i].live /\ r.there = rows[i].there
      /\ r.seed \in {rows[i].seed, 0}
  <2>1. 0 \in 0..MaxRows
    BY ResolveAssumption
  <2>2. c \in Scopes /\ d \in 0..MaxRows
    BY <1>2, <1>3, <2>1 DEF RowSet
  <2> QED BY <1>2, <1>3, <1>4, <2>2 DEF RowSet
<1>6. rows' = [rows EXCEPT ![i] = r]
  BY <1>3, <1>4
<1>7. /\ rows' \in Seq(RowSet) /\ Len(rows') = Len(rows) /\ rows'[i] = r
      /\ \A k \in DOMAIN rows : k # i => rows'[k] = rows[k]
  BY <1>1, <1>2, <1>5, <1>6, ExceptSeq
<1>8. DOMAIN rows' = DOMAIN rows
  BY <1>2, <1>7, LenProperties
<1>9. RowsOK'
  BY <1>1, <1>5, <1>7, <1>8 DEF RowsOK
<1> QED BY <1>1, <1>2, <1>5, <1>7, <1>8, <1>9 DEF Grown

\* The first request of a verdict.
LEMMA FirstRequest ==
  ASSUME RowsOK, NEW x, JudgeOK(x), x.pc = "apply", NEW step, step = Head(x.plan)
  PROVE  /\ x.plan # << >>
         /\ step.op = "delete" =>
              /\ step.row \in DOMAIN rows /\ step.keep \in DOMAIN rows /\ step.row # step.keep
              /\ {step.row, step.keep} = Pair(x) /\ Len(x.plan) = 2
              /\ Tail(x.plan) = <<Relate(step.row, step.keep)>>
         /\ step.op = "relate" =>
              /\ step.row \in Pair(x)
              /\ step.keep # Made => ~rows[step.row].live /\ step.keep \in Pair(x) /\ Len(x.plan) = 1
              /\ step.keep = Made => x.made \in DOMAIN rows
              /\ Len(x.plan) # 1 => Len(x.plan) = 2 /\ Tail(x.plan) = <<Relate(x.new, Made)>>
                                    /\ x.made \in DOMAIN rows
         /\ step.op = "save" =>
              /\ step.row = x.new /\ Len(x.plan) = 3
              /\ Tail(x.plan) = <<Relate(x.old, Made), Relate(x.new, Made)>>
         /\ step.op \in {"delete", "relate", "save"}
<1>1. 0 \notin DOMAIN rows /\ x.old # x.new /\ Pair(x) \subseteq DOMAIN rows
  BY LenProperties DEF RowsOK, JudgeOK, Pair
<1>2. CASE \E a, b \in DOMAIN rows : {a, b} = {x.old, x.new} /\ x.plan = <<Delete(a, b), Relate(a, b)>>
  <2>1. PICK a, b \in DOMAIN rows :
          {a, b} = {x.old, x.new} /\ x.plan = <<Delete(a, b), Relate(a, b)>>
    BY <1>2
  <2>2. step = Delete(a, b) /\ Len(x.plan) = 2 /\ Tail(x.plan) = <<Relate(a, b)>>
    BY <2>1
  <2> QED BY <1>1, <2>1, <2>2 DEF Delete, Pair
<1>3. CASE \E a, b \in DOMAIN rows :
             {a, b} = {x.old, x.new} /\ x.plan = <<Relate(a, b)>> /\ ~rows[a].live
  <2>1. PICK a, b \in DOMAIN rows :
          {a, b} = {x.old, x.new} /\ x.plan = <<Relate(a, b)>> /\ ~rows[a].live
    BY <1>3
  <2>2. step = Relate(a, b) /\ Len(x.plan) = 1
    BY <2>1
  <2> QED BY <1>1, <2>1, <2>2 DEF Relate, Made, Pair
<1>4. CASE x.plan = <<[op |-> "save", row |-> x.new, keep |-> x.old], Relate(x.old, Made),
                      Relate(x.new, Made)>>
  <2>1. /\ step.op = "save" /\ step.row = x.new /\ Len(x.plan) = 3
        /\ Tail(x.plan) = <<Relate(x.old, Made), Relate(x.new, Made)>>
    BY <1>4
  <2> QED BY <1>4, <2>1
<1>5. CASE x.plan = <<Relate(x.old, Made), Relate(x.new, Made)>> /\ x.made \in DOMAIN rows
  <2>1. step = Relate(x.old, Made) /\ Len(x.plan) = 2 /\ Tail(x.plan) = <<Relate(x.new, Made)>>
    BY <1>5
  <2> QED BY <1>5, <2>1 DEF Relate, Pair
<1>6. CASE x.plan = <<Relate(x.new, Made)>> /\ x.made \in DOMAIN rows
  <2>1. step = Relate(x.new, Made) /\ Len(x.plan) = 1
    BY <1>6
  <2> QED BY <1>6, <2>1 DEF Relate, Pair
<1> QED BY <1>2, <1>3, <1>4, <1>5, <1>6 DEF JudgeOK, PlanOK

\* A synthesis that is stored: a new row, and perhaps an older one withdrawn.
LEMMA SynthesisRow ==
  ASSUME ResolveInv, NEW j \in Judges, judge[j].pc = "apply", NEW step, step = Head(judge[j].plan),
         SaveResolution(j, step), rows' # rows, edited' = edited
  PROVE  /\ Grown /\ Len(rows') = Len(rows) + 1
         /\ rows'[Len(rows) + 1] = [live |-> TRUE, there |-> TRUE, scope |-> judge[j].scope, seed |-> judge[j].new]
         /\ judge' = [judge EXCEPT ![j] = [Done(j) EXCEPT !.made = Len(rows) + 1]]
         /\ \A i \in DOMAIN rows :
              ~(rows[i].live /\ rows[i].seed = judge[j].new /\ rows[i].scope = judge[j].scope)
         /\ judge[j].new \in DOMAIN rows /\ edited' = edited
         /\ \A i \in DOMAIN rows : rows'[i].there = rows[i].there
<1>1. RowsOK /\ JudgeOK(judge[j]) /\ DOMAIN rows = 1..Len(rows) /\ Len(rows) \in Nat
  BY LenProperties DEF ResolveInv, JudgesOK, RowsOK
<1>2. step.op = "save"
  BY DEF SaveResolution
<1>3. /\ step.row = judge[j].new /\ judge[j].new \in 0..MaxRows /\ judge[j].new \in DOMAIN rows
      /\ judge[j].scope \in Scopes
  <2>1. judge[j].new \in 1..Len(rows) /\ Len(rows) <= MaxRows /\ judge[j].scope \in Scopes
    BY <1>1 DEF JudgeOK, RowsOK
  <2>2. step.row = judge[j].new
    BY <1>1, <1>2, FirstRequest
  <2> QED BY <1>1, <2>1, <2>2, ResolveAssumption
<1>4. /\ Len(rows) < MaxRows
      /\ \A i \in DOMAIN rows :
           ~(rows[i].live /\ rows[i].seed = judge[j].new /\ rows[i].scope = judge[j].scope)
      /\ judge' = [judge EXCEPT ![j] = [Done(j) EXCEPT !.made = Len(rows) + 1]]
      /\ \E hide \in {0} \cup DOMAIN rows :
           rows' = Append(IF hide = 0 THEN rows ELSE [rows EXCEPT ![hide].live = FALSE],
                          [live |-> TRUE, there |-> TRUE, scope |-> judge[j].scope, seed |-> judge[j].new])
  BY <1>3 DEF SaveResolution
<1>5. PICK hide \in {0} \cup DOMAIN rows :
        rows' = Append(IF hide = 0 THEN rows ELSE [rows EXCEPT ![hide].live = FALSE],
                       [live |-> TRUE, there |-> TRUE, scope |-> judge[j].scope, seed |-> judge[j].new])
  BY <1>4
<1>6. PICK old : old = IF hide = 0 THEN rows ELSE [rows EXCEPT ![hide].live = FALSE]
  OBVIOUS
<1>7. /\ old \in Seq(RowSet) /\ Len(old) = Len(rows)
      /\ \A i \in 1..Len(rows) : /\ old[i].seed = rows[i].seed /\ (old[i].live => rows[i].live)
                                 /\ old[i].scope = rows[i].scope
                                 /\ old[i].there = rows[i].there
  <2>1. CASE hide = 0
    BY <1>1, <1>6, <2>1 DEF RowsOK
  <2>2. CASE hide # 0
    <3>1. hide \in DOMAIN rows /\ old = [rows EXCEPT ![hide].live = FALSE]
      BY <1>5, <1>6, <2>2
    <3>2. /\ old \in Seq(RowSet) /\ Len(old) = Len(rows)
          /\ old[hide].live = FALSE /\ old[hide].seed = rows[hide].seed
          /\ old[hide].scope = rows[hide].scope
          /\ old[hide].there = rows[hide].there
          /\ \A k \in DOMAIN rows : k # hide => old[k] = rows[k]
      BY <1>1, <3>1, HideRow
    <3> QED BY <1>1, <3>2
  <2> QED BY <2>1, <2>2
<1>8. rows' = Append(old, [live |-> TRUE, there |-> TRUE, scope |-> judge[j].scope, seed |-> judge[j].new])
  BY <1>5, <1>6
<1>9. PICK s \in 0..MaxRows, c \in Scopes : s = judge[j].new /\ c = judge[j].scope
  BY <1>3
<1>10. /\ Grown /\ Len(rows') = Len(rows) + 1
       /\ \A i \in 1..Len(rows) : rows'[i] = old[i]
       /\ rows'[Len(rows) + 1] = [live |-> TRUE, there |-> TRUE, scope |-> c, seed |-> s]
  BY <1>1, <1>4, <1>7, <1>8, <1>9, AppendRow
<1> QED BY <1>1, <1>3, <1>4, <1>7, <1>9, <1>10

LEMMA RowsStep == ASSUME ResolveInv, [Next]_vars PROVE Grown
<1>1. RowsOK /\ rows \in Seq(RowSet) /\ DOMAIN rows = 1..Len(rows) /\ Len(rows) \in Nat
  BY LenProperties DEF ResolveInv, RowsOK
<1>2. CASE rows' = rows /\ edited' = edited
  BY <1>1, <1>2 DEF Grown, RowsOK
<1>3. CASE \E i \in Ids \cup {0}, c \in Scopes : Save(i, c)
  <2>1. PICK c \in Scopes : /\ Len(rows) < MaxRows /\ edited' = edited
                            /\ rows' = Append(rows, [live |-> TRUE, there |-> TRUE, scope |-> c, seed |-> 0])
    BY <1>3 DEF Save, edit
  <2>2. 0 \in 0..MaxRows
    BY ResolveAssumption
  <2> QED BY <1>1, <2>1, <2>2, AppendRow
<1>4. CASE \E i \in Ids : SoftDelete(i) \/ HardDelete(i)
  <2>1. PICK i \in DOMAIN rows : \/ rows' = [rows EXCEPT ![i].live = FALSE]
                                 \/ rows' = [rows EXCEPT ![i].live = FALSE, ![i].there = FALSE]
    BY <1>4 DEF SoftDelete, HardDelete, Live, There
  <2>2. edited' = edited
    BY <1>4 DEF SoftDelete, HardDelete, edit
  <2> QED BY <1>1, <2>1, <2>2, HideGrows
<1>8. CASE \E i \in Ids : Edit(i)
  BY <1>1, <1>8, EditRow
<1>5. CASE \E j \in Judges : ApplyStep(j)
  <2>1. PICK j \in Judges : ApplyStep(j)
    BY <1>5
  <2>2. PICK step : step = Head(judge[j].plan)
    OBVIOUS
  <2>6. edited' = edited
    BY <2>1 DEF ApplyStep, edit
  <2>3. CASE DeleteRow(j, step)
    <3>1. \/ rows' = rows
          \/ step.row \in DOMAIN rows /\ rows' = [rows EXCEPT ![step.row].live = FALSE]
      BY <2>3 DEF DeleteRow, GiveUp, Live
    <3> QED BY <1>1, <1>2, <2>6, <3>1, HideGrows
  <2>4. CASE AddResolvedBy(j, step)
    BY <1>2, <2>4, <2>6 DEF AddResolvedBy, GiveUp
  <2>5. CASE SaveResolution(j, step)
    BY <1>2, <2>1, <2>2, <2>5, <2>6, SynthesisRow DEF ApplyStep
  <2> QED BY <2>1, <2>2, <2>3, <2>4, <2>5 DEF ApplyStep
<1>6. CASE \/ \E i \in Ids : SaveAgain(i) \/ QueueConflicts(i) \/ Leave(i)
           \/ \E w \in Workers : Take(w)
           \/ \E d \in Deciders : Decide(d)
           \/ \E j \in Judges : \/ \E a \in {"keep_new", "keep_old", "keep_both", "synthesize"} : Answer(j, a)
                                \/ AskFails(j) \/ RequestFails(j)
           \/ UNCHANGED vars
  <2>1. rows' = rows /\ edited' = edited
    BY <1>6 DEF SaveAgain, QueueConflicts, Leave, Take, Decide, Answer, AskFails, RequestFails, GiveUp,
                vars, edit
  <2> QED BY <1>2, <2>1
<1> QED BY <1>3, <1>4, <1>5, <1>6, <1>8 DEF Next, UserNext, JudgeNext

\* Only a hard delete takes a row away.
LEMMA ThereStays ==
  ASSUME ResolveInv, [Next]_vars, Grown, NEW i, There(i), \A k \in Ids : ~HardDelete(k)
  PROVE  There(i)'
<1>1. RowsOK /\ rows \in Seq(RowSet) /\ DOMAIN rows = 1..Len(rows) /\ Len(rows) \in Nat /\ i \in DOMAIN rows
  BY LenProperties DEF ResolveInv, RowsOK, There
<1>2. CASE rows' = rows
  BY <1>2 DEF There
<1>3. CASE \E p \in Ids \cup {0}, c \in Scopes : Save(p, c)
  <2>1. PICK c \in Scopes : /\ Len(rows) < MaxRows /\ edited' = edited
                            /\ rows' = Append(rows, [live |-> TRUE, there |-> TRUE, scope |-> c, seed |-> 0])
    BY <1>3 DEF Save, edit
  <2>2. 0 \in 0..MaxRows
    BY ResolveAssumption
  <2>3. rows'[i] = rows[i]
    BY <1>1, <2>1, <2>2, AppendRow
  <2> QED BY <1>1, <2>3 DEF Grown, There
<1>4. ASSUME NEW k \in DOMAIN rows, rows' = [rows EXCEPT ![k].live = FALSE] PROVE There(i)'
  <2>1. rows'[i].there = rows[i].there
    BY <1>1, <1>4, HideRow
  <2> QED BY <1>1, <2>1 DEF Grown, There
<1>5. CASE \E k \in Ids : SoftDelete(k)
  BY <1>4, <1>5 DEF SoftDelete, Live
<1>8. CASE \E k \in Ids : Edit(k)
  <2>1. rows'[i].there = rows[i].there
    BY <1>1, <1>8, EditRow
  <2> QED BY <1>1, <2>1 DEF Grown, There
<1>6. CASE \E j \in Judges : ApplyStep(j)
  <2>1. PICK j \in Judges : ApplyStep(j)
    BY <1>6
  <2>2. PICK step : step = Head(judge[j].plan)
    OBVIOUS
  <2>3. CASE DeleteRow(j, step)
    <3>1. \/ rows' = rows
          \/ step.row \in DOMAIN rows /\ rows' = [rows EXCEPT ![step.row].live = FALSE]
      BY <2>3 DEF DeleteRow, GiveUp, Live
    <3> QED BY <1>2, <1>4, <3>1
  <2>4. CASE AddResolvedBy(j, step)
    BY <1>2, <2>4 DEF AddResolvedBy, GiveUp
  <2>5. CASE SaveResolution(j, step) /\ rows' # rows
    <3>1. rows'[i].there = rows[i].there
      BY <1>1, <2>1, <2>2, <2>5, SynthesisRow DEF ApplyStep, edit
    <3> QED BY <1>1, <3>1 DEF Grown, There
  <2> QED BY <1>2, <2>1, <2>2, <2>3, <2>4, <2>5 DEF ApplyStep
<1>7. CASE \/ \E k \in Ids : SaveAgain(k) \/ QueueConflicts(k) \/ Leave(k)
           \/ \E w \in Workers : Take(w)
           \/ \E d \in Deciders : Decide(d)
           \/ \E j \in Judges : \/ \E a \in {"keep_new", "keep_old", "keep_both", "synthesize"} : Answer(j, a)
                                \/ AskFails(j) \/ RequestFails(j)
           \/ UNCHANGED vars
  <2>1. rows' = rows
    BY <1>7 DEF SaveAgain, QueueConflicts, Leave, Take, Decide, Answer, AskFails, RequestFails, GiveUp,
                vars
  <2> QED BY <1>2, <2>1
<1> QED BY <1>3, <1>5, <1>6, <1>7, <1>8 DEF Next, UserNext, JudgeNext

-----------------------------------------------------------------------------
(* Relations. *)

\* A relation that is new joins two rows, and its row is withdrawn unless a synthesis
\* resolves it.
LEMMA NewRelations ==
  ASSUME ResolveInv, [Next]_vars, NEW r \in resolved' \ resolved
  PROVE  There(r[1]) /\ There(r[2]) /\ (~r[3] => ~rows[r[1]].live)
<1>1. PICK j \in Judges : ApplyStep(j)
  <2>1. CASE \/ \E i \in Ids \cup {0}, c \in Scopes : Save(i, c)
             \/ \E i \in Ids : SaveAgain(i) \/ QueueConflicts(i) \/ Leave(i) \/ Edit(i) \/ SoftDelete(i) \/ HardDelete(i)
             \/ \E w \in Workers : Take(w)
             \/ \E d \in Deciders : Decide(d)
             \/ \E j \in Judges : \/ \E a \in {"keep_new", "keep_old", "keep_both", "synthesize"} : Answer(j, a)
                                  \/ AskFails(j) \/ RequestFails(j)
             \/ UNCHANGED vars
    <3>1. resolved' \subseteq resolved
      BY <2>1 DEF Save, SaveAgain, QueueConflicts, Leave, Edit, SoftDelete, HardDelete, Take, Decide, Answer,
                  AskFails, RequestFails, GiveUp, vars
    <3> QED BY <3>1
  <2> QED BY <2>1 DEF Next, UserNext, JudgeNext
<1>2. PICK step : step = Head(judge[j].plan)
  OBVIOUS
<1>3. AddResolvedBy(j, step) /\ judge[j].pc = "apply"
  BY <1>1, <1>2 DEF ApplyStep, DeleteRow, SaveResolution, GiveUp
<1>4. PICK to : /\ There(step.row) /\ There(to) /\ step.op = "relate"
                /\ r = <<step.row, to, step.keep = Made>>
  BY <1>3 DEF AddResolvedBy, GiveUp
<1>5. RowsOK /\ JudgeOK(judge[j])
  BY DEF ResolveInv, JudgesOK
<1>6. step.keep # Made => ~rows[step.row].live
  BY <1>2, <1>3, <1>4, <1>5, FirstRequest
<1> QED BY <1>4, <1>6

LEMMA RelationsStep == ASSUME ResolveInv, [Next]_vars, Grown PROVE RelationsOK' /\ SettledIsHidden'
<1> USE DEF ResolveInv, RelationsOK
<1>1. ASSUME NEW r \in resolved' PROVE There(r[1]) /\ There(r[2]) /\ (~r[3] => ~rows[r[1]].live)
  BY NewRelations DEF SettledIsHidden
<1>2. SettledIsHidden'
  BY <1>1 DEF SettledIsHidden, Grown, There
<1>3. ASSUME NEW c \in conflicts', NEW p \in Ids \cup {0}, NEW c1 \in Scopes, Save(p, c1)
      PROVE  There(c[1])' /\ There(c[2])' /\ c[1] # c[2]
  <2>1. CASE c \in conflicts
    <3>1. \A k \in Ids : ~HardDelete(k)
      BY <1>3 DEF Save, HardDelete
    <3> QED BY <2>1, <3>1, ThereStays
  <2>2. CASE c \notin conflicts
    <3>1. c[1] = Len(rows) + 1 /\ c[2] = p /\ Live(p)
      BY <1>3, <2>2 DEF Save
    <3>2. There(p) /\ p \in 1..Len(rows) /\ Len(rows) \in Nat /\ rows \in Seq(RowSet)
      BY <3>1 DEF Live, There, RowsOK, Grown
    <3>3. There(p)'
      <4>1. \A k \in Ids : ~HardDelete(k)
        BY <1>3 DEF Save, HardDelete
      <4> QED BY <3>2, <4>1, ThereStays
    <3>4. There(c[1])'
      <4>1. /\ Len(rows) < MaxRows /\ edited' = edited
            /\ rows' = Append(rows, [live |-> TRUE, there |-> TRUE, scope |-> c1, seed |-> 0])
        BY <1>3 DEF Save, edit
      <4>2. 0 \in 0..MaxRows
        BY ResolveAssumption
      <4>3. /\ Len(rows') = Len(rows) + 1
            /\ rows'[Len(rows) + 1] = [live |-> TRUE, there |-> TRUE, scope |-> c1, seed |-> 0]
        BY <4>1, <4>2, <3>2, AppendRow
      <4> QED BY <3>1, <3>2, <4>3 DEF There, Grown
    <3>5. There(c[2])'
      BY <3>1, <3>3
    <3> QED BY <3>1, <3>2, <3>4, <3>5
  <2> QED BY <2>1, <2>2
<1>4. CASE \E p \in Ids \cup {0}, c \in Scopes : Save(p, c)
  <2>1. PICK p \in Ids \cup {0}, c \in Scopes : Save(p, c)
    BY <1>4
  <2>2. /\ resolved' = resolved /\ saved' = saved \cup {Len(rows) + 1} /\ Len(rows) < MaxRows
        /\ \A k \in Ids : ~HardDelete(k)
    BY <2>1 DEF Save, HardDelete
  <2>3. saved' \subseteq Ids
    <3>1. saved \subseteq Ids /\ Len(rows) \in Nat
      BY DEF Grown
    <3>2. Len(rows) + 1 \in Ids
      BY <2>2, <3>1, ResolveAssumption DEF Ids
    <3> QED BY <2>2, <3>1, <3>2
  <2>4. \A r \in resolved' : There(r[1])' /\ There(r[2])'
    BY <2>2, ThereStays
  <2> QED BY <1>2, <1>3, <2>1, <2>3, <2>4
<1>5. CASE \E i \in Ids : HardDelete(i)
  <2>1. PICK i \in Ids : HardDelete(i)
    BY <1>5
  <2>2. /\ rows' = [rows EXCEPT ![i].live = FALSE, ![i].there = FALSE] /\ i \in DOMAIN rows
        /\ conflicts' = {c \in conflicts : i \notin {c[1], c[2]}}
        /\ resolved' = {r \in resolved : i \notin {r[1], r[2]}} /\ saved' = saved
    BY <2>1 DEF HardDelete, There
  <2>3. \A k \in DOMAIN rows : k # i => rows'[k] = rows[k]
    BY <2>2, HideRow
  <2>4. \A k : There(k) /\ k # i => There(k)'
    BY <2>3 DEF There, Grown
  <2>5. \A c \in conflicts' : There(c[1])' /\ There(c[2])' /\ c[1] # c[2]
    BY <2>2, <2>4
  <2>6. \A r \in resolved' : There(r[1])' /\ There(r[2])'
    BY <2>2, <2>4
  <2> QED BY <1>2, <2>2, <2>5, <2>6
<1>6. CASE /\ \A i \in Ids : ~HardDelete(i)
           /\ conflicts' \subseteq conflicts /\ saved' \subseteq Ids
  <2>1. \A c \in conflicts' : There(c[1])' /\ There(c[2])' /\ c[1] # c[2]
    BY <1>6, ThereStays
  <2>2. \A r \in resolved' : There(r[1])' /\ There(r[2])'
    BY <1>1, <1>6, ThereStays
  <2> QED BY <1>2, <1>6, <2>1, <2>2
<1>7. CASE \/ \E i \in Ids : SaveAgain(i) \/ QueueConflicts(i) \/ Leave(i) \/ Edit(i) \/ SoftDelete(i)
           \/ \E w \in Workers : Take(w)
           \/ \E d \in Deciders : Decide(d)
           \/ \E j \in Judges : JudgeNext(j)
           \/ UNCHANGED vars
  <2>1. conflicts' = conflicts
    BY <1>7 DEF SaveAgain, QueueConflicts, Leave, Edit, SoftDelete, Take, Decide, JudgeNext, Answer,
                AskFails, ApplyStep, RequestFails, vars
  <2>2. saved' \subseteq Ids
    BY <1>7 DEF SaveAgain, QueueConflicts, Leave, Edit, SoftDelete, Take, Decide, JudgeNext, Answer,
                AskFails, ApplyStep, RequestFails, vars
  <2>3. CASE \E i \in Ids : HardDelete(i)
    BY <1>5, <2>3
  <2> QED BY <1>6, <2>1, <2>2, <2>3
<1> QED BY <1>4, <1>5, <1>7 DEF Next, UserNext

-----------------------------------------------------------------------------
(* The queue. *)

LEMMA PartnersFinite ==
  ASSUME NEW n
  PROVE  Partners(n) \subseteq Ids /\ Cardinality(Partners(n)) \in Nat
<1>1. IsFiniteSet(Ids)
  BY FS_Interval, ResolveAssumption DEF Ids
<1>2. Partners(n) \subseteq Ids
  BY DEF Partners
<1> QED BY <1>1, <1>2, FS_Subset, FS_CardinalityType

LEMMA LeastOfTwo == ASSUME NEW a \in Nat, NEW b \in Nat
                    PROVE  Min({a, b}) = (IF a <= b THEN a ELSE b) /\ Max({a, b}) = (IF a >= b THEN a ELSE b)
<1>1. Min({a, b}) = (IF a <= b THEN a ELSE b)
  <2> DEFINE m == IF a <= b THEN a ELSE b
  <2>1. m \in {a, b} /\ \A y \in {a, b} : m <= y
    OBVIOUS
  <2>2. \A x \in {a, b} : (\A y \in {a, b} : x <= y) => x = m
    OBVIOUS
  <2> HIDE DEF m
  <2>3. Min({a, b}) = m
    BY <2>1, <2>2 DEF Min
  <2> QED BY <2>3 DEF m
<1>2. Max({a, b}) = (IF a >= b THEN a ELSE b)
  <2> DEFINE m == IF a >= b THEN a ELSE b
  <2>1. m \in {a, b} /\ \A y \in {a, b} : m >= y
    OBVIOUS
  <2>2. \A x \in {a, b} : (\A y \in {a, b} : x >= y) => x = m
    OBVIOUS
  <2> HIDE DEF m
  <2>3. Max({a, b}) = m
    BY <2>1, <2>2 DEF Max
  <2> QED BY <2>3 DEF m
<1> QED BY <1>1, <1>2

\* try_queue: what does not fit is dropped, and a pair has two rows.
LEMMA QueueConflictsStep ==
  ASSUME ResolveInv, NEW n \in Ids, QueueConflicts(n)
  PROVE  QueueOK'
<1>1. QueueOK /\ RelationsOK
  BY DEF ResolveInv
<1>2. PICK s \in [1..Cardinality(Partners(n)) -> Partners(n)] :
        LET jobs == [k \in DOMAIN s |-> <<s[k], n>>]
            room == Min({Capacity - Len(queue), Len(jobs)})
        IN queue' = queue \o SubSeq(jobs, 1, room)
  BY DEF QueueConflicts
<1> DEFINE jobs == [k \in DOMAIN s |-> <<s[k], n>>]
           size == Cardinality(Partners(n))
           room == Min({Capacity - Len(queue), Len(jobs)})
<1>3. Partners(n) \subseteq Ids /\ size \in Nat
  BY PartnersFinite
<1>4. \A i \in Partners(n) : i # n
  BY <1>1 DEF Partners, RelationsOK
<1>5. jobs \in [1..size -> Ids \X Ids] /\ \A k \in 1..size : jobs[k][1] # jobs[k][2]
  BY <1>3, <1>4
<1> HIDE DEF size
<1>6. jobs \in Seq(Ids \X Ids) /\ Len(jobs) = size
  <2>1. jobs \in [1..size -> Ids \X Ids]
    BY <1>5
  <2> HIDE DEF jobs
  <2> QED BY <1>3, <2>1, SeqDef, LenProperties
<1>7. queue \in Seq(Ids \X Ids) /\ Len(queue) \in Nat /\ Capacity - Len(queue) \in Nat
  BY <1>1, LenProperties, ResolveAssumption DEF QueueOK
<1> HIDE DEF jobs
<1>8. room \in Nat /\ room <= size /\ room <= Capacity - Len(queue)
  <2>1. PICK a \in Nat : a = Capacity - Len(queue)
    BY <1>7
  <2>2. PICK b \in Nat : b = size
    BY <1>3
  <2>3. room = Min({a, b})
    BY <1>6, <2>1, <2>2
  <2>4. room = IF a <= b THEN a ELSE b
    BY <2>3, LeastOfTwo
  <2> HIDE DEF room
  <2> QED BY <2>1, <2>2, <2>4
<1>9. queue' = queue \o SubSeq(jobs, 1, room)
  BY <1>2 DEF jobs
<1> HIDE DEF room
<1>10. \A k \in 1..room : jobs[k] \in Ids \X Ids
  BY <1>5, <1>8, <1>3
<1> DEFINE new == SubSeq(jobs, 1, room)
<1>11. new \in Seq(Ids \X Ids) /\ Len(new) = room /\ \A k \in 1..room : new[k] = jobs[k]
  <2>1. /\ new \in Seq(Ids \X Ids) /\ Len(new) = IF 1 <= room THEN room - 1 + 1 ELSE 0
        /\ \A k \in 1..(room - 1 + 1) : new[k] = jobs[1 + k - 1]
    BY <1>8, <1>10, SubSeqProperties
  <2> QED BY <1>8, <2>1
<1> HIDE DEF new
<1>12. /\ queue' \in Seq(Ids \X Ids) /\ Len(queue') = Len(queue) + room
       /\ \A k \in 1..(Len(queue) + room) :
            queue'[k] = IF k <= Len(queue) THEN queue[k] ELSE new[k - Len(queue)]
  BY <1>7, <1>9, <1>11, ConcatProperties DEF new
<1>13. Len(queue') <= Capacity
  BY <1>7, <1>8, <1>12, ResolveAssumption
<1>14. ASSUME NEW k \in 1..Len(queue') PROVE queue'[k][1] # queue'[k][2]
  <2>1. CASE k <= Len(queue)
    <3>1. k \in 1..Len(queue) /\ k \in 1..(Len(queue) + room)
      BY <1>7, <1>8, <1>12, <1>14, <2>1
    <3>2. queue'[k] = queue[k]
      BY <1>12, <3>1, <2>1
    <3> QED BY <1>1, <3>1, <3>2 DEF QueueOK
  <2>2. CASE ~(k <= Len(queue))
    <3>1. k - Len(queue) \in 1..room /\ queue'[k] = new[k - Len(queue)]
      BY <1>7, <1>8, <1>12, <1>14, <2>2
    <3>2. k - Len(queue) \in 1..size
      BY <1>3, <1>8, <3>1
    <3> QED BY <1>5, <1>11, <3>1, <3>2
  <2> QED BY <2>1, <2>2
<1> QED BY <1>12, <1>13, <1>14 DEF QueueOK

LEMMA QueueStep == ASSUME ResolveInv, [Next]_vars PROVE QueueOK'
<1>1. QueueOK
  BY DEF ResolveInv
<1>2. CASE \E w \in Workers : Take(w)
  <2>1. queue # << >> /\ queue' = Tail(queue) /\ queue \in Seq(Ids \X Ids) /\ Len(queue) \in Nat
    BY <1>1, <1>2, LenProperties DEF Take, QueueOK
  <2>2. Len(queue) # 0
    BY <2>1, EmptySeq
  <2>3. /\ queue' \in Seq(Ids \X Ids) /\ Len(queue') = Len(queue) - 1
        /\ \A k \in 1..Len(queue') : queue'[k] = queue[k + 1]
    BY <2>1, HeadTailProperties
  <2>4. \A k \in 1..Len(queue') : k + 1 \in 1..Len(queue)
    BY <2>1, <2>2, <2>3
  <2>5. Len(queue') <= Capacity
    BY <1>1, <2>1, <2>3, ResolveAssumption DEF QueueOK
  <2> QED BY <1>1, <2>3, <2>4, <2>5 DEF QueueOK
<1>3. CASE \E n \in Ids : QueueConflicts(n)
  BY <1>3, QueueConflictsStep
<1>4. CASE \/ \E i \in Ids \cup {0}, c \in Scopes : Save(i, c)
           \/ \E i \in Ids : SaveAgain(i) \/ Leave(i) \/ Edit(i) \/ SoftDelete(i) \/ HardDelete(i)
           \/ \E d \in Deciders : Decide(d)
           \/ \E j \in Judges : JudgeNext(j)
           \/ UNCHANGED vars
  <2>1. queue' = queue
    BY <1>4 DEF Save, SaveAgain, Leave, Edit, SoftDelete, HardDelete, Decide, JudgeNext, Answer, AskFails,
                ApplyStep, RequestFails, vars
  <2> QED BY <1>1, <2>1 DEF QueueOK
<1> QED BY <1>2, <1>3, <1>4 DEF Next, UserNext

-----------------------------------------------------------------------------
(* Rows: withdrawn ones stay withdrawn, syntheses stay unique. *)

\* A row that is added is not a synthesis, or the first of its newer row that its scope and
\* topic would find.
LEMMA NewRow ==
  ASSUME ResolveInv, [Next]_vars, Grown, Len(rows') # Len(rows)
  PROVE  /\ Len(rows') = Len(rows) + 1 /\ edited' = edited
         /\ \/ rows'[Len(rows) + 1].seed = 0
            \/ \E j \in Judges :
                 /\ judge[j].pc = "apply" /\ judge[j].new \in DOMAIN rows
                 /\ rows'[Len(rows) + 1].seed = judge[j].new
                 /\ rows'[Len(rows) + 1].scope = judge[j].scope
                 /\ \A i \in DOMAIN rows :
                      ~(rows[i].live /\ rows[i].seed = judge[j].new /\ rows[i].scope = judge[j].scope)
<1>1. RowsOK /\ rows \in Seq(RowSet) /\ DOMAIN rows = 1..Len(rows) /\ Len(rows) \in Nat
  BY LenProperties DEF ResolveInv, RowsOK
<1>2. rows' # rows
  OBVIOUS
<1>3. CASE \E p \in Ids \cup {0}, c \in Scopes : Save(p, c)
  <2>1. PICK c \in Scopes : /\ Len(rows) < MaxRows /\ edited' = edited
                            /\ rows' = Append(rows, [live |-> TRUE, there |-> TRUE, scope |-> c, seed |-> 0])
    BY <1>3 DEF Save, edit
  <2>2. 0 \in 0..MaxRows
    BY ResolveAssumption
  <2>3. /\ Len(rows') = Len(rows) + 1
        /\ rows'[Len(rows) + 1] = [live |-> TRUE, there |-> TRUE, scope |-> c, seed |-> 0]
    BY <1>1, <2>1, <2>2, AppendRow
  <2> QED BY <2>1, <2>3
<1>4. CASE \E i \in Ids : SoftDelete(i) \/ HardDelete(i)
  <2>1. PICK i \in DOMAIN rows : \/ rows' = [rows EXCEPT ![i].live = FALSE]
                                 \/ rows' = [rows EXCEPT ![i].live = FALSE, ![i].there = FALSE]
    BY <1>4 DEF SoftDelete, HardDelete, Live, There
  <2> QED BY <1>1, <2>1, HideRow
<1>5. CASE \E i \in Ids : Edit(i)
  BY <1>1, <1>5, EditRow
<1>6. CASE \E j \in Judges : ApplyStep(j)
  <2>1. PICK j \in Judges : ApplyStep(j)
    BY <1>6
  <2>2. PICK step : step = Head(judge[j].plan)
    OBVIOUS
  <2>3. CASE DeleteRow(j, step)
    <3>1. step.row \in DOMAIN rows /\ rows' = [rows EXCEPT ![step.row].live = FALSE]
      BY <1>2, <2>3 DEF DeleteRow, GiveUp, Live
    <3>2. PICK n : n = rows'
      OBVIOUS
    <3>3. Len(n) = Len(rows)
      BY <1>1, <3>1, <3>2, HideRow
    <3> QED BY <3>2, <3>3
  <2>4. CASE AddResolvedBy(j, step)
    BY <1>2, <2>4 DEF AddResolvedBy, GiveUp
  <2>5. CASE SaveResolution(j, step)
    <3>1. judge[j].pc = "apply" /\ edited' = edited
      BY <2>1 DEF ApplyStep, edit
    <3>2. /\ Len(rows') = Len(rows) + 1 /\ judge[j].new \in DOMAIN rows
          /\ rows'[Len(rows) + 1] =
               [live |-> TRUE, there |-> TRUE, scope |-> judge[j].scope, seed |-> judge[j].new]
          /\ \A i \in DOMAIN rows :
               ~(rows[i].live /\ rows[i].seed = judge[j].new /\ rows[i].scope = judge[j].scope)
      BY <1>2, <2>1, <2>2, <2>5, <3>1, SynthesisRow
    <3> QED BY <3>1, <3>2
  <2> QED BY <2>1, <2>2, <2>3, <2>4, <2>5 DEF ApplyStep
<1>7. CASE \/ \E i \in Ids : SaveAgain(i) \/ QueueConflicts(i) \/ Leave(i)
           \/ \E w \in Workers : Take(w)
           \/ \E d \in Deciders : Decide(d)
           \/ \E j \in Judges : \/ \E a \in {"keep_new", "keep_old", "keep_both", "synthesize"} : Answer(j, a)
                                \/ AskFails(j) \/ RequestFails(j)
           \/ UNCHANGED vars
  BY <1>2, <1>7 DEF SaveAgain, QueueConflicts, Leave, Take, Decide, Answer, AskFails, RequestFails,
                    GiveUp, vars
<1> QED BY <1>3, <1>4, <1>5, <1>6, <1>7 DEF Next, UserNext, JudgeNext

LEMMA SeedsStep == ASSUME ResolveInv, [Next]_vars, Grown PROVE OneResolution'
<1>1. OneResolution /\ RowsOK /\ DOMAIN rows = 1..Len(rows) /\ Len(rows) \in Nat /\ ScopesOK
  BY DEF ResolveInv, Grown
<1>2. CASE Len(rows') = Len(rows)
  BY <1>1, <1>2 DEF Grown, OneResolution
<1>3. CASE Len(rows') # Len(rows)
  <2>1. Len(rows') = Len(rows) + 1 /\ edited' = edited
    BY <1>3, NewRow
  <2>2. \A i \in DOMAIN rows' : i \in DOMAIN rows \/ i = Len(rows) + 1
    BY <1>1, <2>1 DEF Grown
  <2>3. ASSUME NEW i \in DOMAIN rows, rows'[i].live, rows'[i].seed # 0,
               rows'[i].seed = rows'[Len(rows) + 1].seed
        PROVE  {i, rows'[i].seed} \cap edited' # {}
    <3> SUFFICES ASSUME {i, rows'[i].seed} \cap edited = {} PROVE FALSE
      BY <2>1
    <3>1. PICK j \in Judges :
            /\ judge[j].pc = "apply" /\ judge[j].new \in DOMAIN rows
            /\ rows'[Len(rows) + 1].seed = judge[j].new
            /\ ~(rows[i].live /\ rows[i].seed = judge[j].new /\ rows[i].scope = judge[j].scope)
      BY <1>3, <2>3, NewRow
    <3>2. rows[i].live /\ rows[i].seed = judge[j].new
      BY <2>1, <2>3, <3>1 DEF Grown
    <3>3. rows[i].scope = rows[judge[j].new].scope /\ judge[j].scope = rows[judge[j].new].scope
      BY <1>1, <2>3, <3>1, <3>2 DEF ScopesOK
    <3> QED BY <3>1, <3>2, <3>3
  <2>4. ASSUME NEW i \in DOMAIN rows', NEW k \in DOMAIN rows', rows'[i].live, rows'[k].live, i # k,
               rows'[i].seed # 0, rows'[i].seed = rows'[k].seed
        PROVE  {i, k, rows'[i].seed} \cap edited' # {}
    <3>1. CASE i \in DOMAIN rows /\ k \in DOMAIN rows
      BY <1>1, <2>1, <2>4, <3>1 DEF Grown, OneResolution
    <3>2. CASE i = Len(rows) + 1 /\ k \in DOMAIN rows
      BY <2>3, <2>4, <3>2
    <3>3. CASE i \in DOMAIN rows /\ k = Len(rows) + 1
      BY <2>3, <2>4, <3>3
    <3> QED BY <2>2, <2>4, <3>1, <3>2, <3>3
  <2> QED BY <2>4 DEF OneResolution
<1> QED BY <1>2, <1>3

-----------------------------------------------------------------------------
(* Judges. *)

LEMMA JudgeStays == ASSUME Grown, NEW x, JudgeOK(x) PROVE JudgeOK(x)'
<1>1. DOMAIN rows \subseteq DOMAIN rows' /\ \A i \in DOMAIN rows : rows'[i].live => rows[i].live
  BY DEF Grown
<1>2. PlanOK(x) => PlanOK(x)'
  <2>1. ASSUME NEW a \in DOMAIN rows, NEW b \in DOMAIN rows, {a, b} = {x.old, x.new},
               \/ x.plan = <<Delete(a, b), Relate(a, b)>>
               \/ x.plan = <<Relate(a, b)>> /\ ~rows[a].live
        PROVE  PlanOK(x)'
    <3>1. a \in DOMAIN rows' /\ b \in DOMAIN rows' /\ (~rows[a].live => ~rows'[a].live)
      BY <1>1
    <3> QED BY <2>1, <3>1 DEF PlanOK, Delete, Relate
  <2>2. CASE \/ x.plan = <<[op |-> "save", row |-> x.new, keep |-> x.old], Relate(x.old, Made),
                           Relate(x.new, Made)>>
             \/ x.plan = <<Relate(x.old, Made), Relate(x.new, Made)>> /\ x.made \in DOMAIN rows
             \/ x.plan = <<Relate(x.new, Made)>> /\ x.made \in DOMAIN rows
    BY <1>1, <2>2 DEF PlanOK, Relate, Made
  <2> QED BY <2>1, <2>2 DEF PlanOK
<1> QED BY <1>1, <1>2 DEF JudgeOK

LEMMA IdleIsOK == JudgeOK(Idle) /\ JudgeOK(Idle)' /\ Idle.pc = "idle" /\ ~Deciding(Idle)
BY DEF JudgeOK, Idle, Fields, Deciding, Scopes

Answered(x, a) ==
  IF Plan(a, x.old, x.new) = << >> THEN Idle
  ELSE [x EXCEPT !.pc = "apply", !.plan = Plan(a, x.old, x.new)]

\* The answer to the question becomes a plan of requests.
LEMMA AnswerGives ==
  ASSUME ResolveInv, Grown, NEW x, JudgeOK(x), x.pc = "ask",
         NEW a \in {"keep_new", "keep_old", "keep_both", "synthesize"}, NEW y,
         y = Answered(x, a)
  PROVE  JudgeOK(y)' /\ (y = Idle \/ (y.old = x.old /\ y.new = x.new /\ y.scope = x.scope))
<1> USE DEF Answered
<1>1. /\ DOMAIN x = Fields /\ x.old \in DOMAIN rows' /\ x.new \in DOMAIN rows' /\ x.old # x.new
      /\ x.scope \in Scopes
  BY DEF JudgeOK, Grown
<1>2. CASE y = Idle
  BY <1>2, IdleIsOK
<1>3. ASSUME NEW p, y = [x EXCEPT !.pc = "apply", !.plan = p]
      PROVE  /\ DOMAIN y = Fields /\ y.pc = "apply" /\ y.plan = p /\ y.old = x.old /\ y.new = x.new
             /\ y.scope = x.scope
  BY <1>1, <1>3 DEF Fields
<1>4. CASE a = "keep_both"
  BY <1>2, <1>4 DEF Plan
<1>5. ASSUME NEW o, NEW n, o \in DOMAIN rows', n \in DOMAIN rows', {o, n} = {x.old, x.new},
             Plan(a, x.old, x.new) = <<Delete(o, n), Relate(o, n)>>
      PROVE  JudgeOK(y)' /\ y.old = x.old /\ y.new = x.new /\ y.scope = x.scope
  <2>1. <<Delete(o, n), Relate(o, n)>> # << >>
    OBVIOUS
  <2>2. y = [x EXCEPT !.pc = "apply", !.plan = <<Delete(o, n), Relate(o, n)>>]
    BY <1>5, <2>1
  <2>3. /\ DOMAIN y = Fields /\ y.pc = "apply" /\ y.old = x.old /\ y.new = x.new
        /\ y.scope = x.scope
        /\ y.plan = <<Delete(o, n), Relate(o, n)>>
    BY <1>3, <2>2
  <2>4. PlanOK(y)'
    BY <1>5, <2>3 DEF PlanOK, Delete, Relate
  <2> QED BY <1>1, <2>3, <2>4 DEF JudgeOK
<1>6. CASE a = "keep_new"
  <2>1. Plan(a, x.old, x.new) = <<Delete(x.old, x.new), Relate(x.old, x.new)>>
    BY <1>6 DEF Plan
  <2> QED BY <1>1, <1>5, <2>1
<1>7. CASE a = "keep_old"
  <2>1. Plan(a, x.old, x.new) = <<Delete(x.new, x.old), Relate(x.new, x.old)>>
    BY <1>7 DEF Plan
  <2> QED BY <1>1, <1>5, <2>1
<1>8. CASE a = "synthesize"
  <2>1. Plan(a, x.old, x.new) = <<[op |-> "save", row |-> x.new, keep |-> x.old],
                                  Relate(x.old, Made), Relate(x.new, Made)>>
    BY <1>8 DEF Plan
  <2>2. Plan(a, x.old, x.new) # << >>
    BY <2>1
  <2>3. /\ DOMAIN y = Fields /\ y.pc = "apply" /\ y.old = x.old /\ y.new = x.new
        /\ y.scope = x.scope
        /\ y.plan = <<[op |-> "save", row |-> x.new, keep |-> x.old], Relate(x.old, Made), Relate(x.new, Made)>>
    BY <1>3, <2>1, <2>2
  <2>4. PlanOK(y)'
    BY <2>3 DEF PlanOK, Relate, Made
  <2> QED BY <1>1, <2>3, <2>4 DEF JudgeOK
<1> QED BY <1>4, <1>6, <1>7, <1>8

LEMMA HeadOfTuple == ASSUME NEW s, NEW t PROVE Head(<<s>>) = s /\ Head(<<s, t>>) = s
OBVIOUS

\* The rest of a verdict: its next requests only relate rows.
LEMMA RestOfVerdict ==
  ASSUME Grown, NEW x, JudgeOK(x), x.pc = "apply", NEW y,
         DOMAIN y = Fields, y.pc = "apply", y.old = x.old, y.new = x.new, y.plan = Tail(x.plan),
         y.scope = x.scope,
         \/ \E a, b \in DOMAIN rows' :
              {a, b} = {x.old, x.new} /\ Tail(x.plan) = <<Relate(a, b)>> /\ ~rows'[a].live
         \/ Tail(x.plan) = <<Relate(x.old, Made), Relate(x.new, Made)>> /\ y.made \in DOMAIN rows'
         \/ Tail(x.plan) = <<Relate(x.new, Made)>> /\ y.made \in DOMAIN rows'
  PROVE  JudgeOK(y)' /\ ~Deciding(y)
<1>1. x.old \in DOMAIN rows' /\ x.new \in DOMAIN rows' /\ x.old # x.new /\ y.scope \in Scopes
  BY DEF JudgeOK, Grown
<1>2. ASSUME NEW a, NEW b PROVE Relate(a, b).op # "delete"
  BY DEF Relate
<1>3. CASE \E a, b \in DOMAIN rows' :
             {a, b} = {x.old, x.new} /\ Tail(x.plan) = <<Relate(a, b)>> /\ ~rows'[a].live
  <2>1. PICK a \in DOMAIN rows', b \in DOMAIN rows' :
          {a, b} = {x.old, x.new} /\ Tail(x.plan) = <<Relate(a, b)>> /\ ~rows'[a].live
    BY <1>3
  <2>2. {a, b} = {y.old, y.new} /\ y.plan = <<Relate(a, b)>>
    BY <2>1
  <2>3. Head(y.plan) = Relate(a, b)
    BY <2>2, HeadOfTuple
  <2>4. PlanOK(y)'
    BY <2>1, <2>2 DEF PlanOK, Relate
  <2>5. ~Deciding(y)
    BY <1>2, <2>3 DEF Deciding
  <2> QED BY <1>1, <2>4, <2>5 DEF JudgeOK
<1>4. CASE \/ Tail(x.plan) = <<Relate(x.old, Made), Relate(x.new, Made)>> /\ y.made \in DOMAIN rows'
           \/ Tail(x.plan) = <<Relate(x.new, Made)>> /\ y.made \in DOMAIN rows'
  <2>1. \/ y.plan = <<Relate(y.old, Made), Relate(y.new, Made)>> /\ y.made \in DOMAIN rows'
        \/ y.plan = <<Relate(y.new, Made)>> /\ y.made \in DOMAIN rows'
    BY <1>4
  <2>2. Head(y.plan) = Relate(y.old, Made) \/ Head(y.plan) = Relate(y.new, Made)
    BY <2>1, HeadOfTuple
  <2>3. PlanOK(y)'
    BY <2>1 DEF PlanOK, Relate, Made
  <2>4. ~Deciding(y)
    BY <1>2, <2>2 DEF Deciding
  <2> QED BY <1>1, <2>3, <2>4 DEF JudgeOK
<1> QED BY <1>3, <1>4

\* The row of a synthesis is a live one of its topic and scope, or the last row.
LEMMA SynthesisMade ==
  ASSUME ResolveInv, Grown, NEW j \in Judges, judge[j].pc = "apply", NEW step,
         step = Head(judge[j].plan), SaveResolution(j, step), edited' = edited
  PROVE  \E made \in DOMAIN rows' : judge' = [judge EXCEPT ![j] = [Done(j) EXCEPT !.made = made]]
<1>1. CASE rows' # rows
  <2>1. /\ Len(rows') = Len(rows) + 1
        /\ judge' = [judge EXCEPT ![j] = [Done(j) EXCEPT !.made = Len(rows) + 1]]
    BY <1>1, SynthesisRow
  <2>2. Len(rows) + 1 \in DOMAIN rows'
    BY <2>1 DEF Grown
  <2> QED BY <2>1, <2>2
<1>2. CASE rows' = rows
  <2>1. PICK old : old = {i \in DOMAIN rows : /\ rows[i].live /\ rows[i].seed = step.row
                                              /\ rows[i].scope = judge[j].scope}
    OBVIOUS
  <2>2. old = {} => \E hide \in {0} \cup DOMAIN rows : \E n :
                      rows' = Append(IF hide = 0 THEN rows ELSE [rows EXCEPT ![hide].live = FALSE], n)
    BY <2>1 DEF SaveResolution
  <2>3. ASSUME NEW hide \in {0} \cup DOMAIN rows, NEW n,
               rows' = Append(IF hide = 0 THEN rows ELSE [rows EXCEPT ![hide].live = FALSE], n)
        PROVE  FALSE
    <3>1. PICK before : before = IF hide = 0 THEN rows ELSE [rows EXCEPT ![hide].live = FALSE]
      OBVIOUS
    <3>2. before \in Seq(RowSet) /\ Len(before) = Len(rows)
      BY <3>1, HideRow DEF ResolveInv, RowsOK
    <3>3. Len(Append(before, n)) = Len(rows) + 1
      BY <3>2
    <3> QED BY <1>2, <2>3, <3>1, <3>3 DEF Grown
  <2>4. old # {}
    BY <2>2, <2>3
  <2>5. \E i \in old : judge' = [judge EXCEPT ![j] = [Done(j) EXCEPT !.made = i]]
    BY <2>1, <2>4 DEF SaveResolution
  <2> QED BY <1>2, <2>1, <2>5
<1> QED BY <1>1, <1>2

\* What a judge that is at work does to itself: it stops, or goes on with its pair and asks no more.
LEMMA JudgeWrites ==
  ASSUME ResolveInv, [Next]_vars, Grown, NEW j \in Judges, JudgeNext(j)
  PROVE  \E y : /\ judge' = [judge EXCEPT ![j] = y] /\ JudgeOK(y)' /\ judge[j].pc # "idle"
                /\ \/ y = Idle
                   \/ /\ y.old = judge[j].old /\ y.new = judge[j].new /\ y.scope = judge[j].scope
                      /\ Deciding(y) => judge[j].pc = "ask"
<1>1. PICK x : x = judge[j]
  OBVIOUS
<1>2. JudgeOK(x) /\ RowsOK /\ DOMAIN judge = Judges
  BY <1>1 DEF ResolveInv, JudgesOK
<1>3. CASE judge[j].pc # "idle" /\ judge' = [judge EXCEPT ![j] = Idle]
  BY <1>3, IdleIsOK
<1>4. ASSUME NEW a \in {"keep_new", "keep_old", "keep_both", "synthesize"}, Answer(j, a)
      PROVE  \E y : /\ judge' = [judge EXCEPT ![j] = y] /\ JudgeOK(y)' /\ judge[j].pc = "ask"
                    /\ (y = Idle \/ (y.old = judge[j].old /\ y.new = judge[j].new /\ y.scope = judge[j].scope))
  <2>1. PICK y : y = Answered(x, a)
    OBVIOUS
  <2>2. judge' = [judge EXCEPT ![j] = y] /\ x.pc = "ask"
    BY <1>1, <1>4, <2>1 DEF Answer, Answered
  <2>3. JudgeOK(y)' /\ (y = Idle \/ (y.old = x.old /\ y.new = x.new /\ y.scope = x.scope))
    BY <1>2, <2>1, <2>2, AnswerGives
  <2> QED BY <1>1, <2>2, <2>3
<1>5. CASE AskFails(j) \/ RequestFails(j)
  BY <1>3, <1>5 DEF AskFails, RequestFails, GiveUp
<1>6. CASE ApplyStep(j)
  <2>1. PICK step : step = Head(x.plan)
    OBVIOUS
  <2>2. x.pc = "apply" /\ (DeleteRow(j, step) \/ AddResolvedBy(j, step) \/ SaveResolution(j, step))
    BY <1>1, <1>6, <2>1 DEF ApplyStep
  <2>3. Done(j) = IF Len(x.plan) = 1 THEN Idle ELSE [x EXCEPT !.plan = Tail(@)]
    BY <1>1 DEF Done
  <2>4. CASE judge' = [judge EXCEPT ![j] = Idle]
    BY <1>1, <1>3, <2>2, <2>4
  <2>5. CASE DeleteRow(j, step) /\ Live(step.row)
    <3>1. /\ step.row \in DOMAIN rows /\ rows' = [rows EXCEPT ![step.row].live = FALSE]
          /\ judge' = [judge EXCEPT ![j] = Done(j)] /\ step.op = "delete"
      BY <2>5 DEF DeleteRow, Live
    <3>2. /\ step.keep \in DOMAIN rows /\ {step.row, step.keep} = {x.old, x.new} /\ Len(x.plan) = 2
          /\ Tail(x.plan) = <<Relate(step.row, step.keep)>>
      BY <1>2, <2>1, <2>2, <3>1, FirstRequest DEF Pair
    <3>3. rows'[step.row].live = FALSE
      BY <1>2, <3>1, HideRow
    <3>4. step.row \in DOMAIN rows' /\ step.keep \in DOMAIN rows'
      BY <3>1, <3>2 DEF Grown
    <3>5. PICK y : y = [x EXCEPT !.plan = Tail(@)]
      OBVIOUS
    <3>6. judge' = [judge EXCEPT ![j] = y]
      BY <2>3, <3>1, <3>2, <3>5
    <3>7. JudgeOK(y)' /\ y.old = x.old /\ y.new = x.new /\ y.scope = x.scope /\ ~Deciding(y)
      <4>1. /\ DOMAIN y = Fields /\ y.pc = "apply" /\ y.old = x.old /\ y.new = x.new
            /\ y.plan = Tail(x.plan) /\ y.scope = x.scope
        BY <1>2, <2>2, <3>5 DEF JudgeOK, Fields
      <4>2. \E a, b \in DOMAIN rows' :
              {a, b} = {x.old, x.new} /\ Tail(x.plan) = <<Relate(a, b)>> /\ ~rows'[a].live
        BY <3>2, <3>3, <3>4
      <4> QED BY <1>2, <2>2, <4>1, <4>2, RestOfVerdict
    <3> QED BY <1>1, <2>2, <3>6, <3>7
  <2>6. CASE AddResolvedBy(j, step) /\ judge' # [judge EXCEPT ![j] = Idle]
    <3>1. judge' = [judge EXCEPT ![j] = Done(j)] /\ step.op = "relate"
      BY <2>6 DEF AddResolvedBy, GiveUp
    <3>2. Len(x.plan) # 1
      BY <2>3, <2>6, <3>1
    <3>3. Tail(x.plan) = <<Relate(x.new, Made)>> /\ x.made \in DOMAIN rows
      BY <1>2, <2>1, <2>2, <3>1, <3>2, FirstRequest
    <3>4. PICK y : y = [x EXCEPT !.plan = Tail(@)]
      OBVIOUS
    <3>5. judge' = [judge EXCEPT ![j] = y]
      BY <2>3, <3>1, <3>2, <3>4
    <3>6. JudgeOK(y)' /\ y.old = x.old /\ y.new = x.new /\ y.scope = x.scope /\ ~Deciding(y)
      <4>1. /\ DOMAIN y = Fields /\ y.pc = "apply" /\ y.old = x.old /\ y.new = x.new
            /\ y.plan = Tail(x.plan) /\ y.scope = x.scope /\ y.made = x.made
        BY <1>2, <2>2, <3>4 DEF JudgeOK, Fields
      <4>2. y.made \in DOMAIN rows'
        BY <3>3, <4>1 DEF Grown
      <4> QED BY <1>2, <2>2, <3>3, <4>1, <4>2, RestOfVerdict
    <3> QED BY <1>1, <2>2, <3>5, <3>6
  <2>7. CASE SaveResolution(j, step)
    <3>1. /\ step.op = "save" /\ step.row = x.new /\ Len(x.plan) = 3
          /\ Tail(x.plan) = <<Relate(x.old, Made), Relate(x.new, Made)>>
      BY <1>2, <2>1, <2>2, <2>7, FirstRequest DEF SaveResolution
    <3>2. \E made \in DOMAIN rows' : judge' = [judge EXCEPT ![j] = [Done(j) EXCEPT !.made = made]]
      BY <2>1, <2>2, <2>7, <3>1, SynthesisMade, <1>1, <1>6 DEF ApplyStep, edit
    <3>3. PICK made \in DOMAIN rows' : judge' = [judge EXCEPT ![j] = [Done(j) EXCEPT !.made = made]]
      BY <3>2
    <3>4. PICK y : y = [x EXCEPT !.plan = Tail(@), !.made = made]
      OBVIOUS
    <3>5. judge' = [judge EXCEPT ![j] = y]
      <4>1. PICK d : d = Done(j)
        OBVIOUS
      <4>2. d = [x EXCEPT !.plan = Tail(x.plan)]
        <5>1. Len(x.plan) # 1
          BY <3>1
        <5> QED BY <2>3, <4>1, <5>1
      <4>3. y = [d EXCEPT !.made = made]
        BY <3>4, <4>2
      <4> QED BY <3>3, <4>1, <4>3
    <3>6. JudgeOK(y)' /\ y.old = x.old /\ y.new = x.new /\ y.scope = x.scope /\ ~Deciding(y)
      <4>1. /\ DOMAIN y = Fields /\ y.pc = "apply" /\ y.old = x.old /\ y.new = x.new
            /\ y.plan = Tail(x.plan) /\ y.scope = x.scope /\ y.made = made
        BY <1>2, <2>2, <3>4 DEF JudgeOK, Fields
      <4> QED BY <1>2, <2>2, <3>1, <4>1, RestOfVerdict
    <3> QED BY <1>1, <2>2, <3>5, <3>6
  <2> QED BY <2>2, <2>4, <2>5, <2>6, <2>7 DEF DeleteRow, GiveUp
<1> QED BY <1>3, <1>4, <1>5, <1>6 DEF JudgeNext

\* A pair is only read while both of its rows are live.
LEMMA ReadPairGives ==
  ASSUME ResolveInv, Grown, NEW j \in Judges, NEW o, NEW n, o # n, ReadPair(j, o, n)
  PROVE  \/ UNCHANGED <<judge, contested>>
         \/ \E y : /\ judge' = [judge EXCEPT ![j] = y] /\ JudgeOK(y)'
                   /\ Live(y.old) /\ Live(y.new) /\ y.scope = rows[y.new].scope
                   /\ contested' = IF Contesting(j, y.old, y.new) THEN contested \cup {Pair(y)} ELSE contested
<1>1. CASE ~(Live(o) /\ Live(n))
  BY <1>1 DEF ReadPair
<1>2. CASE Live(o) /\ Live(n)
  <2>1. PICK y : y = [Idle EXCEPT !.pc = "ask", !.old = o, !.new = n,
                               !.scope = rows[n].scope]
    OBVIOUS
  <2>2. judge' = [judge EXCEPT ![j] = y]
    BY <1>2, <2>1 DEF ReadPair
  <2>3. y.pc = "ask" /\ y.old = o /\ y.new = n /\ DOMAIN y = Fields
        /\ y.scope = rows[n].scope
    BY <2>1 DEF Idle, Fields
  <2>4. contested' = IF Contesting(j, y.old, y.new) THEN contested \cup {Pair(y)} ELSE contested
    BY <1>2, <2>3 DEF ReadPair, Pair
  <2>5. o \in DOMAIN rows' /\ n \in DOMAIN rows' /\ rows[n].scope \in Scopes
    <3>1. rows \in Seq(RowSet) /\ n \in 1..Len(rows)
      BY <1>2, LenProperties DEF Live, Grown, RowsOK
    <3>2. rows[n] \in RowSet
      BY <3>1, ElementOfSeq
    <3> QED BY <1>2, <3>2 DEF Live, Grown, RowSet
  <2>6. JudgeOK(y)'
    BY <2>3, <2>5 DEF JudgeOK
  <2> QED BY <1>2, <2>2, <2>3, <2>4, <2>6
<1> QED BY <1>1, <1>2

LEMMA JudgeReads ==
  ASSUME ResolveInv, Grown, (\E w \in Workers : Take(w)) \/ (\E d \in Deciders : Decide(d))
  PROVE  /\ kept' = kept
         /\ \/ UNCHANGED <<judge, contested>>
            \/ \E j \in Judges : \E y :
                 /\ judge' = [judge EXCEPT ![j] = y] /\ JudgeOK(y)'
                 /\ Live(y.old) /\ Live(y.new) /\ y.scope = rows[y.new].scope
                 /\ contested' = IF Contesting(j, y.old, y.new) THEN contested \cup {Pair(y)} ELSE contested
<1>1. ASSUME NEW w \in Workers, Take(w)
      PROVE  kept' = kept /\ w \in Judges /\ \E o, n : o # n /\ ReadPair(w, o, n)
  <2>1. queue # << >> /\ ReadPair(w, Head(queue)[1], Head(queue)[2]) /\ kept' = kept
    BY <1>1 DEF Take
  <2>2. QueueOK /\ queue \in Seq(Ids \X Ids)
    BY DEF ResolveInv, QueueOK
  <2>3. Head(queue) = queue[1] /\ 1 \in 1..Len(queue)
    <3>1. Len(queue) \in Nat /\ Len(queue) # 0
      BY <2>1, <2>2, LenProperties, EmptySeq
    <3> QED BY <2>1, <2>2, <3>1, HeadTailProperties
  <2>4. Head(queue)[1] # Head(queue)[2]
    BY <2>2, <2>3 DEF QueueOK
  <2> QED BY <2>1, <2>4 DEF Judges
<1>2. ASSUME NEW d \in Deciders, Decide(d)
      PROVE  kept' = kept /\ d \in Judges /\ \E o, n : o # n /\ ReadPair(d, o, n)
  <2>1. PICK c \in conflicts : ReadPair(d, Min({c[1], c[2]}), Max({c[1], c[2]}))
    BY <1>2 DEF Decide
  <2>2. There(c[1]) /\ There(c[2]) /\ c[1] # c[2]
    BY DEF ResolveInv, RelationsOK
  <2>3. PICK a \in Nat, b \in Nat : a = c[1] /\ b = c[2]
    BY <2>2 DEF There, Grown
  <2>4. Min({a, b}) = (IF a <= b THEN a ELSE b) /\ Max({a, b}) = (IF a >= b THEN a ELSE b)
    BY LeastOfTwo
  <2>5. Min({a, b}) # Max({a, b})
    BY <2>2, <2>3, <2>4
  <2>6. kept' = kept
    BY <1>2 DEF Decide
  <2> QED BY <2>1, <2>3, <2>5, <2>6 DEF Judges
<1>3. PICK j \in Judges : kept' = kept /\ \E o, n : o # n /\ ReadPair(j, o, n)
  BY <1>1, <1>2
<1>4. PICK o, n : o # n /\ ReadPair(j, o, n)
  BY <1>3
<1> QED BY <1>3, <1>4, ReadPairGives

LEMMA JudgesStep == ASSUME ResolveInv, [Next]_vars, Grown PROVE JudgesOK'
<1>1. DOMAIN judge = Judges /\ \A k \in Judges : JudgeOK(judge[k])
  BY DEF ResolveInv, JudgesOK
<1>2. ASSUME NEW j \in Judges, NEW y, judge' = [judge EXCEPT ![j] = y], JudgeOK(y)'
      PROVE  JudgesOK'
  <2>1. DOMAIN judge' = Judges /\ judge'[j] = y /\ \A k \in Judges : k # j => judge'[k] = judge[k]
    BY <1>1, <1>2
  <2>2. ASSUME NEW k \in Judges PROVE JudgeOK(judge[k])'
    <3>1. CASE k = j
      BY <1>2, <2>1, <3>1 DEF JudgeOK, PlanOK
    <3>2. CASE k # j
      <4>1. PICK x : x = judge[k]
        OBVIOUS
      <4>2. JudgeOK(x)' /\ judge'[k] = x
        BY <1>1, <2>1, <3>2, <4>1, JudgeStays
      <4> QED BY <4>2 DEF JudgeOK, PlanOK
    <3> QED BY <3>1, <3>2
  <2> QED BY <2>1, <2>2 DEF JudgesOK
<1>3. CASE judge' = judge
  <2>1. ASSUME NEW k \in Judges PROVE JudgeOK(judge[k])'
    <3>1. PICK x : x = judge[k]
      OBVIOUS
    <3>2. JudgeOK(x)' /\ judge'[k] = x
      BY <1>1, <1>3, <3>1, JudgeStays
    <3> QED BY <3>2 DEF JudgeOK, PlanOK
  <2> QED BY <1>1, <1>3, <2>1 DEF JudgesOK
<1>4. CASE \E j \in Judges : JudgeNext(j)
  BY <1>2, <1>4, JudgeWrites
<1>5. CASE (\E w \in Workers : Take(w)) \/ (\E d \in Deciders : Decide(d))
  BY <1>2, <1>3, <1>5, JudgeReads
<1>6. CASE UserNext \/ UNCHANGED vars
  BY <1>3, <1>6 DEF UserNext, Save, SaveAgain, QueueConflicts, Leave, Edit, SoftDelete, HardDelete, vars
<1> QED BY <1>4, <1>5, <1>6 DEF Next

\* Scopes that users leave alone stay as they are, and new ones are taken from the newer row.
LEMMA ScopesStep == ASSUME ResolveInv, [Next]_vars, Grown PROVE ScopesOK'
<1>1. RowsOK /\ ScopesOK /\ DOMAIN judge = Judges
  BY DEF ResolveInv, JudgesOK
<1>2. ASSUME NEW i \in DOMAIN rows', rows'[i].seed # 0, {i, rows'[i].seed} \cap edited' = {}
      PROVE  rows'[i].seed \in DOMAIN rows' /\ rows'[i].scope = rows'[rows'[i].seed].scope
  <2>1. CASE i \in DOMAIN rows
    <3>1. rows'[i].seed = rows[i].seed /\ rows'[i].scope = rows[i].scope
      BY <1>2, <2>1 DEF Grown
    <3>2. {i, rows[i].seed} \cap edited = {}
      BY <1>2, <3>1 DEF Grown
    <3>3. rows[i].seed \in DOMAIN rows /\ rows[i].scope = rows[rows[i].seed].scope
      BY <1>1, <1>2, <2>1, <3>1, <3>2 DEF ScopesOK
    <3> QED BY <1>2, <3>1, <3>3 DEF Grown
  <2>2. CASE i \notin DOMAIN rows
    <3>1. Len(rows') # Len(rows)
      BY <2>2 DEF Grown
    <3>2. Len(rows') = Len(rows) + 1 /\ edited' = edited
      BY <3>1, NewRow
    <3>3. i = Len(rows) + 1
      BY <2>2, <3>2 DEF Grown
    <3>4. PICK j \in Judges :
            /\ judge[j].pc = "apply" /\ judge[j].new \in DOMAIN rows
            /\ rows'[i].seed = judge[j].new /\ rows'[i].scope = judge[j].scope
      BY <1>2, <3>1, <3>3, NewRow
    <3>5. judge[j].scope = rows[judge[j].new].scope
      BY <1>1, <1>2, <3>2, <3>4 DEF ScopesOK
    <3> QED BY <1>2, <3>4, <3>5 DEF Grown
  <2> QED BY <2>1, <2>2
<1>3. ASSUME NEW k \in Judges, judge'[k] = judge[k], judge[k].pc # "idle", judge[k].new \notin edited'
      PROVE  judge'[k].scope = rows'[judge[k].new].scope
  <2>1. judge[k].new \in DOMAIN rows /\ judge[k].new \notin edited
    BY <1>3 DEF ResolveInv, JudgesOK, JudgeOK, Grown
  <2> QED BY <1>1, <1>3, <2>1 DEF ScopesOK, Grown
<1>4. ASSUME NEW k \in Judges, judge'[k].pc # "idle", judge'[k].new \notin edited'
      PROVE  judge'[k].scope = rows'[judge'[k].new].scope
  <2>1. CASE judge'[k] = judge[k]
    BY <1>3, <1>4, <2>1
  <2>2. CASE \E j \in Judges : JudgeNext(j)
    <3>0. PICK j \in Judges : JudgeNext(j)
      BY <2>2
    <3>1. PICK y :
            /\ judge' = [judge EXCEPT ![j] = y] /\ judge[j].pc # "idle"
            /\ y = Idle \/ (y.new = judge[j].new /\ y.scope = judge[j].scope)
      BY <3>0, JudgeWrites
    <3>2. judge'[j] = y /\ (k # j => judge'[k] = judge[k])
      BY <1>1, <3>1
    <3>3. CASE k = j
      <4>1. y # Idle
        BY <1>4, <3>2, <3>3, IdleIsOK
      <4>2. judge[k].new \in DOMAIN rows /\ judge[k].new \notin edited'
        BY <1>4, <3>1, <3>2, <3>3, <4>1 DEF ResolveInv, JudgesOK, JudgeOK
      <4>3. rows'[judge[k].new].scope = rows[judge[k].new].scope /\ judge[k].new \notin edited
        BY <4>2 DEF Grown
      <4>4. judge[k].scope = rows[judge[k].new].scope
        BY <1>1, <3>1, <3>3, <4>3 DEF ScopesOK
      <4> QED BY <3>1, <3>2, <3>3, <4>1, <4>3, <4>4
    <3> QED BY <2>1, <3>2, <3>3
  <2>3. CASE (\E w \in Workers : Take(w)) \/ (\E d \in Deciders : Decide(d))
    <3>1. CASE judge' = judge
      BY <2>1, <3>1
    <3>2. CASE judge' # judge
      <4>0. PICK j \in Judges : \E y :
              judge' = [judge EXCEPT ![j] = y] /\ Live(y.new) /\ y.scope = rows[y.new].scope
        BY <2>3, <3>2, JudgeReads
      <4>1. PICK y :
              judge' = [judge EXCEPT ![j] = y] /\ Live(y.new) /\ y.scope = rows[y.new].scope
        BY <4>0
      <4>2. judge'[j] = y /\ (k # j => judge'[k] = judge[k])
        BY <1>1, <4>1
      <4>3. CASE k = j
        BY <1>4, <4>1, <4>2, <4>3 DEF Live, Grown
      <4> QED BY <2>1, <4>2, <4>3
    <3> QED BY <3>1, <3>2
  <2>4. CASE UserNext \/ UNCHANGED vars
    <3>1. judge' = judge
      BY <2>4 DEF UserNext, Save, SaveAgain, QueueConflicts, Leave, Edit, SoftDelete, HardDelete, vars
    <3> QED BY <2>1, <3>1
  <2> QED BY <2>2, <2>3, <2>4 DEF Next
<1> QED BY <1>2, <1>4 DEF ScopesOK

-----------------------------------------------------------------------------
(* Two judges, one pair. *)

\* The one request that deletes a row, and what it says of the judge that sends it.
LEMMA Deletion ==
  ASSUME ResolveInv, [Next]_vars, Grown, kept' # kept
  PROVE  \E j \in Judges : \E k :
           /\ JudgeNext(j) /\ Deciding(judge[j]) /\ judge[j].pc # "ask"
           /\ kept' = kept \cup {k} /\ {k[1], k[2]} = Pair(judge[j]) /\ k[1] # k[2]
           /\ k = <<k[1], k[2]>> /\ k[1] \in DOMAIN rows' /\ ~rows'[k[1]].live
           /\ ~(Deciding(judge[j])')
<1>1. PICK j \in Judges : ApplyStep(j)
  <2>1. CASE \/ UserNext \/ (\E w \in Workers : Take(w)) \/ (\E d \in Deciders : Decide(d))
             \/ \E j \in Judges : \/ \E a \in {"keep_new", "keep_old", "keep_both", "synthesize"} : Answer(j, a)
                                  \/ AskFails(j) \/ RequestFails(j)
             \/ UNCHANGED vars
    <3>1. kept' = kept
      BY <2>1 DEF UserNext, Save, SaveAgain, QueueConflicts, Leave, Edit, SoftDelete, HardDelete, Take, Decide,
                  Answer, AskFails, RequestFails, GiveUp, vars
    <3> QED BY <3>1
  <2> QED BY <2>1 DEF Next, JudgeNext
<1>2. PICK x, step : x = judge[j] /\ step = Head(x.plan)
  OBVIOUS
<1>3. JudgeOK(x) /\ RowsOK /\ x.pc = "apply" /\ DeleteRow(j, step)
  BY <1>1, <1>2 DEF ResolveInv, JudgesOK, ApplyStep, AddResolvedBy, SaveResolution, GiveUp
<1>4. /\ step.op = "delete" /\ step.row \in DOMAIN rows /\ kept' = kept \cup {<<step.row, step.keep>>}
      /\ rows' = [rows EXCEPT ![step.row].live = FALSE]
  BY <1>3 DEF DeleteRow, GiveUp, Live
<1>5. {step.row, step.keep} = Pair(x) /\ step.row # step.keep
  BY <1>2, <1>3, <1>4, FirstRequest
<1>6. rows'[step.row].live = FALSE
  BY <1>3, <1>4, HideRow
<1>7. step.row \in DOMAIN rows' /\ ~rows'[step.row].live
  BY <1>4, <1>6 DEF Grown
<1>8. JudgeNext(j) /\ Deciding(judge[j]) /\ judge[j].pc # "ask"
  BY <1>1, <1>2, <1>3, <1>4 DEF JudgeNext, Deciding
<1>9. PICK k : k = <<step.row, step.keep>>
  OBVIOUS
<1>10. k[1] = step.row /\ k[2] = step.keep
  BY <1>9
<1>11. ~(Deciding(judge[j])')
  <2>1. PICK y : /\ judge' = [judge EXCEPT ![j] = y]
                 /\ y = Idle \/ (Deciding(y) => judge[j].pc = "ask")
    BY <1>8, JudgeWrites
  <2>2. judge'[j] = y
    BY <2>1 DEF ResolveInv, JudgesOK
  <2>3. ~Deciding(y)
    BY <1>8, <2>1, IdleIsOK
  <2> QED BY <2>2, <2>3 DEF Deciding
<1> QED BY <1>2, <1>4, <1>5, <1>7, <1>8, <1>9, <1>10, <1>11

LEMMA KeptStep == ASSUME ResolveInv, [Next]_vars, Grown PROVE KeptOK'
<1>1. \A k \in kept : k[1] \in DOMAIN rows' /\ ~rows'[k[1]].live
  BY DEF ResolveInv, KeptOK, Grown
<1>2. CASE kept' = kept
  BY <1>1, <1>2 DEF KeptOK
<1>3. CASE kept' # kept
  <2>1. PICK k : kept' = kept \cup {k} /\ k[1] \in DOMAIN rows' /\ ~rows'[k[1]].live
    BY <1>3, Deletion
  <2> QED BY <1>1, <2>1 DEF KeptOK
<1> QED BY <1>2, <1>3

\* A judge at work keeps its pair, and once it stops deciding it never decides again.
LEMMA JudgesStayCalm ==
  ASSUME ResolveInv, [Next]_vars, Grown, \E j \in Judges : JudgeNext(j), NEW k \in Judges
  PROVE  /\ judge'[k].pc # "idle" => judge[k].pc # "idle" /\ Pair(judge'[k]) = Pair(judge[k])
         /\ Deciding(judge[k])' => Deciding(judge[k])
<1>1. PICK j \in Judges : JudgeNext(j)
  OBVIOUS
<1>2. PICK y : /\ judge' = [judge EXCEPT ![j] = y] /\ judge[j].pc # "idle"
               /\ \/ y = Idle
                  \/ /\ y.old = judge[j].old /\ y.new = judge[j].new
                     /\ Deciding(y) => judge[j].pc = "ask"
  BY <1>1, JudgeWrites
<1>3. DOMAIN judge = Judges
  BY DEF ResolveInv, JudgesOK
<1>4. judge'[j] = y /\ (k # j => judge'[k] = judge[k])
  BY <1>2, <1>3
<1>5. CASE k # j
  BY <1>4, <1>5 DEF Deciding
<1>6. CASE k = j
  <2>1. CASE y = Idle
    <3>1. judge'[k].pc = "idle"
      BY <1>4, <1>6, <2>1, IdleIsOK
    <3> QED BY <3>1 DEF Deciding
  <2>2. CASE /\ y.old = judge[j].old /\ y.new = judge[j].new
             /\ Deciding(y) => judge[j].pc = "ask"
    <3>1. Pair(judge'[k]) = Pair(judge[k])
      BY <1>4, <1>6, <2>2 DEF Pair
    <3>2. Deciding(judge[k])' => judge[k].pc = "ask"
      BY <1>4, <1>6, <2>2 DEF Deciding
    <3>3. judge[k].pc = "ask" => Deciding(judge[k])
      BY DEF Deciding
    <3> QED BY <1>2, <1>6, <3>1, <3>2, <3>3
  <2> QED BY <1>2, <2>1, <2>2
<1> QED BY <1>5, <1>6

\* Judges that are at work, and the rows they delete.
LEMMA ContestWhileJudging ==
  ASSUME ResolveInv, [Next]_vars, Grown, \E j \in Judges : JudgeNext(j)
  PROVE  ContestOK'
<1>1. contested' = contested
  BY DEF JudgeNext, Answer, AskFails, ApplyStep, RequestFails
<1>2. ContestOK
  BY DEF ResolveInv
<1>3. ASSUME NEW j \in Judges, NEW k \in Judges, j # k, judge'[j].pc # "idle", judge'[k].pc # "idle",
             Pair(judge'[j]) = Pair(judge'[k])
      PROVE  Pair(judge'[j]) \in contested'
  <2>1. /\ judge[j].pc # "idle" /\ Pair(judge'[j]) = Pair(judge[j])
        /\ judge[k].pc # "idle" /\ Pair(judge'[k]) = Pair(judge[k])
    BY <1>3, JudgesStayCalm
  <2> QED BY <1>1, <1>2, <1>3, <2>1 DEF ContestOK
<1>4. ASSUME NEW j \in Judges, Deciding(judge[j])'
      PROVE  judge[j].pc # "idle" /\ Deciding(judge[j]) /\ Pair(judge'[j]) = Pair(judge[j])
  <2>1. judge'[j].pc # "idle"
    BY <1>4 DEF Deciding
  <2> QED BY <1>4, <2>1, JudgesStayCalm
<1>5. ASSUME NEW j \in Judges, Deciding(judge[j])', NEW k \in kept', Pair(judge'[j]) = {k[1], k[2]}
      PROVE  Pair(judge'[j]) \in contested'
  <2>1. CASE k \in kept
    BY <1>1, <1>2, <1>4, <1>5, <2>1 DEF ContestOK
  <2>2. CASE k \notin kept
    <3>1. PICK q \in Judges : \E d :
            /\ Deciding(judge[q]) /\ judge[q].pc # "ask" /\ JudgeNext(q)
            /\ kept' = kept \cup {d} /\ {d[1], d[2]} = Pair(judge[q]) /\ ~(Deciding(judge[q])')
      BY <2>2, Deletion
    <3>2. Pair(judge[q]) = {k[1], k[2]} /\ judge[q].pc # "idle" /\ judge[q].pc # "ask"
      BY <2>2, <3>1 DEF Deciding
    <3>3. q # j
      BY <1>5, <3>1
    <3> QED BY <1>1, <1>2, <1>4, <1>5, <3>2, <3>3 DEF ContestOK
  <2> QED BY <2>1, <2>2
<1>6. ASSUME NEW k \in kept', <<k[2], k[1]>> \in kept'
      PROVE  {k[1], k[2]} \in contested'
  <2>1. CASE k \in kept /\ <<k[2], k[1]>> \in kept
    BY <1>1, <1>2, <2>1 DEF ContestOK, BothLostOnlyIfContested
  <2>2. CASE ~(k \in kept /\ <<k[2], k[1]>> \in kept)
    <3>1. PICK q \in Judges, d \in kept' :
            /\ Deciding(judge[q]) /\ kept' = kept \cup {d} /\ {d[1], d[2]} = Pair(judge[q])
            /\ d[1] # d[2] /\ d = <<d[1], d[2]>>
      BY <1>6, <2>2, Deletion
    <3>2. PICK r : r = <<k[2], k[1]>>
      OBVIOUS
    <3>3. r[1] = k[2] /\ r[2] = k[1] /\ r \in kept'
      BY <1>6, <3>2
    <3>4. CASE k \in kept /\ r \notin kept
      <4>1. r = d
        BY <3>1, <3>3, <3>4
      <4>2. Pair(judge[q]) = {k[1], k[2]}
        BY <3>1, <3>3, <4>1
      <4> QED BY <1>1, <1>2, <3>1, <3>4, <4>2 DEF ContestOK
    <3>5. CASE k \notin kept /\ r \in kept
      <4>1. k = d
        BY <3>1, <3>5
      <4>2. Pair(judge[q]) = {r[1], r[2]} /\ Pair(judge[q]) = {k[1], k[2]}
        BY <3>1, <3>3, <4>1
      <4> QED BY <1>1, <1>2, <3>1, <3>5, <4>2 DEF ContestOK
    <3>6. CASE k \notin kept /\ r \notin kept
      <4>1. k = d /\ r = d
        BY <1>6, <3>1, <3>3, <3>6
      <4> QED BY <3>1, <3>3, <4>1
    <3> QED BY <2>2, <3>2, <3>4, <3>5, <3>6
  <2> QED BY <2>1, <2>2
<1> QED BY <1>3, <1>5, <1>6 DEF ContestOK, BothLostOnlyIfContested

\* A judge that starts to ask: another one with its pair makes it contested, and neither of
\* its rows has been withdrawn.
LEMMA ContestWhileReading ==
  ASSUME ResolveInv, Grown, (\E w \in Workers : Take(w)) \/ (\E d \in Deciders : Decide(d))
  PROVE  ContestOK'
<1>1. kept' = kept /\ ContestOK /\ KeptOK /\ DOMAIN judge = Judges
  BY JudgeReads DEF ResolveInv, JudgesOK
<1>2. CASE UNCHANGED <<judge, contested>>
  BY <1>1, <1>2 DEF ContestOK, BothLostOnlyIfContested, Deciding, Pair
<1>3. ASSUME NEW j \in Judges, NEW y, judge' = [judge EXCEPT ![j] = y], Live(y.old), Live(y.new),
             contested' = IF Contesting(j, y.old, y.new) THEN contested \cup {Pair(y)} ELSE contested
      PROVE  ContestOK'
  <2>1. judge'[j] = y /\ (\A k \in Judges : k # j => judge'[k] = judge[k]) /\ contested \subseteq contested'
    BY <1>1, <1>3
  <2>2. ASSUME NEW k \in Judges, k # j, judge[k].pc # "idle", Pair(judge[k]) = Pair(y)
        PROVE  Pair(y) \in contested'
    <3>1. Contesting(j, y.old, y.new)
      BY <2>2 DEF Contesting, Pair
    <3> QED BY <1>3, <3>1
  <2>3. ASSUME NEW p \in Judges, NEW q \in Judges, p # q, judge'[p].pc # "idle", judge'[q].pc # "idle",
               Pair(judge'[p]) = Pair(judge'[q])
        PROVE  Pair(judge'[p]) \in contested'
    <3>1. CASE p # j /\ q # j
      BY <1>1, <2>1, <2>3, <3>1 DEF ContestOK
    <3>2. CASE p = j
      BY <2>1, <2>2, <2>3, <3>2
    <3>3. CASE q = j
      BY <2>1, <2>2, <2>3, <3>3
    <3> QED BY <3>1, <3>2, <3>3
  <2>4. ASSUME NEW p \in Judges, NEW k \in kept', Deciding(judge[p])', Pair(judge'[p]) = {k[1], k[2]}
        PROVE  Pair(judge'[p]) \in contested'
    <3>1. CASE p = j
      <4>1. k[1] = y.old \/ k[1] = y.new
        BY <2>1, <2>4, <3>1 DEF Pair
      <4> QED BY <1>1, <1>3, <4>1 DEF KeptOK, Live
    <3>2. CASE p # j
      <4>1. Deciding(judge[p]) /\ judge'[p] = judge[p]
        BY <2>1, <2>4, <3>2 DEF Deciding
      <4> QED BY <1>1, <2>1, <2>4, <4>1 DEF ContestOK
    <3> QED BY <3>1, <3>2
  <2>5. BothLostOnlyIfContested'
    BY <1>1, <2>1 DEF ContestOK, BothLostOnlyIfContested
  <2> QED BY <2>3, <2>4, <2>5 DEF ContestOK
<1> QED BY <1>2, <1>3, JudgeReads

LEMMA ContestStep == ASSUME ResolveInv, [Next]_vars, Grown PROVE ContestOK'
<1>1. CASE UserNext \/ UNCHANGED vars
  <2>1. UNCHANGED <<judge, contested, kept>>
    BY <1>1 DEF UserNext, Save, SaveAgain, QueueConflicts, Leave, Edit, SoftDelete, HardDelete, vars
  <2> QED BY <2>1 DEF ResolveInv, ContestOK, BothLostOnlyIfContested, Deciding, Pair
<1>2. CASE \E j \in Judges : JudgeNext(j)
  BY <1>2, ContestWhileJudging
<1>3. CASE (\E w \in Workers : Take(w)) \/ (\E d \in Deciders : Decide(d))
  BY <1>3, ContestWhileReading
<1> QED BY <1>1, <1>2, <1>3 DEF Next

-----------------------------------------------------------------------------
(* Theorems. *)

LEMMA ResolveInit == Init => ResolveInv
<1> SUFFICES ASSUME Init PROVE ResolveInv
  OBVIOUS
<1>1. rows = << >> /\ DOMAIN rows = {} /\ Len(rows) = 0 /\ queue = << >> /\ Len(queue) = 0
  BY DEF Init
<1>2. RowsOK /\ OneResolution /\ QueueOK
  BY <1>1, ResolveAssumption DEF RowsOK, OneResolution, QueueOK
<1>3. RelationsOK /\ KeptOK /\ SettledIsHidden
  BY DEF Init, RelationsOK, KeptOK, SettledIsHidden
<1>4. DOMAIN judge = Judges /\ \A j \in Judges : judge[j] = Idle
  BY DEF Init
<1>5. JudgesOK
  BY <1>4, IdleIsOK DEF JudgesOK
<1>7. ScopesOK
  BY <1>1, <1>4, IdleIsOK DEF ScopesOK
<1>6. ContestOK
  BY <1>4, IdleIsOK DEF Init, ContestOK, BothLostOnlyIfContested
<1> QED BY <1>2, <1>3, <1>5, <1>6, <1>7 DEF ResolveInv

LEMMA ResolveInductive == ResolveInv /\ [Next]_vars => ResolveInv'
<1> SUFFICES ASSUME ResolveInv, [Next]_vars PROVE ResolveInv'
  OBVIOUS
<1>1. Grown
  BY RowsStep
<1>2. RowsOK'
  BY <1>1 DEF Grown
<1> QED BY <1>1, <1>2, RelationsStep, QueueStep, SeedsStep, JudgesStep, KeptStep, ScopesStep, ContestStep
    DEF ResolveInv

\* The facts that hold together in every state: rows keep their places, relations join rows
\* that are there, a judge works on two rows with what is left of one verdict, and judges that
\* share a pair are recorded (resolve_worker.rs, decide.rs).
THEOREM ResolveInvariant == Spec => []ResolveInv
BY ResolveInit, ResolveInductive, PTL DEF Spec

\* Relations join rows that exist, jobs name rows, the queue keeps QUEUE_CAPACITY, and a judge
\* that applies a verdict has a request left to send.
THEOREM ResolveTypeCorrect == Spec => []TypeOK
<1>1. ASSUME ResolveInv PROVE TypeOK
  <2>1. /\ Len(rows) <= MaxRows
        /\ \A i \in DOMAIN rows : rows[i] \in RowSet /\ (rows[i].live => rows[i].there)
    BY <1>1, ElementOfSeq, LenProperties DEF ResolveInv, RowsOK
  <2>2. \A j \in Judges : judge[j].pc = "apply" => judge[j].plan # << >>
    <3>1. ASSUME NEW j \in Judges, judge[j].pc = "apply" PROVE judge[j].plan # << >>
      <4>1. PICK x, step : x = judge[j] /\ step = Head(x.plan)
        OBVIOUS
      <4>2. RowsOK /\ JudgeOK(x) /\ x.pc = "apply"
        BY <1>1, <3>1, <4>1 DEF ResolveInv, JudgesOK
      <4>3. x.plan # << >>
        BY <4>1, <4>2, FirstRequest
      <4> QED BY <4>1, <4>3
    <3> QED BY <3>1
  <2>3. \A j \in Judges : judge[j].pc \in {"idle", "ask", "apply"}
    BY <1>1 DEF ResolveInv, JudgesOK, JudgeOK
  <2>4. Len(queue) <= Capacity /\ \A k \in DOMAIN queue : queue[k] \in Ids \X Ids
    BY <1>1, ElementOfSeq, LenProperties DEF ResolveInv, QueueOK
  <2>5. /\ \A c \in conflicts : There(c[1]) /\ There(c[2])
        /\ \A r \in resolved : There(r[1]) /\ There(r[2])
        /\ saved \subseteq Ids
    BY <1>1 DEF ResolveInv, RelationsOK
  <2> QED BY <2>1, <2>2, <2>3, <2>4, <2>5 DEF TypeOK, RowSet
<1> QED BY <1>1, ResolveInvariant, PTL

\* A pair that Decide takes for settled has lost its row: whatever request of a verdict fails,
\* and whoever comes in between, resolved_by is only added once the row is withdrawn.
THEOREM ResolvedRowsAreHidden == Spec => []SettledIsHidden
<1>1. ResolveInv => SettledIsHidden
  BY DEF ResolveInv
<1> QED BY <1>1, ResolveInvariant, PTL

\* Any number of judges that synthesize pairs with one newer row leave one live resolution of
\* that row, by the topic and the scope save_resolution gives it, unless a user changed the scope
\* or the topic of the row or of a resolution.  A pair judged in both orders has two newer rows:
\* this says nothing of one resolution for the pair.
THEOREM OneSynthesisPerNewerRow == Spec => []OneResolution
<1>1. ResolveInv => OneResolution
  BY DEF ResolveInv
<1> QED BY <1>1, ResolveInvariant, PTL

\* Only judges that asked about one pair at the same time can each delete the row that the
\* other one keeps (resolve_pair against Decide, apply_verdict).
THEOREM BothLostNeedsContest == Spec => []BothLostOnlyIfContested
<1>1. ResolveInv => BothLostOnlyIfContested
  BY DEF ResolveInv, ContestOK
<1> QED BY <1>1, ResolveInvariant, PTL

=============================================================================
