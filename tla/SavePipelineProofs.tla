-------------------------- MODULE SavePipelineProofs --------------------------
(***************************************************************************)
(* What is derived from an observation belongs to it, for any number of      *)
(* clients, workers and rows, any queue capacity and any number of retries:  *)
(* whoever holds a task holds a text that its row has had, ids are never      *)
(* used twice, and so a late write lands on its own row or on none.           *)
(***************************************************************************)
EXTENDS SavePipeline, SequenceTheorems, TLAPS

\* The row with this id was inserted some time, and it has had this text.
Had(i, text) == i \in Ids /\ i <= last /\ text \in texts[i]
Known(t) == t \in Task /\ Had(t.id, t.text)

RowSet == [text : Texts, live : BOOLEAN]
MetaSet == [text : Texts, quantized : BOOLEAN]

TableOK ==
    /\ enabled \in Configs /\ last \in 0..MaxRows /\ clock \in 0..MaxTexts
    /\ texts \in [Ids -> SUBSET Texts]
    /\ rows \in Partial(RowSet)
    /\ \A i \in DOMAIN rows : Had(i, rows[i].text)

Phases == {"saved", "stamped", "mirrored", "embed_queued", "extract_queued"}

ClientsOK ==
    /\ DOMAIN rpc = Savers
    /\ \A s \in Savers :
         rpc[s] # Idle =>
            DOMAIN rpc[s] = {"at", "obs"} /\ rpc[s].at \in Phases /\ Known(rpc[s].obs)

QueueOK(queue) ==
    /\ queue \in Seq(Task) /\ Len(queue) <= QueueCapacity
    /\ \A n \in 1..Len(queue) : Known(queue[n])

QueuesOK == QueueOK(embedQ) /\ QueueOK(extractQ)

BulkOK ==
    /\ bulk \in [at : {"none", "clear_meta", "select", "embed", "extract"}, todo : SUBSET Task]
    /\ \A t \in bulk.todo : Known(t)

WorkersOK ==
    /\ worker \in [EmbedWorkers -> [task : Task \cup {None}, failed : 0..Retries]]
    /\ \A w \in EmbedWorkers : worker[w] # Free => Known(worker[w].task)
    /\ extractor \in [task : Task \cup {None}, failed : 0..RateLimit]
    /\ extractor.task # None => Known(extractor.task)
    /\ extractor.task # None => extractor.failed < RateLimit

TextsOK(f) == f \in Partial(Texts) /\ \A i \in DOMAIN f : Had(i, f[i])
MetaOK(f) == f \in Partial(MetaSet) /\ \A i \in DOMAIN f : Had(i, f[i].text)
NotesOK(S) == S \subseteq Ids \X Texts /\ \A n \in S : Had(n[1], n[2])

DerivedOK ==
    /\ TextsOK(vec) /\ MetaOK(meta) /\ TextsOK(mirror)
    /\ NotesOK(facts) /\ NotesOK(mentions)

\* embed.quantize stays as it is, so meta rows are all of one kind; without it, a meta
\* row is written after its vector and goes with it.
PairsOK ==
    /\ \A i \in DOMAIN meta : meta[i].quantized <=> "quantize" \in enabled
    /\ "quantize" \notin enabled /\ ~torn /\ WriteThreadFree => DOMAIN meta \subseteq DOMAIN vec

PipelineInv ==
    TableOK /\ ClientsOK /\ QueuesOK /\ BulkOK /\ WorkersOK /\ DerivedOK /\ PairsOK

-----------------------------------------------------------------------------
(* Tables, as functions on some of the ids. *)

LEMMA PartialFun ==
    ASSUME NEW S, NEW f
    PROVE  f \in Partial(S) <=> DOMAIN f \subseteq Ids /\ f \in [DOMAIN f -> S]
BY DEF Partial

LEMMA PutPartial ==
    ASSUME NEW S, NEW f \in Partial(S), NEW i \in Ids, NEW v \in S
    PROVE  /\ Put(f, i, v) \in Partial(S) /\ DOMAIN Put(f, i, v) = DOMAIN f \cup {i}
           /\ Put(f, i, v)[i] = v
           /\ \A j \in DOMAIN f : j # i => Put(f, i, v)[j] = f[j]
<1>1. DOMAIN f \subseteq Ids /\ f \in [DOMAIN f -> S]
  BY PartialFun
<1>2. /\ DOMAIN Put(f, i, v) = DOMAIN f \cup {i} /\ Put(f, i, v)[i] = v
      /\ \A j \in DOMAIN f : j # i => Put(f, i, v)[j] = f[j]
      /\ Put(f, i, v) \in [DOMAIN f \cup {i} -> S]
  BY <1>1 DEF Put
<1>3. Put(f, i, v) \in Partial(S)
  BY <1>1, <1>2, PartialFun
<1> QED BY <1>2, <1>3

LEMMA DropPartial ==
    ASSUME NEW S, NEW f \in Partial(S), NEW i
    PROVE  /\ Drop(f, i) \in Partial(S) /\ DOMAIN Drop(f, i) = DOMAIN f \ {i}
           /\ \A j \in DOMAIN Drop(f, i) : Drop(f, i)[j] = f[j]
<1>1. DOMAIN f \subseteq Ids /\ f \in [DOMAIN f -> S]
  BY PartialFun
<1>2. /\ DOMAIN Drop(f, i) = DOMAIN f \ {i}
      /\ \A j \in DOMAIN Drop(f, i) : Drop(f, i)[j] = f[j]
      /\ Drop(f, i) \in [DOMAIN f \ {i} -> S]
  BY <1>1 DEF Drop, Restrict
<1>3. Drop(f, i) \in Partial(S)
  BY <1>1, <1>2, PartialFun
<1> QED BY <1>2, <1>3

LEMMA EmptyPartial == ASSUME NEW S PROVE << >> \in Partial(S) /\ DOMAIN << >> = {}
<1>1. << >> \in Seq(S) /\ Len(<< >>) = 0
  BY EmptySeq
<1>2. DOMAIN << >> = 1..0 /\ << >> \in [1..0 -> S]
  BY <1>1, LenProperties
<1>3. DOMAIN << >> = {}
  BY <1>2
<1>4. << >> \in [DOMAIN << >> -> S]
  BY <1>2
<1> QED BY <1>3, <1>4, PartialFun

-----------------------------------------------------------------------------
(* The table of observations: ids only grow, and so do the texts of a row. *)

Grown ==
    /\ last <= last'
    /\ \A i \in Ids : i <= last => texts[i] \subseteq texts'[i]

LEMMA InsertStep ==
    ASSUME TableOK, NEW i \in Ids, Insert(i), enabled' = enabled
    PROVE  TableOK' /\ Grown /\ i \in DOMAIN rows' /\ Had(i, rows[i].text)'
<1> DEFINE row == [text |-> clock + 1, live |-> TRUE]
<1>1. /\ i = last + 1 /\ last' = i /\ clock' = clock + 1 /\ clock + 1 \in Texts
      /\ rows' = Put(rows, i, row) /\ texts' = [texts EXCEPT ![i] = {clock + 1}]
  BY SavePipelineAssumption DEF Insert, TableOK, Texts
<1>2. rows \in Partial(RowSet) /\ row \in RowSet
  BY <1>1 DEF TableOK, RowSet
<1> HIDE DEF row
<1>3. /\ rows' \in Partial(RowSet)
      /\ DOMAIN rows' = DOMAIN rows \cup {i}
      /\ rows'[i] = row
      /\ \A j \in DOMAIN rows : j # i => rows'[j] = rows[j]
  BY <1>1, <1>2, PutPartial
<1>4. last' \in 0..MaxRows /\ clock' \in 0..MaxTexts /\ last \in Nat
  BY <1>1, SavePipelineAssumption DEF TableOK, Ids, Texts
<1>5. texts' \in [Ids -> SUBSET Texts] /\ texts'[i] = {clock + 1}
      /\ \A j \in Ids : j # i => texts'[j] = texts[j]
  BY <1>1 DEF TableOK
<1>6. Grown
  BY <1>1, <1>4, <1>5 DEF Grown, Ids
<1>7. \A j \in DOMAIN rows' : Had(j, rows[j].text)'
  <2>1. Had(i, rows[i].text)'
    BY <1>1, <1>3, <1>4, <1>5 DEF Had, row
  <2>2. ASSUME NEW j \in DOMAIN rows, j # i PROVE Had(j, rows[j].text)'
    BY <1>1, <1>3, <1>4, <1>5, <2>2 DEF Had, TableOK, Ids
  <2> QED BY <1>3, <2>1, <2>2
<1> QED BY <1>3, <1>4, <1>5, <1>6, <1>7 DEF TableOK

LEMMA RewriteStep ==
    ASSUME TableOK, NEW i \in DOMAIN rows, Rewrite(i), enabled' = enabled
    PROVE  TableOK' /\ Grown /\ DOMAIN rows' = DOMAIN rows
<1>1. /\ last' = last /\ clock' = clock + 1 /\ clock + 1 \in Texts
      /\ rows' = [rows EXCEPT ![i].text = clock + 1]
      /\ texts' = [texts EXCEPT ![i] = @ \cup {clock + 1}]
  BY SavePipelineAssumption DEF Rewrite, TableOK, Texts
<1>2. DOMAIN rows \subseteq Ids /\ rows \in [DOMAIN rows -> RowSet]
  BY PartialFun DEF TableOK
<1>3. /\ rows' \in [DOMAIN rows -> RowSet]
      /\ DOMAIN rows' = DOMAIN rows /\ rows'[i].text = clock + 1
      /\ \A j \in DOMAIN rows : j # i => rows'[j] = rows[j]
  BY <1>1, <1>2 DEF RowSet
<1>4. rows' \in Partial(RowSet)
  BY <1>2, <1>3, PartialFun
<1>5. /\ texts' \in [Ids -> SUBSET Texts] /\ clock + 1 \in texts'[i]
      /\ \A j \in Ids : texts[j] \subseteq texts'[j]
  BY <1>1, <1>2 DEF TableOK
<1>6. clock' \in 0..MaxTexts /\ last \in Nat
  BY <1>1, SavePipelineAssumption DEF TableOK, Texts
<1>7. \A j \in DOMAIN rows' : Had(j, rows[j].text)'
  BY <1>1, <1>3, <1>5 DEF TableOK, Had
<1> QED BY <1>1, <1>3, <1>4, <1>5, <1>6, <1>7 DEF TableOK, Grown

LEMMA TableStep == ASSUME TableOK, [Next]_vars PROVE TableOK' /\ Grown /\ enabled' = enabled
<1>1. enabled' = enabled
  BY DEF Next, Save, SaverStep, Stamp, StampAndReread, Mirror, QueueEmbed, QueueExtract, IndexGraph,
         Abandon, Update, SoftDelete, HardDelete, WorkerStep, Take, EmbedFails, InsertQuantized,
         InsertVector, ExtractorStep, TakeExtract, InsertFacts, ExtractFails, Pause, BulkStep,
         ClearMeta, SelectMissing, BulkQueue, BulkEnd, Reindex, Reextract, LoadEmbedder, Crash,
         vars, client
<1>2. last \in Nat
  BY DEF TableOK
<1>3. CASE UNCHANGED table
  BY <1>1, <1>2, <1>3 DEF table, TableOK, Grown, Had
<1>4. CASE \E s \in Savers : Save(s)
  <2>1. PICK i \in Ids : Insert(i) \/ (Live(i) /\ Rewrite(i)) \/ UNCHANGED table
    BY <1>4 DEF Save
  <2> QED BY <1>1, <1>3, <2>1, InsertStep, RewriteStep DEF Live, Exists
<1>5. CASE \E i \in Ids : Update(i)
  BY <1>1, <1>5, RewriteStep DEF Update, Live, Exists
<1>6. CASE \E i \in Ids : SoftDelete(i)
  <2>1. PICK i \in DOMAIN rows : rows' = [rows EXCEPT ![i].live = FALSE]
    BY <1>6 DEF SoftDelete, Live, Exists
  <2>2. UNCHANGED <<last, clock, texts>>
    BY <1>6 DEF SoftDelete
  <2>3. DOMAIN rows \subseteq Ids /\ rows \in [DOMAIN rows -> RowSet]
    BY PartialFun DEF TableOK
  <2>4. /\ DOMAIN rows' = DOMAIN rows /\ rows' \in [DOMAIN rows -> RowSet]
        /\ \A j \in DOMAIN rows : rows'[j].text = rows[j].text
    BY <2>1, <2>3 DEF RowSet
  <2>5. rows' \in Partial(RowSet)
    BY <2>3, <2>4, PartialFun
  <2> QED BY <1>1, <1>2, <2>2, <2>4, <2>5 DEF TableOK, Grown, Had
<1>7. CASE \E i \in Ids : HardDelete(i)
  <2>1. PICK i \in Ids : rows' = Drop(rows, i)
    BY <1>7 DEF HardDelete
  <2>2. UNCHANGED <<last, clock, texts>>
    BY <1>7 DEF HardDelete
  <2>3. rows \in Partial(RowSet)
    BY DEF TableOK
  <2> DEFINE fewer == Drop(rows, i)
  <2>4. /\ fewer \in Partial(RowSet) /\ DOMAIN fewer = DOMAIN rows \ {i}
        /\ \A j \in DOMAIN fewer : fewer[j] = rows[j]
    BY <2>3, DropPartial
  <2>5. rows' = fewer
    BY <2>1
  <2> HIDE DEF fewer
  <2>6. /\ rows' \in Partial(RowSet) /\ DOMAIN rows' \subseteq DOMAIN rows
        /\ \A j \in DOMAIN rows' : rows'[j] = rows[j]
    BY <2>4, <2>5
  <2> QED BY <1>1, <1>2, <2>2, <2>6 DEF TableOK, Grown, Had
<1>8. CASE \/ \E s \in Savers : SaverStep(s) \/ Abandon(s)
           \/ \E w \in EmbedWorkers : WorkerStep(w)
           \/ ExtractorStep \/ BulkStep \/ Reindex \/ Reextract \/ LoadEmbedder \/ Crash
           \/ UNCHANGED vars
  <2>1. UNCHANGED table
    BY <1>8
       DEF SaverStep, Stamp, StampAndReread, Mirror, QueueEmbed, QueueExtract, IndexGraph, Abandon,
           WorkerStep, Take, EmbedFails, InsertQuantized, InsertVector, ExtractorStep, TakeExtract,
           InsertFacts, ExtractFails, Pause, BulkStep, ClearMeta, SelectMissing, BulkQueue, BulkEnd,
           Reindex, Reextract, LoadEmbedder, Crash, vars, table
  <2> QED BY <1>3, <2>1
<1> QED BY <1>4, <1>5, <1>6, <1>7, <1>8 DEF Next

\* What a row has had, it has had for good.
LEMMA HadStays == ASSUME Grown, TableOK, TableOK', NEW i, NEW text, Had(i, text) PROVE Had(i, text)'
<1>1. i \in Nat /\ last \in Nat /\ last' \in Nat
  BY DEF Had, Ids, TableOK
<1> QED BY <1>1 DEF Grown, Had

LEMMA KnownStays == ASSUME Grown, TableOK, TableOK', NEW t, Known(t) PROVE Known(t)'
BY HadStays DEF Known

\* What the steps below may assume of the table.
Settled == Grown /\ TableOK /\ TableOK'

-----------------------------------------------------------------------------
(* Clients. *)

LEMMA ClientsStep == ASSUME PipelineInv, Settled, [Next]_vars PROVE ClientsOK'
<1> USE DEF PipelineInv, ClientsOK
<1>0. /\ DOMAIN rpc = Savers
      /\ \A t : Known(t) => Known(t)'
  BY KnownStays DEF Settled
<1>1. CASE rpc' = rpc
  <2>1. \A s \in Savers : rpc'[s] # Idle => Known(rpc[s].obs)'
    BY <1>0, <1>1
  <2> QED BY <1>0, <1>1, <2>1
<1>2. ASSUME NEW s \in Savers, NEW new,
             rpc' = [rpc EXCEPT ![s] = new],
             new # Idle => DOMAIN new = {"at", "obs"} /\ new.at \in Phases /\ Known(new.obs)'
      PROVE  ClientsOK'
  <2>1. DOMAIN rpc' = Savers /\ rpc'[s] = new /\ \A r \in Savers : r # s => rpc'[r] = rpc[r]
    BY <1>2
  <2>2. ASSUME NEW r \in Savers, rpc'[r] # Idle
        PROVE  DOMAIN rpc'[r] = {"at", "obs"} /\ rpc'[r].at \in Phases /\ Known(rpc[r].obs)'
    <3>1. CASE r = s
      <4>1. rpc'[r] = new
        BY <2>1, <3>1
      <4> QED BY <1>2, <2>2, <4>1
    <3>2. CASE r # s
      <4>1. rpc'[r] = rpc[r]
        BY <2>1, <3>2
      <4>2. Known(rpc[r].obs)'
        BY <1>0, <2>2, <4>1
      <4> QED BY <2>2, <4>1, <4>2
    <3> QED BY <3>1, <3>2
  <2> QED BY <2>1, <2>2
<1>3. ASSUME NEW s \in Savers, NEW from, NEW to, Step(s, from, to), from # "idle",
             to \in Phases \cup {"idle"}
      PROVE  ClientsOK'
  <2>1. rpc[s] # Idle
    BY <1>3 DEF Step, Idle
  <2>2. PICK new : new = IF to = "idle" THEN Idle ELSE [rpc[s] EXCEPT !.at = to]
    OBVIOUS
  <2>3. rpc' = [rpc EXCEPT ![s] = new]
    BY <1>3, <2>2 DEF Step
  <2>4. new # Idle => DOMAIN new = {"at", "obs"} /\ new.at \in Phases /\ new.obs = rpc[s].obs
    BY <1>3, <2>1, <2>2
  <2>5. new # Idle => Known(new.obs)'
    <3>1. PICK obs : obs = rpc[s].obs
      OBVIOUS
    <3>2. Known(obs)'
      BY <1>0, <2>1, <3>1
    <3> QED BY <2>4, <3>1, <3>2
  <2> QED BY <1>2, <2>3, <2>4, <2>5
<1>4. CASE \E s \in Savers : Save(s)
  <2>1. PICK s \in Savers : Save(s)
    BY <1>4
  <2>2. PICK i \in Ids :
          /\ Insert(i) \/ (Live(i) /\ Rewrite(i)) \/ (Exists(i) /\ UNCHANGED table)
          /\ rpc' = [rpc EXCEPT ![s] = [at |-> "saved", obs |-> [id |-> i, text |-> rows'[i].text]]]
    BY <2>1 DEF Save
  <2>3. i \in DOMAIN rows'
    BY <2>1, <2>2, InsertStep, RewriteStep DEF Save, Live, Exists, table, Settled
  <2>4. rows'[i].text \in Texts /\ Had(i, rows[i].text)'
    <3>1. TableOK'
      BY DEF Settled
    <3>2. rows' \in [DOMAIN rows' -> RowSet]
      BY <3>1, PartialFun DEF TableOK
    <3> QED BY <2>3, <3>1, <3>2 DEF TableOK, RowSet
  <2>5. PICK obs, new : obs = [id |-> i, text |-> rows'[i].text] /\ new = [at |-> "saved", obs |-> obs]
    OBVIOUS
  <2>6. Known(obs)'
    <3>1. obs \in Task /\ obs.id = i /\ obs.text = rows'[i].text
      BY <2>4, <2>5 DEF Task
    <3> QED BY <2>4, <3>1 DEF Known, Had
  <2>7. DOMAIN new = {"at", "obs"} /\ new.at \in Phases /\ new.obs = obs
    BY <2>5 DEF Phases
  <2>8. rpc' = [rpc EXCEPT ![s] = new]
    BY <2>2, <2>5
  <2>9. Known(new.obs)'
    BY <2>6, <2>7
  <2> QED BY <1>2, <2>7, <2>8, <2>9
<1>5. CASE \E s \in Savers : StampAndReread(s)
  <2>1. PICK s \in Savers : StampAndReread(s)
    BY <1>5
  <2>2. PICK i \in DOMAIN rows : i = rpc[s].obs.id
    BY <2>1 DEF StampAndReread, Live, Exists
  <2>3. PICK obs, new : obs = Snapshot(i) /\ new = [at |-> "stamped", obs |-> obs]
    OBVIOUS
  <2>4. Known(obs)
    <3>1. rows \in [DOMAIN rows -> RowSet] /\ Had(i, rows[i].text)
      BY PartialFun DEF TableOK
    <3> QED BY <2>3, <3>1 DEF Snapshot, Known, Task, Had, RowSet
  <2>5. DOMAIN new = {"at", "obs"} /\ new.at \in Phases /\ new.obs = obs
    BY <2>3 DEF Phases
  <2>6. rpc' = [rpc EXCEPT ![s] = new]
    BY <2>1, <2>2, <2>3 DEF StampAndReread
  <2>7. Known(new.obs)'
    BY <1>0, <2>4, <2>5
  <2> QED BY <1>2, <2>5, <2>6, <2>7
<1>6. CASE \E s \in Savers : Stamp(s) \/ Mirror(s) \/ QueueEmbed(s) \/ QueueExtract(s)
                             \/ IndexGraph(s) \/ Abandon(s)
  BY <1>3, <1>6 DEF Stamp, Mirror, QueueEmbed, QueueExtract, IndexGraph, Abandon, Phases
<1>7. CASE Crash
  BY <1>7 DEF Crash
<1>8. CASE \/ \E i \in Ids : Update(i) \/ SoftDelete(i) \/ HardDelete(i)
           \/ \E w \in EmbedWorkers : WorkerStep(w)
           \/ ExtractorStep \/ BulkStep \/ Reindex \/ Reextract \/ LoadEmbedder \/ UNCHANGED vars
  <2>1. rpc' = rpc
    BY <1>8
       DEF Update, SoftDelete, HardDelete, WorkerStep, Take, EmbedFails, InsertQuantized, InsertVector,
           ExtractorStep, TakeExtract, InsertFacts, ExtractFails, Pause, BulkStep, ClearMeta,
           SelectMissing, BulkQueue, BulkEnd, Reindex, Reextract, LoadEmbedder, vars, client
  <2> QED BY <1>1, <2>1
<1> QED BY <1>4, <1>5, <1>6, <1>7, <1>8 DEF Next, SaverStep

-----------------------------------------------------------------------------
(* Queues. *)

LEMMA TryQueueOK ==
    ASSUME NEW queue, QueueOK(queue), NEW t, Known(t)
    PROVE  QueueOK(TryQueue(queue, t))
<1>1. CASE Len(queue) < QueueCapacity
  <2>1. queue \in Seq(Task) /\ t \in Task /\ Len(queue) \in Nat
    BY LenProperties DEF QueueOK, Known
  <2>2. /\ Append(queue, t) \in Seq(Task) /\ Len(Append(queue, t)) = Len(queue) + 1
        /\ \A n \in 1..Len(queue) : Append(queue, t)[n] = queue[n]
        /\ Append(queue, t)[Len(queue) + 1] = t
    BY <2>1, AppendProperties
  <2>3. Len(queue) + 1 <= QueueCapacity
    BY <1>1, <2>1, SavePipelineAssumption
  <2>4. \A n \in 1..(Len(queue) + 1) : n \in 1..Len(queue) \/ n = Len(queue) + 1
    BY <2>1
  <2>5. \A n \in 1..(Len(queue) + 1) : Known(Append(queue, t)[n])
    BY <2>2, <2>4 DEF QueueOK
  <2>6. TryQueue(queue, t) = Append(queue, t)
    BY <1>1 DEF TryQueue
  <2> QED BY <2>2, <2>3, <2>5, <2>6 DEF QueueOK
<1>2. CASE ~(Len(queue) < QueueCapacity)
  BY <1>2 DEF TryQueue
<1> QED BY <1>1, <1>2

LEMMA TakenIsKnown ==
    ASSUME NEW queue, QueueOK(queue), queue # << >>
    PROVE  Known(Head(queue)) /\ QueueOK(Tail(queue))
<1>1. queue \in Seq(Task) /\ Len(queue) \in Nat \ {0}
  BY LenProperties, EmptySeq DEF QueueOK
<1>2. /\ Head(queue) = queue[1] /\ Tail(queue) \in Seq(Task) /\ Len(Tail(queue)) = Len(queue) - 1
      /\ \A n \in 1..Len(Tail(queue)) : Tail(queue)[n] = queue[n + 1]
  BY <1>1, HeadTailProperties
<1>3. \A n \in 1..(Len(queue) - 1) : n + 1 \in 1..Len(queue)
  BY <1>1
<1>4. \A n \in 1..Len(Tail(queue)) : Known(Tail(queue)[n])
  BY <1>2, <1>3 DEF QueueOK
<1>5. Known(Head(queue))
  BY <1>1, <1>2 DEF QueueOK
<1>6. Len(Tail(queue)) <= QueueCapacity
  BY <1>1, <1>2, SavePipelineAssumption DEF QueueOK
<1> QED BY <1>2, <1>4, <1>5, <1>6 DEF QueueOK

LEMMA QueueStays ==
    ASSUME Settled, NEW queue, QueueOK(queue)
    PROVE  /\ embedQ' = queue => QueueOK(embedQ)'
           /\ extractQ' = queue => QueueOK(extractQ)'
<1>1. \A n \in 1..Len(queue) : Known(queue[n])'
  BY KnownStays DEF Settled, QueueOK
<1> QED BY <1>1 DEF QueueOK

LEMMA QueuesStep == ASSUME PipelineInv, Settled, [Next]_vars PROVE QueuesOK'
<1> USE DEF PipelineInv, QueuesOK
<1>1. QueueOK(embedQ) /\ QueueOK(extractQ) /\ QueueOK(<< >>)
  <2>1. << >> \in Seq(Task) /\ Len(<< >>) = 0
    BY EmptySeq
  <2> QED BY <2>1, SavePipelineAssumption DEF QueueOK
<1>2. ASSUME NEW q, NEW r, QueueOK(q), QueueOK(r), embedQ' = q, extractQ' = r
      PROVE  QueuesOK'
  BY <1>2, QueueStays
<1>3. CASE \E s \in Savers : QueueEmbed(s) \/ QueueExtract(s)
  <2>1. PICK s \in Savers : QueueEmbed(s) \/ QueueExtract(s)
    BY <1>3
  <2>2. Known(rpc[s].obs)
    BY <2>1 DEF QueueEmbed, QueueExtract, Step, Idle, ClientsOK
  <2> QED BY <1>1, <1>2, <2>1, <2>2, TryQueueOK DEF QueueEmbed, QueueExtract
<1>4. CASE BulkQueue
  <2>1. PICK task \in bulk.todo :
          /\ embedQ' = IF bulk.at = "embed" THEN TryQueue(embedQ, task) ELSE embedQ
          /\ extractQ' = IF bulk.at = "extract" THEN TryQueue(extractQ, task) ELSE extractQ
    BY <1>4 DEF BulkQueue
  <2>2. Known(task)
    BY DEF BulkOK
  <2> QED BY <1>1, <1>2, <2>1, <2>2, TryQueueOK
<1>5. CASE \E w \in EmbedWorkers : Take(w)
  BY <1>1, <1>2, <1>5, TakenIsKnown DEF Take
<1>6. CASE TakeExtract
  BY <1>1, <1>2, <1>6, TakenIsKnown DEF TakeExtract
<1>7. CASE Crash
  BY <1>1, <1>2, <1>7 DEF Crash
<1>8. CASE embedQ' = embedQ /\ extractQ' = extractQ
  BY <1>1, <1>2, <1>8
<1>9. CASE \/ \E s \in Savers : \/ Save(s) \/ Stamp(s) \/ StampAndReread(s) \/ Mirror(s)
                                \/ IndexGraph(s) \/ Abandon(s)
           \/ \E i \in Ids : Update(i) \/ SoftDelete(i) \/ HardDelete(i)
           \/ \E w \in EmbedWorkers : EmbedFails(w) \/ InsertQuantized(w) \/ InsertVector(w)
           \/ InsertFacts \/ ExtractFails \/ Pause \/ ClearMeta \/ SelectMissing \/ BulkEnd
           \/ Reindex \/ Reextract \/ LoadEmbedder \/ UNCHANGED vars
  <2>1. embedQ' = embedQ /\ extractQ' = extractQ
    BY <1>9
       DEF Save, Stamp, StampAndReread, Mirror, IndexGraph, Abandon, Update, SoftDelete, HardDelete,
           EmbedFails, InsertQuantized, InsertVector, InsertFacts, ExtractFails, Pause, ClearMeta,
           SelectMissing, BulkEnd, Reindex, Reextract, LoadEmbedder, vars, queues
  <2> QED BY <1>8, <2>1
<1> QED BY <1>3, <1>4, <1>5, <1>6, <1>7, <1>9 DEF Next, SaverStep, WorkerStep, ExtractorStep, BulkStep

-----------------------------------------------------------------------------
(* A running reindex or reextract. *)

LEMMA BulkStepOK == ASSUME PipelineInv, Settled, [Next]_vars PROVE BulkOK'
<1> USE DEF PipelineInv, BulkOK
<1> DEFINE Ats == {"none", "clear_meta", "select", "embed", "extract"}
<1>1. ASSUME NEW at \in Ats, NEW todo, \A t \in todo : Known(t), SetBulk(at, todo)
      PROVE  BulkOK'
  <2>1. todo \subseteq Task /\ \A t \in todo : Known(t)'
    BY <1>1, KnownStays DEF Known, Settled
  <2> QED BY <1>1, <2>1 DEF SetBulk
<1>2. ASSUME NEW S, S \subseteq DOMAIN rows
      PROVE  \A t \in Snapshots(S) : Known(t)
  <2>1. \A i \in DOMAIN rows : rows[i] \in RowSet /\ Had(i, rows[i].text)
    BY PartialFun DEF TableOK
  <2> QED BY <1>2, <2>1 DEF Snapshots, Snapshot, Known, Task, Had, RowSet
<1>3. CASE bulk' = NoBulk
  BY <1>1, <1>3 DEF NoBulk, SetBulk
<1>4. CASE bulk' = bulk
  <2>1. \A t \in bulk.todo : Known(t)'
    BY KnownStays DEF Settled
  <2> QED BY <1>4, <2>1
<1>5. CASE Reindex \/ ClearMeta
  BY <1>1, <1>5 DEF Reindex, ClearMeta
<1>6. CASE SelectMissing
  <2> DEFINE S == {i \in Ids : Live(i) /\ i \notin DOMAIN meta}
  <2>1. S \subseteq DOMAIN rows /\ SetBulk("embed", Snapshots(S))
    BY <1>6 DEF SelectMissing, Live, Exists
  <2> HIDE DEF S
  <2> QED BY <1>1, <1>2, <2>1
<1>7. CASE Reextract
  <2>1. PICK all \in BOOLEAN :
          SetBulk("extract", Snapshots({i \in Ids : Live(i) /\ (all \/ \A f \in facts : f[1] # i)}))
    BY <1>7 DEF Reextract
  <2> DEFINE S == {i \in Ids : Live(i) /\ (all \/ \A f \in facts : f[1] # i)}
  <2>2. S \subseteq DOMAIN rows /\ SetBulk("extract", Snapshots(S))
    BY <2>1 DEF Live, Exists
  <2> HIDE DEF S
  <2> QED BY <1>1, <1>2, <2>2
<1>8. CASE BulkQueue
  <2>1. PICK task \in bulk.todo : SetBulk(bulk.at, bulk.todo \ {task})
    BY <1>8 DEF BulkQueue
  <2>2. bulk.at \in Ats
    OBVIOUS
  <2> HIDE DEF Ats
  <2> QED BY <1>1, <2>1, <2>2
<1>9. CASE BulkEnd \/ Crash
  BY <1>3, <1>9 DEF BulkEnd, Crash
<1>10. CASE \/ \E s \in Savers : Save(s) \/ SaverStep(s) \/ Abandon(s)
            \/ \E i \in Ids : Update(i) \/ SoftDelete(i) \/ HardDelete(i)
            \/ \E w \in EmbedWorkers : WorkerStep(w)
            \/ ExtractorStep \/ LoadEmbedder \/ UNCHANGED vars
  <2>1. bulk' = bulk
    BY <1>10
       DEF Save, SaverStep, Stamp, StampAndReread, Mirror, QueueEmbed, QueueExtract, IndexGraph,
           Abandon, Update, SoftDelete, HardDelete, WorkerStep, Take, EmbedFails, InsertQuantized,
           InsertVector, ExtractorStep, TakeExtract, InsertFacts, ExtractFails, Pause, LoadEmbedder,
           vars, queues
  <2> QED BY <1>4, <2>1
<1> QED BY <1>5, <1>6, <1>7, <1>8, <1>9, <1>10 DEF Next, BulkStep

-----------------------------------------------------------------------------
(* Workers. *)

LEMMA WorkersStep == ASSUME PipelineInv, Settled, [Next]_vars PROVE WorkersOK'
<1> USE DEF PipelineInv
<1> DEFINE Embedder == [task : Task \cup {None}, failed : 0..Retries]
           Extracter == [task : Task \cup {None}, failed : 0..RateLimit]
           WorkerOK(x) == x \in Embedder /\ (x # Free => Known(x.task))
           ExtractorOK(x) == /\ x \in Extracter
                             /\ x.task # None => Known(x.task) /\ x.failed < RateLimit
<1>1. /\ worker \in [EmbedWorkers -> Embedder] /\ \A w \in EmbedWorkers : WorkerOK(worker[w])
      /\ ExtractorOK(extractor)
  BY DEF WorkersOK
<1>2. \A t : Known(t) => Known(t)'
  BY KnownStays DEF Settled
<1>3. WorkerOK(Free) /\ ExtractorOK(Free)
  BY SavePipelineAssumption DEF Free
<1>4. ASSUME NEW w \in EmbedWorkers, NEW x, WorkerOK(x), worker' = [worker EXCEPT ![w] = x],
             NEW y, ExtractorOK(y), extractor' = y
      PROVE  WorkersOK'
  <2>1. /\ worker' \in [EmbedWorkers -> Embedder]
        /\ \A v \in EmbedWorkers : worker'[v] = IF v = w THEN x ELSE worker[v]
    <3>1. x \in Embedder
      BY <1>4
    <3> HIDE DEF Embedder
    <3> QED BY <1>1, <1>4, <3>1
  <2>2. \A v \in EmbedWorkers : worker'[v] # Free => Known(worker[v].task)'
    <3>1. x # Free => Known(x.task)'
      BY <1>2, <1>4
    <3>2. \A v \in EmbedWorkers : worker[v] # Free => \A t : t = worker[v].task => Known(t)'
      BY <1>1, <1>2
    <3>3. \A v \in EmbedWorkers : \A t : t = worker'[v].task /\ Known(t)' => Known(worker[v].task)'
      OBVIOUS
    <3> QED BY <2>1, <3>1, <3>2, <3>3
  <2>3. /\ extractor' \in Extracter
        /\ extractor'.task # None => Known(extractor.task)' /\ extractor'.failed < RateLimit
    BY <1>2, <1>4
  <2> QED BY <2>1, <2>2, <2>3 DEF WorkersOK
<1>5. ASSUME UNCHANGED worker, NEW y, ExtractorOK(y), extractor' = y
      PROVE  WorkersOK'
  <2>1. \A v \in EmbedWorkers : worker[v] # Free => \A t : t = worker[v].task => Known(t)'
    BY <1>1, <1>2
  <2>2. \A v \in EmbedWorkers : worker'[v] # Free => Known(worker[v].task)'
    BY <1>5, <2>1
  <2>3. /\ extractor' \in Extracter
        /\ extractor'.task # None => Known(extractor.task)' /\ extractor'.failed < RateLimit
    BY <1>2, <1>5
  <2> QED BY <1>1, <1>5, <2>2, <2>3 DEF WorkersOK
<1>6. ASSUME NEW w \in EmbedWorkers, worker[w] # Free, Retry(w) \/ SetWorker(w, None, 0),
             UNCHANGED extractor
      PROVE  WorkersOK'
  <2> DEFINE again == [task |-> worker[w].task, failed |-> worker[w].failed + 1]
  <2>1. \/ worker' = [worker EXCEPT ![w] = again] /\ worker[w].failed < Retries
        \/ worker' = [worker EXCEPT ![w] = Free]
    BY <1>6 DEF Retry, SetWorker, Free
  <2>2. worker[w].failed < Retries => WorkerOK(again)
    <3>1. Known(worker[w].task) /\ worker[w].failed \in 0..Retries /\ Retries \in Nat
      BY <1>1, <1>6, SavePipelineAssumption
    <3> QED BY <3>1 DEF Known
  <2> HIDE DEF again, WorkerOK, ExtractorOK
  <2> QED BY <1>1, <1>3, <1>4, <1>6, <2>1, <2>2
<1>7. CASE \E w \in EmbedWorkers : Take(w)
  <2>1. PICK w \in EmbedWorkers : Take(w)
    BY <1>7
  <2> DEFINE x == [task |-> Head(embedQ), failed |-> 0]
  <2>2. worker' = [worker EXCEPT ![w] = x] /\ UNCHANGED extractor /\ Known(Head(embedQ))
    BY <2>1, TakenIsKnown DEF Take, SetWorker, QueuesOK
  <2>3. WorkerOK(x)
    BY <2>2, SavePipelineAssumption DEF Known
  <2> HIDE DEF x, WorkerOK, ExtractorOK
  <2> QED BY <1>1, <1>4, <2>2, <2>3
<1>8. CASE \E w \in EmbedWorkers : EmbedFails(w) \/ InsertQuantized(w) \/ InsertVector(w)
  BY <1>6, <1>8 DEF EmbedFails, InsertQuantized, InsertVector
<1>9. CASE TakeExtract
  <2> DEFINE y == [extractor EXCEPT !.task = Head(extractQ)]
  <2>1. extractor' = y /\ UNCHANGED worker /\ extractor.failed < RateLimit /\ Known(Head(extractQ))
    BY <1>9, TakenIsKnown DEF TakeExtract, QueuesOK
  <2>2. ExtractorOK(y)
    BY <1>1, <2>1 DEF Known
  <2> HIDE DEF y, ExtractorOK
  <2> QED BY <1>5, <2>1, <2>2
<1>10. CASE InsertFacts \/ ExtractFails \/ Pause
  <2>1. UNCHANGED worker /\ (extractor' = Free
          \/ (extractor.task # None /\ extractor' = [task |-> None, failed |-> extractor.failed + 1]))
    BY <1>10 DEF InsertFacts, ExtractFails, Pause
  <2> DEFINE y == [task |-> None, failed |-> extractor.failed + 1]
  <2>2. extractor.task # None => ExtractorOK(y)
    BY <1>1, SavePipelineAssumption
  <2> HIDE DEF y, ExtractorOK
  <2> QED BY <1>3, <1>5, <2>1, <2>2 DEF y
<1>11. CASE Crash
  <2>1. worker' = [w \in EmbedWorkers |-> Free] /\ extractor' = Free
    BY <1>11 DEF Crash
  <2>2. \A w \in EmbedWorkers : worker'[w] = Free
    BY <2>1
  <2>3. extractor'.task = None
    BY <2>1 DEF Free
  <2>4. worker' \in [EmbedWorkers -> Embedder] /\ extractor' \in Extracter
    BY <1>3, <2>1
  <2> QED BY <2>2, <2>3, <2>4 DEF WorkersOK
<1>12. CASE worker' = worker /\ extractor' = extractor
  <2> HIDE DEF ExtractorOK
  <2> QED BY <1>1, <1>5, <1>12
<1>13. CASE \/ \E s \in Savers : Save(s) \/ SaverStep(s) \/ Abandon(s)
            \/ \E i \in Ids : Update(i) \/ SoftDelete(i) \/ HardDelete(i)
            \/ BulkStep \/ Reindex \/ Reextract \/ LoadEmbedder \/ UNCHANGED vars
  <2>1. worker' = worker /\ extractor' = extractor
    BY <1>13
       DEF Save, SaverStep, Stamp, StampAndReread, Mirror, QueueEmbed, QueueExtract, IndexGraph,
           Abandon, Update, SoftDelete, HardDelete, BulkStep, ClearMeta, SelectMissing, BulkQueue,
           BulkEnd, Reindex, Reextract, LoadEmbedder, vars, queues
  <2> QED BY <1>12, <2>1
<1> QED BY <1>7, <1>8, <1>9, <1>10, <1>11, <1>13 DEF Next, WorkerStep, ExtractorStep

-----------------------------------------------------------------------------
(* What is derived from the rows. *)

LEMMA TextsStay == ASSUME Settled, NEW f, TextsOK(f)
                   PROVE  (vec' = f => TextsOK(vec)') /\ (mirror' = f => TextsOK(mirror)')
BY HadStays DEF Settled, TextsOK

LEMMA MetaStays == ASSUME Settled, NEW f, MetaOK(f), meta' = f PROVE MetaOK(meta)'
BY HadStays DEF Settled, MetaOK

LEMMA NotesStay == ASSUME Settled, NEW S, NotesOK(S)
                   PROVE  (facts' = S => NotesOK(facts)') /\ (mentions' = S => NotesOK(mentions)')
BY HadStays DEF Settled, NotesOK

\* What is written from a task that is known, and what is removed, leaves the tables sound.
LEMMA WrittenIsOwn ==
    ASSUME NEW t, Known(t)
    PROVE  /\ \A f : TextsOK(f) => TextsOK(Put(f, t.id, t.text))
           /\ \A f, q : MetaOK(f) /\ q \in BOOLEAN =>
                           MetaOK(Put(f, t.id, [text |-> t.text, quantized |-> q]))
           /\ \A S : NotesOK(S) => NotesOK(S \cup {<<t.id, t.text>>})
<1>1. t.id \in Ids /\ t.text \in Texts /\ Had(t.id, t.text)
  BY DEF Known, Task
<1>i. PICK i \in Ids : i = t.id
  BY <1>1
<1>x. PICK x \in Texts : x = t.text
  BY <1>1
<1>2. ASSUME NEW f, TextsOK(f) PROVE TextsOK(Put(f, t.id, t.text))
  <2> DEFINE g == Put(f, i, x)
  <2>1. f \in Partial(Texts)
    BY <1>2 DEF TextsOK
  <2>2. /\ g \in Partial(Texts) /\ DOMAIN g = DOMAIN f \cup {i} /\ g[i] = x
        /\ \A j \in DOMAIN f : j # i => g[j] = f[j]
    <3>1. g \in Partial(Texts)
      BY <2>1, PutPartial
    <3>2. DOMAIN g = DOMAIN f \cup {i} /\ g[i] = x /\ \A j \in DOMAIN f : j # i => g[j] = f[j]
      BY DEF Put
    <3> QED BY <3>1, <3>2
  <2> HIDE DEF g
  <2>3. TextsOK(g)
    BY <1>1, <1>2, <1>i, <1>x, <2>2 DEF TextsOK
  <2> QED BY <1>i, <1>x, <2>3 DEF g
<1>3. ASSUME NEW f, NEW q \in BOOLEAN, MetaOK(f)
      PROVE  MetaOK(Put(f, t.id, [text |-> t.text, quantized |-> q]))
  <2> DEFINE m == [text |-> x, quantized |-> q]
             g == Put(f, i, m)
  <2>1. f \in Partial(MetaSet) /\ m \in MetaSet /\ m.text = x
    BY <1>3 DEF MetaOK, MetaSet
  <2> HIDE DEF m
  <2>2. /\ g \in Partial(MetaSet) /\ DOMAIN g = DOMAIN f \cup {i} /\ g[i] = m
        /\ \A j \in DOMAIN f : j # i => g[j] = f[j]
    <3>1. g \in Partial(MetaSet)
      BY <2>1, PutPartial
    <3>2. DOMAIN g = DOMAIN f \cup {i} /\ g[i] = m /\ \A j \in DOMAIN f : j # i => g[j] = f[j]
      BY DEF Put
    <3> QED BY <3>1, <3>2
  <2> HIDE DEF g
  <2>3. MetaOK(g)
    BY <1>1, <1>3, <1>i, <1>x, <2>1, <2>2 DEF MetaOK
  <2> QED BY <1>i, <1>x, <2>3 DEF g, m
<1>4. ASSUME NEW S, NotesOK(S) PROVE NotesOK(S \cup {<<t.id, t.text>>})
  BY <1>1, <1>4 DEF NotesOK
<1> QED BY <1>2, <1>3, <1>4

LEMMA DroppedIsOwn ==
    ASSUME NEW i
    PROVE  /\ \A f : TextsOK(f) => TextsOK(Drop(f, i))
           /\ \A f : MetaOK(f) => MetaOK(Drop(f, i))
<1>1. ASSUME NEW f, TextsOK(f) PROVE TextsOK(Drop(f, i))
  <2> DEFINE g == Drop(f, i)
  <2>1. g \in Partial(Texts) /\ DOMAIN g = DOMAIN f \ {i} /\ \A j \in DOMAIN g : g[j] = f[j]
    BY <1>1, DropPartial DEF TextsOK
  <2> HIDE DEF g
  <2>2. TextsOK(g)
    BY <1>1, <2>1 DEF TextsOK
  <2> QED BY <2>2 DEF g
<1>2. ASSUME NEW f, MetaOK(f) PROVE MetaOK(Drop(f, i))
  <2> DEFINE g == Drop(f, i)
  <2>1. g \in Partial(MetaSet) /\ DOMAIN g = DOMAIN f \ {i} /\ \A j \in DOMAIN g : g[j] = f[j]
    BY <1>2, DropPartial DEF MetaOK
  <2> HIDE DEF g
  <2>2. MetaOK(g)
    BY <1>2, <2>1 DEF MetaOK
  <2> QED BY <2>2 DEF g
<1> QED BY <1>1, <1>2

LEMMA DerivedStep == ASSUME PipelineInv, Settled, [Next]_vars PROVE DerivedOK'
<1> USE DEF PipelineInv, DerivedOK
<1>1. TextsOK(<< >>) /\ MetaOK(<< >>)
  BY EmptyPartial DEF TextsOK, MetaOK
<1>2. /\ vec' = vec => TextsOK(vec)'
      /\ meta' = meta => MetaOK(meta)'
      /\ mirror' = mirror => TextsOK(mirror)'
      /\ facts' = facts => NotesOK(facts)'
      /\ mentions' = mentions => NotesOK(mentions)'
  BY TextsStay, MetaStays, NotesStay
<1>3. CASE \E i \in Ids : HardDelete(i)
  <2>1. PICK i \in Ids : HardDelete(i)
    BY <1>3
  <2>2. TextsOK(Drop(vec, i)) /\ MetaOK(Drop(meta, i)) /\ NotesOK({f \in facts : f[1] # i})
    BY DroppedIsOwn DEF NotesOK
  <2> QED BY <1>2, <2>1, <2>2, TextsStay, MetaStays, NotesStay DEF HardDelete
<1>4. CASE \E s \in Savers : Mirror(s)
  <2>1. PICK s \in Savers : Mirror(s)
    BY <1>4
  <2>2. Known(rpc[s].obs)
    BY <2>1 DEF Mirror, Step, Idle, ClientsOK
  <2>3. mirror' = mirror \/ mirror' = Put(mirror, rpc[s].obs.id, rpc[s].obs.text)
    BY <2>1 DEF Mirror
  <2>4. TextsOK(mirror)'
    BY <1>2, <2>2, <2>3, TextsStay, WrittenIsOwn
  <2> QED BY <1>2, <2>1, <2>4 DEF Mirror
<1>5. CASE \E s \in Savers : IndexGraph(s)
  <2>1. PICK s \in Savers : IndexGraph(s)
    BY <1>5
  <2>2. Known(rpc[s].obs)
    BY <2>1 DEF IndexGraph, Step, Idle, ClientsOK
  <2>3. mentions' = mentions \/ mentions' = mentions \cup {<<rpc[s].obs.id, rpc[s].obs.text>>}
    BY <2>1 DEF IndexGraph
  <2>4. NotesOK(mentions)'
    BY <1>2, <2>2, <2>3, NotesStay, WrittenIsOwn
  <2> QED BY <1>2, <2>1, <2>4 DEF IndexGraph
<1>6. CASE Reindex \/ ClearMeta
  <2>1. (vec' = vec \/ vec' = << >>) /\ (meta' = meta \/ meta' = << >>)
        /\ UNCHANGED <<facts, mentions, mirror>>
    BY <1>6 DEF Reindex, ClearMeta
  <2> QED BY <1>1, <1>2, <2>1, TextsStay, MetaStays
<1>7. CASE \E w \in EmbedWorkers : InsertQuantized(w) \/ InsertVector(w)
  <2>1. PICK w \in EmbedWorkers : InsertQuantized(w) \/ InsertVector(w)
    BY <1>7
  <2>2. Known(worker[w].task) /\ UNCHANGED <<facts, mentions, mirror>>
    BY <2>1 DEF InsertQuantized, InsertVector, WorkersOK
  <2>3. PICK t : t = worker[w].task
    OBVIOUS
  <2>4. /\ vec' = vec \/ vec' = Put(vec, t.id, t.text)
        /\ meta' = meta \/ \E q \in BOOLEAN : meta' = Put(meta, t.id, [text |-> t.text, quantized |-> q])
    BY <2>1, <2>3 DEF InsertQuantized, InsertVector
  <2>5. TextsOK(vec)'
    BY <1>2, <2>2, <2>3, <2>4, TextsStay, WrittenIsOwn
  <2>6. MetaOK(meta)'
    BY <1>2, <2>2, <2>3, <2>4, MetaStays, WrittenIsOwn
  <2> QED BY <1>2, <2>2, <2>5, <2>6
<1>8. CASE InsertFacts
  <2>1. /\ Known(extractor.task) /\ UNCHANGED <<vec, meta, mentions, mirror>>
        /\ facts' = facts \/ facts' = facts \cup {<<extractor.task.id, extractor.task.text>>}
    BY <1>8 DEF InsertFacts, AddFacts, WorkersOK
  <2>2. NotesOK(facts)'
    BY <1>2, <2>1, NotesStay, WrittenIsOwn
  <2> QED BY <1>2, <2>1, <2>2
<1>9. CASE \/ \E s \in Savers : \/ Save(s) \/ Stamp(s) \/ StampAndReread(s) \/ QueueEmbed(s)
                                \/ QueueExtract(s) \/ Abandon(s)
           \/ \E i \in Ids : Update(i) \/ SoftDelete(i)
           \/ \E w \in EmbedWorkers : Take(w) \/ EmbedFails(w)
           \/ TakeExtract \/ ExtractFails \/ Pause \/ SelectMissing \/ BulkQueue \/ BulkEnd
           \/ Reextract \/ LoadEmbedder \/ Crash \/ UNCHANGED vars
  <2>1. UNCHANGED derived
    BY <1>9
       DEF Save, Stamp, StampAndReread, QueueEmbed, QueueExtract, Abandon, Update, SoftDelete, Take,
           EmbedFails, TakeExtract, ExtractFails, Pause, SelectMissing, BulkQueue, BulkEnd, Reextract,
           LoadEmbedder, Crash, vars
  <2> QED BY <1>2, <2>1 DEF derived
<1> QED BY <1>3, <1>4, <1>5, <1>6, <1>7, <1>8, <1>9
        DEF Next, SaverStep, WorkerStep, ExtractorStep, BulkStep

-----------------------------------------------------------------------------
(* Meta rows and vectors. *)

LEMMA PairsStep == ASSUME PipelineInv, Settled, enabled' = enabled, [Next]_vars PROVE PairsOK'
<1> USE DEF PipelineInv, PairsOK
<1> DEFINE quantize == "quantize" \in enabled
<1>1. DOMAIN vec \subseteq Ids /\ DOMAIN meta \subseteq Ids /\ vec \in Partial(Texts)
      /\ meta \in Partial(MetaSet)
  BY PartialFun DEF DerivedOK, TextsOK, MetaOK
<1>2. CASE UNCHANGED <<vec, meta, torn>> /\ (WriteThreadFree' => WriteThreadFree)
  BY <1>2
<1>3. CASE \E i \in Ids : HardDelete(i)
  <2>1. PICK i \in Ids : vec' = Drop(vec, i) /\ meta' = Drop(meta, i)
    BY <1>3 DEF HardDelete
  <2>2. UNCHANGED <<torn, bulk>>
    BY <1>3 DEF HardDelete, bounds, queues
  <2>3. /\ DOMAIN vec' = DOMAIN vec \ {i} /\ DOMAIN meta' = DOMAIN meta \ {i}
        /\ \A j \in DOMAIN meta' : meta'[j] = meta[j]
    BY <2>1 DEF Drop, Restrict
  <2> QED BY <2>2, <2>3 DEF WriteThreadFree
<1>4. CASE Reindex
  <2>1. UNCHANGED <<meta, torn>> /\ (UNCHANGED vec \/ bulk'.at = "clear_meta") /\ WriteThreadFree
    BY <1>4 DEF Reindex, SetBulk, NoBulk, WriteThreadFree
  <2> QED BY <2>1 DEF WriteThreadFree
<1>5. CASE ClearMeta
  <2>1. meta' = << >>
    BY <1>5 DEF ClearMeta
  <2>2. DOMAIN meta' = {}
    BY <2>1, EmptyPartial
  <2> QED BY <2>2
<1>6. CASE \E w \in EmbedWorkers : InsertQuantized(w) \/ InsertVector(w)
  <2>1. PICK w \in EmbedWorkers : InsertQuantized(w) \/ InsertVector(w)
    BY <1>6
  <2>2. PICK t : t = worker[w].task
    OBVIOUS
  <2>3. Known(t) /\ t.id \in Ids /\ t.text \in Texts
    BY <2>1, <2>2 DEF InsertQuantized, InsertVector, WorkersOK, Known, Task
  <2>4. UNCHANGED <<torn, bulk>>
    BY <2>1 DEF InsertQuantized, InsertVector, bounds
  <2>5. DOMAIN vec' = DOMAIN vec \/ DOMAIN vec' = DOMAIN vec \cup {t.id}
    BY <2>1, <2>2 DEF InsertQuantized, InsertVector, Put
  <2>6. \/ meta' = meta
        \/ /\ meta' = Put(meta, t.id, [text |-> t.text, quantized |-> quantize])
           /\ quantize \/ t.id \in DOMAIN vec'
    <3>1. CASE InsertQuantized(w)
      <4>1. quantize = TRUE
        BY <3>1 DEF InsertQuantized
      <4>2. meta' = meta \/ meta' = Put(meta, t.id, [text |-> t.text, quantized |-> TRUE])
        BY <2>2, <3>1 DEF InsertQuantized
      <4> HIDE DEF quantize
      <4> QED BY <4>1, <4>2
    <3>2. CASE InsertVector(w)
      <4>1. quantize = FALSE
        BY <3>2 DEF InsertVector
      <4>2. \/ meta' = meta
            \/ /\ meta' = Put(meta, t.id, [text |-> t.text, quantized |-> FALSE])
               /\ vec' = Put(vec, t.id, t.text)
        BY <2>2, <3>2 DEF InsertVector
      <4>3. t.id \in DOMAIN Put(vec, t.id, t.text)
        BY DEF Put
      <4> HIDE DEF quantize
      <4> QED BY <4>1, <4>2, <4>3
    <3> QED BY <2>1, <3>1, <3>2
  <2>7. CASE meta' = meta
    BY <2>4, <2>5, <2>7 DEF WriteThreadFree
  <2>8. CASE /\ meta' = Put(meta, t.id, [text |-> t.text, quantized |-> quantize])
             /\ quantize \/ t.id \in DOMAIN vec'
    <3>1. /\ DOMAIN meta' = DOMAIN meta \cup {t.id}
          /\ meta'[t.id].quantized = quantize
          /\ \A j \in DOMAIN meta : j # t.id => meta'[j] = meta[j]
      BY <2>8 DEF Put
    <3>2. \A i \in DOMAIN meta' : meta'[i].quantized <=> quantize
      BY <3>1
    <3> QED BY <2>4, <2>5, <2>8, <3>1, <3>2 DEF WriteThreadFree
  <2> QED BY <2>6, <2>7, <2>8
<1>7. CASE Crash
  <2>1. UNCHANGED <<vec, meta>> /\ (~torn' => ~torn /\ WriteThreadFree)
    BY <1>7 DEF Crash, derived
  <2> QED BY <2>1
<1>8. CASE \/ \E s \in Savers : Save(s) \/ SaverStep(s) \/ Abandon(s)
           \/ \E i \in Ids : Update(i) \/ SoftDelete(i)
           \/ \E w \in EmbedWorkers : Take(w) \/ EmbedFails(w)
           \/ ExtractorStep \/ LoadEmbedder \/ UNCHANGED vars
  <2>1. UNCHANGED <<vec, meta, torn, bulk>>
    BY <1>8
       DEF Save, SaverStep, Stamp, StampAndReread, Mirror, QueueEmbed, QueueExtract, IndexGraph,
           Abandon, Update, SoftDelete, Take, EmbedFails, ExtractorStep, TakeExtract, InsertFacts,
           ExtractFails, Pause, LoadEmbedder, vars, derived, bounds, queues
  <2> QED BY <1>2, <2>1 DEF WriteThreadFree
<1>9. CASE SelectMissing \/ BulkQueue \/ BulkEnd \/ Reextract
  <2>1. UNCHANGED <<vec, meta, torn>> /\ WriteThreadFree
    BY <1>9 DEF SelectMissing, BulkQueue, BulkEnd, Reextract, NoBulk, WriteThreadFree, derived, bounds
  <2> QED BY <1>2, <2>1
<1> QED BY <1>3, <1>4, <1>5, <1>6, <1>7, <1>8, <1>9 DEF Next, WorkerStep, BulkStep

-----------------------------------------------------------------------------

LEMMA PipelineInit == Init => PipelineInv
<1> SUFFICES ASSUME Init PROVE PipelineInv
  OBVIOUS
<1>1. /\ \A S : << >> \in Partial(S) /\ << >> \in Seq(S)
      /\ DOMAIN << >> = {} /\ Len(<< >>) = 0
  BY EmptyPartial, EmptySeq
<1>2. TableOK
  BY <1>1, SavePipelineAssumption DEF Init, TableOK
<1>3. ClientsOK
  BY DEF Init, ClientsOK
<1>4. QueuesOK
  BY <1>1, SavePipelineAssumption DEF Init, QueuesOK, QueueOK
<1>5. BulkOK
  BY DEF Init, BulkOK, NoBulk
<1>6. WorkersOK
  BY SavePipelineAssumption DEF Init, WorkersOK, Free
<1>7. DerivedOK
  BY <1>1 DEF Init, DerivedOK, TextsOK, MetaOK, NotesOK
<1>8. PairsOK
  BY <1>1 DEF Init, PairsOK
<1> QED BY <1>2, <1>3, <1>4, <1>5, <1>6, <1>7, <1>8 DEF PipelineInv

LEMMA PipelineInductive == PipelineInv /\ [Next]_vars => PipelineInv'
<1> SUFFICES ASSUME PipelineInv, [Next]_vars PROVE PipelineInv'
  OBVIOUS
<1>1. Settled /\ enabled' = enabled
  BY TableStep DEF PipelineInv, Settled
<1> QED BY <1>1, ClientsStep, QueuesStep, BulkStepOK, WorkersStep, DerivedStep, PairsStep
        DEF PipelineInv, Settled

\* However many clients, workers and rows there are, the invariant above holds: every task
\* and every derived row belongs to a row that had its text.
THEOREM PipelineInvariant == Spec => []PipelineInv
<1> QED BY PipelineInit, PipelineInductive, PTL DEF Spec

\* The state has its type.
THEOREM PipelineTypeCorrect == Spec => []TypeOK
<1>1. PipelineInv => TypeOK
  <2> SUFFICES ASSUME PipelineInv PROVE TypeOK
    OBVIOUS
  <2>1. /\ enabled \in Configs /\ rows \in Partial([text : Texts, live : BOOLEAN])
        /\ last \in 0..MaxRows /\ clock \in 0..MaxTexts /\ texts \in [Ids -> SUBSET Texts]
        /\ \A i \in DOMAIN rows : i <= last
    BY DEF PipelineInv, TableOK, Had, RowSet
  <2>2. \A s \in Savers : rpc[s].at # "idle" => rpc[s].obs \in Task
    BY DEF PipelineInv, ClientsOK, Idle, Known
  <2>3. /\ embedQ \in Seq(Task) /\ Len(embedQ) <= QueueCapacity
        /\ extractQ \in Seq(Task) /\ Len(extractQ) <= QueueCapacity
    BY DEF PipelineInv, QueuesOK, QueueOK
  <2>4. /\ \A w \in EmbedWorkers : worker[w] \in [task : Task \cup {None}, failed : 0..Retries]
        /\ extractor \in [task : Task \cup {None}, failed : 0..RateLimit]
    BY DEF PipelineInv, WorkersOK
  <2>5. /\ bulk.at \in {"none", "clear_meta", "select", "embed", "extract"}
        /\ bulk.todo \subseteq Task
    BY DEF PipelineInv, BulkOK
  <2>6. /\ vec \in Partial(Texts) /\ mirror \in Partial(Texts)
        /\ meta \in Partial([text : Texts, quantized : BOOLEAN])
        /\ facts \subseteq Ids \X Texts /\ mentions \subseteq Ids \X Texts
    BY DEF PipelineInv, DerivedOK, TextsOK, MetaOK, NotesOK, MetaSet
  <2> QED BY <2>1, <2>2, <2>3, <2>4, <2>5, <2>6 DEF TypeOK
<1> QED BY <1>1, PipelineInvariant, PTL

\* save_observation, the embed and extract workers, the entity graph and the mirror never
\* write what they computed from one row to a row that took its place, however late they are.
THEOREM DerivedRowsAreOwn == Spec => []DerivedFromOwnRow
<1>1. PipelineInv => DerivedFromOwnRow
  BY DEF PipelineInv, DerivedOK, TextsOK, MetaOK, NotesOK, Had, DerivedFromOwnRow
<1> QED BY <1>1, PipelineInvariant, PTL

\* A row that reindex takes for embedded is among the rows that search_dense looks at,
\* unless a forced reindex was cut short between its two DELETEs.
THEOREM EmbeddedRowsAreFound == Spec => []EmbeddedIsFound
<1>1. PipelineInv => EmbeddedIsFound
  BY DEF PipelineInv, PairsOK, EmbeddedIsFound, DenseHits
<1> QED BY <1>1, PipelineInvariant, PTL

==============================================================================
