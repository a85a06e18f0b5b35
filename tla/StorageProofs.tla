---------------------------- MODULE StorageProofs ----------------------------
(***************************************************************************)
(* What is proved of the storage of one project: of the write thread that  *)
(* runs its requests (WriteThread), of the observations table its handlers *)
(* keep (ObservationStore), and of the anchors of its rows (Anchors).      *)
(***************************************************************************)
EXTENDS WriteThread, ObservationStore, Anchors, SequenceTheorems, TLAPS

------------------------------------------------------------------------------
(***************************************************************************)
(* Safety of the write path for any set of requests, any channel capacity, *)
(* batch size and number of crashes: WriteInv is inductive, and with it     *)
(* type correctness, durability of acknowledged writes and absence of the   *)
(* writes of dropped requests.                                              *)
(***************************************************************************)

------------------------------------------------------------------------------
\* Sequences seen through their ranges.

\* The empty queue holds nothing.
LEMMA EmptyRange == Range(<<>>) = {} /\ IsInjective(<<>>)
BY DEF Range, IsInjective

\* Sending or collecting a request adds it, and keeps "at most once" when it
\* was not there.
LEMMA AppendRange ==
    ASSUME NEW S, NEW s \in Seq(S), NEW x \in S
    PROVE  /\ Append(s, x) \in Seq(S) /\ Append(s, x) # <<>>
           /\ Len(Append(s, x)) = Len(s) + 1
           /\ Range(Append(s, x)) = Range(s) \cup {x}
           /\ IsInjective(s) /\ x \notin Range(s) => IsInjective(Append(s, x))
<1> DEFINE t == Append(s, x)
<1>1. /\ t \in Seq(S) /\ t # <<>> /\ Len(t) = Len(s) + 1 /\ DOMAIN t = 1..(Len(s) + 1)
      /\ DOMAIN s = 1..Len(s) /\ Len(s) \in Nat
      /\ \A i \in 1..Len(s) : t[i] = s[i]
      /\ t[Len(s) + 1] = x
  OBVIOUS
<1> HIDE DEF t
<1>2. Range(t) = Range(s) \cup {x}
  <2>1. Range(t) \subseteq Range(s) \cup {x}
    BY <1>1 DEF Range
  <2>2. x \in Range(t)
    <3>1. Len(s) + 1 \in DOMAIN t
      BY <1>1
    <3> QED BY <3>1, <1>1 DEF Range
  <2>3. Range(s) \subseteq Range(t)
    <3>1. \A i \in DOMAIN s : i \in DOMAIN t /\ t[i] = s[i]
      BY <1>1
    <3> QED BY <3>1 DEF Range
  <2> QED BY <2>1, <2>2, <2>3
<1>3. IsInjective(s) /\ x \notin Range(s) => IsInjective(t)
  BY <1>1 DEF IsInjective, Range
<1> QED BY <1>1, <1>2, <1>3 DEF t

\* Taking the head of a queue removes it and nothing else.
LEMMA HeadTailRange ==
    ASSUME NEW S, NEW s \in Seq(S), s # <<>>
    PROVE  /\ Head(s) \in S /\ Tail(s) \in Seq(S) /\ Len(Tail(s)) = Len(s) - 1
           /\ Range(s) = Range(Tail(s)) \cup {Head(s)}
           /\ Head(s) \in Range(s)
           /\ IsInjective(s) => IsInjective(Tail(s)) /\ Head(s) \notin Range(Tail(s))
<1> DEFINE t == Tail(s)
<1>1. /\ Head(s) \in S /\ t \in Seq(S) /\ Len(t) = Len(s) - 1 /\ Len(s) \in Nat /\ Len(s) > 0
      /\ DOMAIN s = 1..Len(s) /\ DOMAIN t = 1..(Len(s) - 1)
      /\ \A i \in 1..(Len(s) - 1) : t[i] = s[i + 1]
      /\ Head(s) = s[1]
  BY HeadTailProperties
<1> HIDE DEF t
<1>2. Range(s) = Range(t) \cup {Head(s)}
  <2>1. \A i \in DOMAIN s : i = 1 \/ (i - 1 \in DOMAIN t /\ s[i] = t[i - 1])
    BY <1>1
  <2>2. \A i \in DOMAIN t : i + 1 \in DOMAIN s /\ t[i] = s[i + 1]
    BY <1>1
  <2>3. 1 \in DOMAIN s
    BY <1>1
  <2> QED BY <2>1, <2>2, <2>3, <1>1 DEF Range
<1>3. ASSUME IsInjective(s) PROVE IsInjective(t) /\ Head(s) \notin Range(t)
  <2>1. \A i \in DOMAIN t : i + 1 \in DOMAIN s /\ t[i] = s[i + 1] /\ i \in Nat /\ i > 0
    BY <1>1
  <2>2. 1 \in DOMAIN s /\ Head(s) = s[1]
    BY <1>1
  <2> QED BY <1>3, <2>1, <2>2 DEF Range, IsInjective
<1> QED BY <1>1, <1>2, <1>3 DEF t

\* A one-element batch.
LEMMA SingletonRange ==
    ASSUME NEW S, NEW x \in S
    PROVE  /\ <<x>> \in Seq(S) /\ Len(<<x>>) = 1 /\ <<x>> # <<>>
           /\ Range(<<x>>) = {x} /\ IsInjective(<<x>>)
BY DEF Range, IsInjective

\* Committing adds the transaction's writes to the database.
LEMMA ConcatRange ==
    ASSUME NEW S, NEW s \in Seq(S), NEW t \in Seq(S)
    PROVE  s \o t \in Seq(S) /\ Range(s \o t) = Range(s) \cup Range(t)
BY RangeConcatenation, ConcatProperties

------------------------------------------------------------------------------
\* WriteInv is inductive.

\* Nothing has been submitted, collected or written in the initial state.
LEMMA WriteInvInit == Init => WriteInv
<1> SUFFICES ASSUME Init PROVE WriteInv
  OBVIOUS
<1> USE EmptyRange, WriteThreadAssumption DEF Init
<1>1. TypeOK
  BY DEF TypeOK, Callers, Phases
<1>2. PendingUntouched /\ PendingOnce /\ HandledUncommitted /\ TxOfBatch
  BY DEF PendingUntouched, PendingOnce, HandledUncommitted, TxOfBatch, Pending, Handled
<1>3. OkClosuresRan /\ CommittedNotDisowned /\ AckedIsDurable /\ PhaseShape
  BY DEF OkClosuresRan, CommittedNotDisowned, AckedIsDurable, PhaseShape
<1> QED BY <1>1, <1>2, <1>3 DEF WriteInv

\* A caller that is not in flight owns nothing the thread or the database holds.
LEMMA NewcomerUnknown ==
    ASSUME WriteInv, NEW r \in Requests, caller[r] \in {"idle", "sending"}
    PROVE  r \notin Pending /\ r \notin Range(db) /\ r \notin Range(tx)
<1>1. r \notin Pending
  BY DEF WriteInv, PendingUntouched, Open
<1>2. r \notin Range(db)
  BY DEF WriteInv, CommittedNotDisowned
<1>3. r \notin Range(tx)
  <2>1. CASE phase = "drain"
    BY <2>1 DEF WriteInv, HandledUncommitted, TxOfBatch, Open
  <2>2. CASE phase # "drain"
    BY <2>2, EmptyRange DEF WriteInv, TxOfBatch
  <2> QED BY <2>1, <2>2
<1> QED BY <1>1, <1>2, <1>3

\* Steps of the callers.
LEMMA CallerStepInv == WriteInv /\ CallerNext => WriteInv'
<1> SUFFICES ASSUME WriteInv, NEW r \in Requests, Submit(r) \/ Enqueue(r) \/ Cancel(r)
             PROVE  WriteInv'
  BY DEF CallerNext
<1> USE DEF threadVars
<1>1. CASE Submit(r)
  <2> USE <1>1 DEF Submit
  <2>1. TypeOK'
    BY DEF WriteInv, TypeOK, Callers
  <2>2. r \notin Pending /\ r \notin Range(db) /\ r \notin Range(tx)
    BY NewcomerUnknown
  <2>3. PendingUntouched' /\ PendingOnce' /\ HandledUncommitted' /\ TxOfBatch'
    BY <2>2 DEF WriteInv, TypeOK, PendingUntouched, PendingOnce, HandledUncommitted,
                TxOfBatch, Pending, Handled, Open
  <2>4. OkClosuresRan' /\ CommittedNotDisowned' /\ AckedIsDurable' /\ PhaseShape'
    BY <2>2 DEF WriteInv, TypeOK, OkClosuresRan, CommittedNotDisowned, AckedIsDurable,
                PhaseShape
  <2> QED BY <2>1, <2>3, <2>4 DEF WriteInv
<1>2. CASE Enqueue(r)
  <2> USE <1>2 DEF Enqueue
  <2>1. /\ chan' \in Seq(Requests) /\ Len(chan') = Len(chan) + 1
        /\ Range(chan') = Range(chan) \cup {r}
        /\ IsInjective(chan) /\ r \notin Range(chan) => IsInjective(chan')
    BY AppendRange DEF WriteInv, TypeOK
  <2>2. r \notin Pending /\ r \notin Range(db) /\ r \notin Range(tx)
    BY NewcomerUnknown
  <2>3. TypeOK'
    BY <2>1, WriteThreadAssumption DEF WriteInv, TypeOK, Callers
  <2>4. PendingUntouched' /\ PendingOnce'
    BY <2>1, <2>2 DEF WriteInv, TypeOK, PendingUntouched, PendingOnce, Pending, Open
  <2>5. HandledUncommitted' /\ TxOfBatch'
    BY <2>1, <2>2 DEF WriteInv, TypeOK, HandledUncommitted, TxOfBatch, Pending, Handled,
                      Open
  <2>6. OkClosuresRan' /\ CommittedNotDisowned' /\ AckedIsDurable' /\ PhaseShape'
    BY <2>2 DEF WriteInv, TypeOK, OkClosuresRan, CommittedNotDisowned, AckedIsDurable,
                PhaseShape
  <2> QED BY <2>3, <2>4, <2>5, <2>6 DEF WriteInv
<1>3. CASE Cancel(r)
  <2> USE <1>3 DEF Cancel
  <2>1. TypeOK'
    BY DEF WriteInv, TypeOK, Callers
  <2>2. PendingUntouched' /\ PendingOnce' /\ HandledUncommitted' /\ TxOfBatch'
    BY DEF WriteInv, TypeOK, PendingUntouched, PendingOnce, HandledUncommitted,
           TxOfBatch, Pending, Handled, Open
  <2>3. OkClosuresRan' /\ CommittedNotDisowned' /\ AckedIsDurable' /\ PhaseShape'
    BY DEF WriteInv, TypeOK, OkClosuresRan, CommittedNotDisowned, AckedIsDurable,
           PhaseShape
  <2> QED BY <2>1, <2>2, <2>3 DEF WriteInv
<1> QED BY <1>1, <1>2, <1>3

\* Dropping reply senders of uncommitted requests disturbs nobody else.
LEMMA DropRepliesKeeps ==
    ASSUME WriteInv, NEW S, DropReplies(S),
           \A r \in S : r \notin Range(db)
    PROVE  /\ caller' \in [Requests -> Callers]
           /\ \A r \in Requests \ S : caller'[r] = caller[r]
           /\ \A r \in Requests : caller'[r] = "ok" => caller[r] = "ok"
           /\ \A r \in Range(db) : caller'[r] = caller[r]
BY RangeOfSeq DEF DropReplies, WriteInv, TypeOK, Callers

\* Steps that collect a batch.
LEMMA CollectStepInv == WriteInv /\ (Recv \/ Collect \/ CloseBatch \/ Begin) => WriteInv'
<1> SUFFICES ASSUME WriteInv, Recv \/ Collect \/ CloseBatch \/ Begin PROVE WriteInv'
  OBVIOUS
<1> USE WriteThreadAssumption
<1>1. CASE Recv
  <2> USE <1>1 DEF Recv
  <2>1. /\ Head(chan) \in Requests /\ Tail(chan) \in Seq(Requests)
        /\ Len(Tail(chan)) = Len(chan) - 1
        /\ Range(chan) = Range(Tail(chan)) \cup {Head(chan)}
        /\ IsInjective(Tail(chan)) /\ Head(chan) \notin Range(Tail(chan))
    BY HeadTailRange DEF WriteInv, TypeOK, PendingOnce
  <2>2. /\ batch' \in Seq(Requests) /\ Len(batch') = 1 /\ batch' # <<>>
        /\ Range(batch') = {Head(chan)} /\ IsInjective(batch')
    BY <2>1, SingletonRange
  <2>3. batch = <<>> /\ replies = <<>> /\ Range(batch) = {}
    BY EmptyRange DEF WriteInv, PhaseShape
  <2>4. Pending' = Pending
    BY <2>1, <2>2, <2>3 DEF Pending
  <2>5. TypeOK'
    BY <2>1, <2>2, <2>3 DEF WriteInv, TypeOK, Phases
  <2>6. PendingUntouched' /\ PendingOnce'
    BY <2>1, <2>2, <2>4 DEF WriteInv, PendingUntouched, PendingOnce
  <2>7. HandledUncommitted' /\ TxOfBatch' /\ PhaseShape'
    BY <2>2, <2>3 DEF WriteInv, HandledUncommitted, TxOfBatch, PhaseShape, Handled
  <2>8. OkClosuresRan' /\ CommittedNotDisowned' /\ AckedIsDurable'
    BY DEF WriteInv, OkClosuresRan, CommittedNotDisowned, AckedIsDurable
  <2> QED BY <2>5, <2>6, <2>7, <2>8 DEF WriteInv
<1>2. CASE Collect
  <2> USE <1>2 DEF Collect
  <2>1. /\ Head(chan) \in Requests /\ Tail(chan) \in Seq(Requests)
        /\ Len(Tail(chan)) = Len(chan) - 1
        /\ Range(chan) = Range(Tail(chan)) \cup {Head(chan)}
        /\ Head(chan) \in Range(chan)
        /\ IsInjective(Tail(chan)) /\ Head(chan) \notin Range(Tail(chan))
    BY HeadTailRange DEF WriteInv, TypeOK, PendingOnce
  <2>2. Head(chan) \notin Range(batch)
    BY <2>1 DEF WriteInv, PendingOnce
  <2>3. /\ batch' \in Seq(Requests) /\ Len(batch') = Len(batch) + 1
        /\ Range(batch') = Range(batch) \cup {Head(chan)} /\ IsInjective(batch')
        /\ batch' # <<>>
    BY <2>1, <2>2, AppendRange DEF WriteInv, TypeOK, PendingOnce
  <2>5. Pending' = Pending
    BY <2>1, <2>3 DEF Pending
  <2>6. replies = <<>>
    BY DEF WriteInv, PhaseShape
  <2>7. TypeOK'
    BY <2>1, <2>3, <2>6 DEF WriteInv, TypeOK
  <2>8. PendingUntouched' /\ PendingOnce'
    BY <2>1, <2>3, <2>5 DEF WriteInv, PendingUntouched, PendingOnce
  <2>9. HandledUncommitted' /\ TxOfBatch' /\ PhaseShape'
    BY <2>3, <2>6, EmptyRange DEF WriteInv, HandledUncommitted, TxOfBatch, PhaseShape, Handled
  <2>10. OkClosuresRan' /\ CommittedNotDisowned' /\ AckedIsDurable'
    BY DEF WriteInv, OkClosuresRan, CommittedNotDisowned, AckedIsDurable
  <2> QED BY <2>7, <2>8, <2>9, <2>10 DEF WriteInv
<1>3. CASE CloseBatch \/ Begin
  <2> USE <1>3 DEF CloseBatch, Begin
  <2>1. replies = <<>> /\ Handled = {}
    BY EmptyRange DEF WriteInv, PhaseShape, Handled
  <2>2. TypeOK'
    BY DEF WriteInv, TypeOK, Phases
  <2>3. PendingUntouched' /\ PendingOnce' /\ PhaseShape'
    BY <2>1 DEF WriteInv, PendingUntouched, PendingOnce, PhaseShape, Pending
  <2>4. HandledUncommitted' /\ TxOfBatch'
    BY <2>1 DEF WriteInv, HandledUncommitted, TxOfBatch, Handled
  <2>5. OkClosuresRan' /\ CommittedNotDisowned' /\ AckedIsDurable'
    BY DEF WriteInv, OkClosuresRan, CommittedNotDisowned, AckedIsDurable
  <2> QED BY <2>2, <2>3, <2>4, <2>5 DEF WriteInv
<1> QED BY <1>1, <1>2, <1>3

\* A handler moves one request from the batch to the closures.
LEMMA HandleStepInv ==
    ASSUME WriteInv, NEW result \in Results, NEW wrote \in BOOLEAN, Handle(result, wrote)
    PROVE  WriteInv'
<1> DEFINE h == Head(batch)
           rep == [req |-> h, result |-> result]
<1> USE DEF Handle
<1>1. /\ h \in Requests /\ Tail(batch) \in Seq(Requests)
      /\ Len(Tail(batch)) = Len(batch) - 1
      /\ Range(batch) = Range(Tail(batch)) \cup {h}
      /\ h \in Range(batch)
      /\ IsInjective(Tail(batch)) /\ h \notin Range(Tail(batch))
  BY HeadTailRange DEF WriteInv, TypeOK, PendingOnce
<1>2. rep \in Reply
  BY <1>1 DEF Reply
<1>3. /\ replies' \in Seq(Reply) /\ Len(replies') = Len(replies) + 1
      /\ Range(replies') = Range(replies) \cup {rep}
  BY <1>2, AppendRange DEF WriteInv, TypeOK
<1>4. Handled' = Handled \cup {h}
  BY <1>3 DEF Handled
<1>5. tx' \in Seq(Requests) /\ Range(tx') = Range(tx) \cup (IF wrote THEN {h} ELSE {})
  <2>1. CASE wrote
    BY <2>1, <1>1, AppendRange DEF WriteInv, TypeOK
  <2>2. CASE ~wrote
    BY <2>2 DEF WriteInv, TypeOK
  <2> QED BY <2>1, <2>2
<1>6. Pending = Pending' \cup {h} /\ h \notin Pending'
  BY <1>1 DEF Pending, WriteInv, PendingOnce
<1>7. caller[h] \in Open /\ h \notin Range(db) /\ h \notin Range(tx)
  BY <1>6 DEF WriteInv, PendingUntouched
<1>8. TypeOK'
  BY <1>1, <1>3, <1>5 DEF WriteInv, TypeOK
<1>9. PendingUntouched' /\ PendingOnce'
  <2>1. PendingUntouched'
    BY <1>5, <1>6 DEF WriteInv, PendingUntouched
  <2>2. PendingOnce'
    BY <1>1 DEF WriteInv, PendingOnce
  <2> QED BY <2>1, <2>2
<1>10. HandledUncommitted' /\ TxOfBatch' /\ PhaseShape'
  <2>1. HandledUncommitted'
    BY <1>4, <1>6, <1>7 DEF WriteInv, HandledUncommitted, Open
  <2>2. TxOfBatch'
    BY <1>4, <1>5 DEF WriteInv, TxOfBatch
  <2>3. PhaseShape'
    BY DEF WriteInv, PhaseShape
  <2> QED BY <2>1, <2>2, <2>3
<1>11. OkClosuresRan' /\ CommittedNotDisowned' /\ AckedIsDurable'
  <2>1. OkClosuresRan'
    BY <1>3, <1>5 DEF WriteInv, OkClosuresRan
  <2>2. CommittedNotDisowned' /\ AckedIsDurable'
    BY DEF WriteInv, CommittedNotDisowned, AckedIsDurable
  <2> QED BY <2>1, <2>2
<1> QED BY <1>8, <1>9, <1>10, <1>11 DEF WriteInv

\* Steps that drop a whole batch: a failed BEGIN, a failed COMMIT, and the return
\* after a Custom. Nothing the dropped requests wrote is in the database.
LEMMA DropStepInv == WriteInv /\ (BeginFails \/ CommitFails \/ DropRest) => WriteInv'
<1> SUFFICES ASSUME WriteInv, BeginFails \/ CommitFails \/ DropRest PROVE WriteInv'
  OBVIOUS
<1> DEFINE S == IF CommitFails THEN Range(batch) \cup {replies[i].req : i \in DOMAIN replies}
                ELSE Range(batch)
<1>1. \A r \in Range(batch) : r \notin Range(db)
  BY DEF WriteInv, PendingUntouched, Pending
<1>2. CommitFails => \A r \in Handled : r \notin Range(db)
  BY DEF CommitFails, AtCommit, WriteInv, HandledUncommitted
<1>3. {replies[i].req : i \in DOMAIN replies} = Handled
  BY DEF Handled, Range
<1>4. DropReplies(S) /\ \A r \in S : r \notin Range(db)
  BY <1>1, <1>2, <1>3 DEF BeginFails, CommitFails, DropRest
<1> HIDE DEF S
<1>5. /\ caller' \in [Requests -> Callers]
      /\ \A r \in Requests \ S : caller'[r] = caller[r]
      /\ \A r \in Requests : caller'[r] = "ok" => caller[r] = "ok"
      /\ \A r \in Range(db) : caller'[r] = caller[r]
  BY <1>4, DropRepliesKeeps
<1>6. /\ batch' = <<>> /\ replies' = <<>> /\ tx' = <<>> /\ phase' = "recv"
      /\ db' = db /\ chan' = chan /\ crashes' = crashes /\ cached' = cached
  BY DEF BeginFails, CommitFails, DropRest, WriteInv, PhaseShape, TxOfBatch
<1>7. TypeOK'
  BY <1>5, <1>6, WriteThreadAssumption DEF WriteInv, TypeOK, Phases
<1>8. PendingUntouched' /\ PendingOnce'
  <2>1. Range(chan) \cap S = {}
    <3>1. Range(chan) \cap Range(batch) = {}
      BY DEF WriteInv, PendingOnce
    <3>2. CommitFails => Range(chan) \cap Handled = {}
      BY DEF CommitFails, AtCommit, WriteInv, HandledUncommitted, Pending
    <3> QED BY <3>1, <3>2, <1>3 DEF S
  <2>2. \A r \in Range(chan) : r \in Requests /\ caller[r] \in Open
    BY RangeOfSeq DEF WriteInv, TypeOK, PendingUntouched, Pending
  <2>3. \A r \in Range(chan) : caller'[r] \in Open
    BY <2>1, <2>2, <1>5
  <2> QED BY <2>3, <1>6, EmptyRange DEF WriteInv, PendingUntouched, PendingOnce, Pending
<1>9. HandledUncommitted' /\ TxOfBatch' /\ PhaseShape' /\ OkClosuresRan'
  BY <1>6, EmptyRange DEF HandledUncommitted, TxOfBatch, PhaseShape, OkClosuresRan, Handled
<1>10. CommittedNotDisowned' /\ AckedIsDurable'
  BY <1>5, <1>6 DEF WriteInv, CommittedNotDisowned, AckedIsDurable
<1> QED BY <1>7, <1>8, <1>9, <1>10 DEF WriteInv

\* COMMIT turns the transaction's writes into the database's.
LEMMA CommitStepInv == WriteInv /\ Commit => WriteInv'
<1> SUFFICES ASSUME WriteInv, Commit PROVE WriteInv'
  OBVIOUS
<1> USE DEF Commit, AtCommit
<1>1. db' \in Seq(Requests) /\ Range(db') = Range(db) \cup Range(tx)
  BY ConcatRange DEF WriteInv, TypeOK
<1>2. Range(tx) \subseteq Handled /\ \A r \in Handled : caller[r] \in Open /\ r \notin Pending
  BY DEF WriteInv, TxOfBatch, HandledUncommitted
<1>3. TypeOK'
  BY <1>1 DEF WriteInv, TypeOK, Phases
<1>4. PendingUntouched' /\ PendingOnce'
  BY <1>1, <1>2, EmptyRange DEF WriteInv, PendingUntouched, PendingOnce, Pending
<1>5. HandledUncommitted' /\ TxOfBatch' /\ PhaseShape'
  BY EmptyRange DEF WriteInv, HandledUncommitted, TxOfBatch, PhaseShape, Handled, Pending
<1>6. OkClosuresRan' /\ CommittedNotDisowned' /\ AckedIsDurable'
  BY <1>1, <1>2 DEF WriteInv, OkClosuresRan, CommittedNotDisowned, AckedIsDurable, Open
<1> QED BY <1>3, <1>4, <1>5, <1>6 DEF WriteInv

\* One reply goes out; an "ok" speaks of committed writes, because no transaction
\* is open in the phases that fire closures.
LEMMA ReplyStepInv == WriteInv /\ SendReply => WriteInv'
<1> SUFFICES ASSUME WriteInv, SendReply PROVE WriteInv'
  OBVIOUS
<1> DEFINE rep == Head(replies)
<1> USE DEF SendReply
<1>1. /\ rep \in Reply /\ Tail(replies) \in Seq(Reply)
      /\ Len(Tail(replies)) = Len(replies) - 1
      /\ Range(replies) = Range(Tail(replies)) \cup {rep}
  BY HeadTailRange DEF WriteInv, TypeOK
<1>2. rep.req \in Requests /\ rep.result \in {"ok", "err"}
  BY <1>1 DEF Reply, Results
<1>3. rep.result = "ok" => rep.req \in Range(db)
  BY <1>1, EmptyRange DEF WriteInv, OkClosuresRan, TxOfBatch
<1>4. caller \in [Requests -> Callers]
  BY DEF WriteInv, TypeOK
<1>5. /\ caller' \in [Requests -> Callers]
      /\ \A r \in Requests \ {rep.req} : caller'[r] = caller[r]
      /\ caller[rep.req] # "waiting" => caller' = caller
      /\ caller[rep.req] = "waiting" => caller'[rep.req] = rep.result
  BY <1>2, <1>4 DEF Callers
<1>6. TypeOK'
  <2>1. Len(batch) + Len(replies') <= BatchMax
    BY <1>1, LenProperties, WriteThreadAssumption DEF WriteInv, TypeOK
  <2> QED BY <2>1, <1>1, <1>5 DEF WriteInv, TypeOK
<1>7. PendingUntouched' /\ PendingOnce'
  <2>1. rep.req \notin Pending
    BY <1>1 DEF WriteInv, HandledUncommitted, Handled
  <2>2. \A r \in Pending : r \in Requests
    BY RangeOfSeq DEF WriteInv, TypeOK, Pending
  <2> QED BY <2>1, <2>2, <1>5 DEF WriteInv, PendingUntouched, PendingOnce, Pending
<1>8. HandledUncommitted' /\ TxOfBatch' /\ PhaseShape' /\ OkClosuresRan'
  <2>1. Handled' \subseteq Handled /\ Pending' = Pending
    BY <1>1 DEF Handled, Pending
  <2>2. \A r \in Handled : r \in Requests
    <3>1. Range(replies) \subseteq Reply
      BY RangeOfSeq DEF WriteInv, TypeOK
    <3> QED BY <3>1 DEF Handled, Reply
  <2>3. HandledUncommitted'
    BY <2>1, <2>2, <1>2, <1>5 DEF WriteInv, HandledUncommitted
  <2>4. TxOfBatch' /\ PhaseShape'
    BY EmptyRange DEF WriteInv, TxOfBatch, PhaseShape
  <2>5. OkClosuresRan'
    BY <1>1 DEF WriteInv, OkClosuresRan
  <2> QED BY <2>3, <2>4, <2>5
<1>9. CommittedNotDisowned' /\ AckedIsDurable'
  <2>1. \A r \in Range(db) : r \in Requests
    BY RangeOfSeq DEF WriteInv, TypeOK
  <2>2. \A r \in Requests : caller'[r] \in {caller[r], "ok", "err"}
    BY <1>2, <1>5
  <2>3. \A r \in Requests : caller'[r] = "ok" => caller[r] = "ok" \/ r \in Range(db)
    BY <1>3, <1>5
  <2> QED BY <2>1, <2>2, <2>3 DEF WriteInv, CommittedNotDisowned, AckedIsDurable
<1> QED BY <1>6, <1>7, <1>8, <1>9 DEF WriteInv

\* The closure of a Custom writes past the transaction, which is not open.
LEMMA CustomStepInv ==
    ASSUME WriteInv, NEW result \in Results, NEW wrote \in BOOLEAN, RunCustom(result, wrote)
    PROVE  WriteInv'
<1> DEFINE h == Head(batch)
           rep == [req |-> h, result |-> result]
<1> USE DEF RunCustom
<1>1. /\ h \in Requests /\ Tail(batch) \in Seq(Requests)
      /\ Len(Tail(batch)) = Len(batch) - 1
      /\ Range(batch) = Range(Tail(batch)) \cup {h}
      /\ h \in Range(batch)
      /\ IsInjective(Tail(batch)) /\ h \notin Range(Tail(batch))
  BY HeadTailRange DEF WriteInv, TypeOK, PendingOnce, PhaseShape
<1>2. rep \in Reply
  BY <1>1 DEF Reply
<1>3. replies' \in Seq(Reply) /\ Len(replies') = 1 /\ Range(replies') = {rep}
  BY <1>2, SingletonRange
<1>4. Handled' = {h}
  BY <1>3 DEF Handled
<1>5. db' \in Seq(Requests) /\ Range(db') = Range(db) \cup (IF wrote THEN {h} ELSE {})
  <2>1. CASE wrote
    BY <2>1, <1>1, AppendRange DEF WriteInv, TypeOK
  <2>2. CASE ~wrote
    BY <2>2 DEF WriteInv, TypeOK
  <2> QED BY <2>1, <2>2
<1>6. Pending = Pending' \cup {h} /\ h \notin Pending'
  BY <1>1 DEF Pending, WriteInv, PendingOnce
<1>7. caller[h] \in Open
  BY <1>6 DEF WriteInv, PendingUntouched
<1>8. replies = <<>> /\ tx = <<>>
  BY DEF WriteInv, PhaseShape, TxOfBatch
<1>9. TypeOK'
  BY <1>1, <1>3, <1>5, <1>8 DEF WriteInv, TypeOK, Phases
<1>10. PendingUntouched' /\ PendingOnce'
  BY <1>1, <1>5, <1>6 DEF WriteInv, PendingUntouched, PendingOnce
<1>11. HandledUncommitted' /\ TxOfBatch' /\ PhaseShape'
  BY <1>4, <1>6, <1>7, <1>8, EmptyRange
     DEF WriteInv, HandledUncommitted, TxOfBatch, PhaseShape, Open
<1>12. OkClosuresRan' /\ CommittedNotDisowned' /\ AckedIsDurable'
  BY <1>3, <1>5, <1>7 DEF WriteInv, OkClosuresRan, CommittedNotDisowned, AckedIsDurable, Open
<1> QED BY <1>9, <1>10, <1>11, <1>12 DEF WriteInv

\* The steps that change no request: the end of a flush, the thread's exit, an
\* eviction and a restart.
LEMMA IdleStepInv == WriteInv /\ (EndFlush \/ Exit \/ Evict \/ Restart) => WriteInv'
<1> SUFFICES ASSUME WriteInv, EndFlush \/ Exit \/ Evict \/ Restart PROVE WriteInv'
  OBVIOUS
<1> USE DEF EndFlush, Exit, Evict, Restart, threadVars
<1>1. /\ caller' = caller /\ chan' = chan /\ batch' = batch /\ replies' = replies
      /\ tx' = tx /\ db' = db /\ crashes' = crashes /\ cached' \in BOOLEAN
      /\ phase' \in Phases /\ (phase' = "drain" <=> phase = "drain")
  BY DEF WriteInv, TypeOK, Phases
<1>2. TypeOK'
  BY <1>1 DEF WriteInv, TypeOK
<1>3. PhaseShape'
  BY <1>1 DEF WriteInv, PhaseShape
<1>4. PendingUntouched' /\ PendingOnce' /\ HandledUncommitted' /\ TxOfBatch'
  BY <1>1 DEF WriteInv, PendingUntouched, PendingOnce, HandledUncommitted, TxOfBatch,
              Pending, Handled
<1>5. OkClosuresRan' /\ CommittedNotDisowned' /\ AckedIsDurable'
  BY <1>1 DEF WriteInv, OkClosuresRan, CommittedNotDisowned, AckedIsDurable
<1> QED BY <1>2, <1>3, <1>4, <1>5 DEF WriteInv

\* A crash forgets everything but the database and the answers already given.
LEMMA CrashStepInv == WriteInv /\ Crash => WriteInv'
<1> SUFFICES ASSUME WriteInv, Crash PROVE WriteInv'
  OBVIOUS
<1> USE DEF Crash
<1>1. \A r \in Requests : caller'[r] \in {caller[r], "lost"}
  BY DEF WriteInv, TypeOK
<1>2. TypeOK'
  <2>1. caller' \in [Requests -> Callers]
    BY DEF WriteInv, TypeOK, Callers
  <2>2. crashes' \in 0..MaxCrashes
    BY WriteThreadAssumption DEF WriteInv, TypeOK
  <2>3. /\ chan' \in Seq(Requests) /\ Len(chan') = 0 /\ batch' \in Seq(Requests)
        /\ Len(batch') = 0 /\ replies' \in Seq(Reply) /\ Len(replies') = 0
        /\ tx' \in Seq(Requests)
    OBVIOUS
  <2>4. phase' \in Phases /\ db' \in Seq(Requests)
    BY DEF WriteInv, TypeOK, Phases
  <2>5. cached' \in BOOLEAN
    OBVIOUS
  <2>6. Len(chan') <= ChannelCapacity /\ Len(batch') + Len(replies') <= BatchMax
    BY <2>3, WriteThreadAssumption
  <2> HIDE DEF Crash
  <2> QED BY <2>1, <2>2, <2>3, <2>4, <2>5, <2>6 DEF TypeOK
<1>3. PendingUntouched' /\ PendingOnce' /\ HandledUncommitted' /\ TxOfBatch'
  BY EmptyRange DEF PendingUntouched, PendingOnce, HandledUncommitted, TxOfBatch,
                    Pending, Handled
<1>4. PhaseShape' /\ OkClosuresRan'
  BY EmptyRange DEF PhaseShape, OkClosuresRan
<1>5. CommittedNotDisowned' /\ AckedIsDurable'
  <2>1. \A r \in Range(db) : r \in Requests
    BY RangeOfSeq DEF WriteInv, TypeOK
  <2> QED BY <2>1, <1>1 DEF WriteInv, CommittedNotDisowned, AckedIsDurable
<1> QED BY <1>2, <1>3, <1>4, <1>5 DEF WriteInv

\* Every step, and every stuttering step, keeps the invariant.
LEMMA WriteInvStep == WriteInv /\ [Next]_vars => WriteInv'
<1> SUFFICES ASSUME WriteInv, [Next]_vars PROVE WriteInv'
  OBVIOUS
<1>1. CASE CallerNext
  BY <1>1, CallerStepInv
<1>2. CASE Evict \/ Restart
  BY <1>2, IdleStepInv
<1>3. CASE Crash
  BY <1>3, CrashStepInv
<1>4. CASE Thread
  <2>1. CASE Recv \/ Collect \/ CloseBatch \/ Begin
    BY <2>1, CollectStepInv
  <2>2. CASE \E result \in Results, wrote \in BOOLEAN :
                Handle(result, wrote) \/ RunCustom(result, wrote)
    BY <2>2, HandleStepInv, CustomStepInv
  <2>3. CASE BeginFails \/ CommitFails \/ DropRest
    BY <2>3, DropStepInv
  <2>4. CASE Commit
    BY <2>4, CommitStepInv
  <2>5. CASE SendReply
    BY <2>5, ReplyStepInv
  <2>6. CASE EndFlush \/ Exit
    BY <2>6, IdleStepInv
  <2> QED BY <1>4, <2>1, <2>2, <2>3, <2>4, <2>5, <2>6 DEF Thread
<1>5. CASE UNCHANGED vars
  <2> USE <1>5 DEF vars
  <2>1. TypeOK' /\ PhaseShape'
    BY DEF WriteInv, TypeOK, PhaseShape
  <2>2. PendingUntouched' /\ PendingOnce' /\ HandledUncommitted' /\ TxOfBatch'
    BY DEF WriteInv, PendingUntouched, PendingOnce, HandledUncommitted, TxOfBatch,
           Pending, Handled
  <2>3. OkClosuresRan' /\ CommittedNotDisowned' /\ AckedIsDurable'
    BY DEF WriteInv, OkClosuresRan, CommittedNotDisowned, AckedIsDurable
  <2> QED BY <2>1, <2>2, <2>3 DEF WriteInv
<1> QED BY <1>1, <1>2, <1>3, <1>4, <1>5 DEF Next

------------------------------------------------------------------------------
\* The theorems.

\* In every reachable state of the write path the inductive invariant holds.
THEOREM WriteInvariant == Spec => []WriteInv
<1>1. Init => WriteInv
  BY WriteInvInit
<1>2. WriteInv /\ [Next]_vars => WriteInv'
  BY WriteInvStep
<1> QED BY <1>1, <1>2, PTL DEF Spec

\* Every variable keeps its type; in particular the channel and the batch never
\* outgrow ChannelCapacity and BatchMax.
THEOREM TypeCorrect == Spec => []TypeOK
<1>1. WriteInv => TypeOK
  BY DEF WriteInv
<1> QED BY <1>1, WriteInvariant, PTL

\* A caller that was told Ok finds its writes in the database, for ever.
THEOREM AcknowledgedWritesAreDurable == Spec => []AckedIsDurable
<1>1. WriteInv => AckedIsDurable
  BY DEF WriteInv
<1> QED BY <1>1, WriteInvariant, PTL

\* A caller whose reply was dropped has no writes in the database.
THEOREM DroppedWritesAreUndone == Spec => []DroppedIsUndone
<1>1. WriteInv => DroppedIsUndone
  BY DEF WriteInv, CommittedNotDisowned, DroppedIsUndone
<1> QED BY <1>1, WriteInvariant, PTL

\* Nothing of an open transaction is committed or acknowledged.
THEOREM OpenTransactionIsPrivate == Spec => []UncommittedIsUnanswered
<1>1. ASSUME WriteInv PROVE UncommittedIsUnanswered
  <2>1. \A i \in DOMAIN tx : tx[i] \in Range(tx)
    BY DEF Range
  <2>2. CASE phase = "drain"
    BY <1>1, <2>1, <2>2 DEF WriteInv, TxOfBatch, HandledUncommitted, Open,
                            UncommittedIsUnanswered
  <2>3. CASE phase # "drain"
    BY <1>1, <2>3 DEF WriteInv, TxOfBatch, UncommittedIsUnanswered
  <2> QED BY <2>2, <2>3
<1> QED BY <1>1, WriteInvariant, PTL

------------------------------------------------------------------------------
(* The refinement: every step is a step of WriteService or a stutter. It needs one   *)
(* more invariant: the transaction holds writes of the handled requests in the        *)
(* order in which they were handled, which is the order of the queue.                 *)

HandledReqs == [i \in DOMAIN replies |-> replies[i].req]

Increasing(at, k) == \A i, j \in 1..k : i < j => at[i] < at[j]

InOrder ==
    phase = "drain" =>
        /\ Len(tx) <= Len(replies)
        /\ \E at \in [1..Len(tx) -> 1..Len(replies)] :
            Increasing(at, Len(tx)) /\ \A i \in 1..Len(tx) : tx[i] = replies[at[i]].req

RefineInv == WriteInv /\ InOrder

\* Enqueueing at the end of the channel is enqueueing at the end of the queue.
LEMMA ConcatAppend ==
    ASSUME NEW S, NEW s \in Seq(S), NEW t \in Seq(S), NEW x \in S
    PROVE  s \o Append(t, x) = Append(s \o t, x)
<1>1. Append(t, x) = t \o <<x>> /\ <<x>> \in Seq(S)
  BY AppendIsConcat
<1>2. Append(s \o t, x) = (s \o t) \o <<x>>
  BY AppendIsConcat, ConcatProperties
<1> QED BY <1>1, <1>2, ConcatAssociative

\* Moving the head of one queue to the end of the queue before it changes nothing.
LEMMA MoveHead ==
    ASSUME NEW S, NEW s \in Seq(S), NEW t \in Seq(S), t # <<>>
    PROVE  Append(s, Head(t)) \o Tail(t) = s \o t
<1>1. Head(t) \in S /\ Tail(t) \in Seq(S) /\ <<Head(t)>> \in Seq(S)
  BY HeadTailProperties
<1>2. Append(s, Head(t)) = s \o <<Head(t)>>
  BY <1>1, AppendIsConcat
<1>3. <<Head(t)>> \o Tail(t) = t
  OBVIOUS
<1> QED BY <1>1, <1>2, <1>3, ConcatAssociative

\* The first queue of two leaves as a group.
LEMMA SplitConcat ==
    ASSUME NEW S, NEW s \in Seq(S), NEW t \in Seq(S)
    PROVE  /\ SubSeq(s \o t, 1, Len(s)) = s
           /\ SubSeq(s \o t, Len(s) + 1, Len(s \o t)) = t
           /\ Len(s \o t) = Len(s) + Len(t)
<1> DEFINE u == s \o t
<1>1. /\ u \in Seq(S) /\ Len(u) = Len(s) + Len(t) /\ Len(s) \in Nat /\ Len(t) \in Nat
      /\ \A i \in 1..Len(s) + Len(t) : u[i] = IF i <= Len(s) THEN s[i] ELSE t[i - Len(s)]
  BY ConcatProperties, LenProperties
<1> HIDE DEF u
<1>2. \A i \in 1..Len(u) : u[i] \in S
  BY <1>1, ElementOfSeq
<1>3. SubSeq(u, 1, Len(s)) = s
  <2> DEFINE v == SubSeq(u, 1, Len(s))
  <2>1. v \in Seq(S) /\ Len(v) = Len(s) /\ \A i \in 1..Len(s) : v[i] = u[i]
    BY <1>1, <1>2, SubSeqProperties
  <2>2. \A i \in 1..Len(v) : v[i] = s[i]
    BY <1>1, <2>1
  <2> HIDE DEF v
  <2>3. v = s
    BY <2>1, <2>2, SeqEqual
  <2> QED BY <2>3 DEF v
<1>4. SubSeq(u, Len(s) + 1, Len(u)) = t
  <2> DEFINE v == SubSeq(u, Len(s) + 1, Len(u))
  <2>1. v \in Seq(S) /\ Len(v) = Len(t) /\ \A i \in 1..Len(t) : v[i] = u[Len(s) + i]
    BY <1>1, <1>2, SubSeqProperties
  <2>2. ASSUME NEW i \in 1..Len(v) PROVE v[i] = t[i]
    <3>1. Len(s) + i \in 1..Len(s) + Len(t) /\ ~(Len(s) + i <= Len(s)) /\ (Len(s) + i) - Len(s) = i
      BY <1>1, <2>1
    <3> QED BY <1>1, <2>1, <3>1
  <2> HIDE DEF v
  <2>3. v = t
    BY <2>1, <2>2, SeqEqual
  <2> QED BY <2>3 DEF v
<1> QED BY <1>1, <1>3, <1>4 DEF u

\* The handled requests, as a sequence.
LEMMA HandledReqsSeq ==
    ASSUME replies \in Seq(Reply)
    PROVE  /\ HandledReqs \in Seq(Requests) /\ Len(HandledReqs) = Len(replies)
           /\ Range(HandledReqs) = Handled
           /\ replies = <<>> => HandledReqs = <<>>
<1>1. Len(replies) \in Nat /\ DOMAIN replies = 1..Len(replies)
      /\ \A i \in 1..Len(replies) : replies[i] \in Reply
  BY LenProperties, ElementOfSeq
<1>2. \A i \in 1..Len(replies) : replies[i].req \in Requests
  BY <1>1 DEF Reply
<1>3. HandledReqs \in Seq(Requests) /\ Len(HandledReqs) = Len(replies)
  BY <1>1, <1>2 DEF HandledReqs
<1>4. Range(HandledReqs) = Handled
  BY <1>1 DEF HandledReqs, Handled, Range
<1>5. ASSUME replies = <<>> PROVE HandledReqs = <<>>
  BY <1>3, <1>5, EmptySeq
<1> QED BY <1>3, <1>4, <1>5

\* The order of the transaction survives every step: a handler adds to its end.
LEMMA InOrderStep == RefineInv /\ [Next]_vars => InOrder'
<1> SUFFICES ASSUME RefineInv, [Next]_vars, phase' = "drain" PROVE InOrder'
  BY DEF InOrder
<1>1. /\ replies \in Seq(Reply) /\ tx \in Seq(Requests) /\ batch \in Seq(Requests)
      /\ Len(replies) \in Nat /\ Len(tx) \in Nat
  BY LenProperties DEF RefineInv, WriteInv, TypeOK
<1>2. CASE \E result \in Results, wrote \in BOOLEAN : Handle(result, wrote)
  <2>1. PICK result \in Results, wrote \in BOOLEAN : Handle(result, wrote)
    BY <1>2
  <2> DEFINE h == Head(batch)
             rep == [req |-> h, result |-> result]
  <2>2. phase = "drain" /\ h \in Requests
    BY <2>1, HeadTailRange, <1>1 DEF Handle
  <2>3. PICK at \in [1..Len(tx) -> 1..Len(replies)] :
           Increasing(at, Len(tx)) /\ \A i \in 1..Len(tx) : tx[i] = replies[at[i]].req
    BY <2>2 DEF RefineInv, InOrder
  <2>4. Len(tx) <= Len(replies)
    BY <2>2 DEF RefineInv, InOrder
  <2>5. /\ replies' = Append(replies, rep) /\ rep \in Reply
        /\ Len(replies') = Len(replies) + 1
        /\ \A i \in 1..Len(replies) : replies'[i] = replies[i]
        /\ replies'[Len(replies) + 1] = rep
    BY <1>1, <2>1, <2>2, AppendProperties DEF Handle, Reply
  <2>6. rep.req = h
    OBVIOUS
  <2> HIDE DEF rep, h
  <2>7. CASE ~wrote
    <3>1. tx' = tx
      BY <2>1, <2>7 DEF Handle
    <3>2. at \in [1..Len(tx') -> 1..Len(replies')]
      BY <3>1, <2>5, <1>1
    <3>3. \A i \in 1..Len(tx') : tx'[i] = replies'[at[i]].req
      BY <3>1, <2>3, <2>5, <1>1
    <3>4. Increasing(at, Len(tx'))
      BY <3>1, <2>3
    <3>5. \E f \in [1..Len(tx') -> 1..Len(replies')] :
             Increasing(f, Len(tx')) /\ \A i \in 1..Len(tx') : tx'[i] = replies'[f[i]].req
      BY <3>2, <3>3, <3>4, Zenon
    <3>6. Len(tx') <= Len(replies')
      BY <3>1, <2>4, <2>5, <1>1
    <3> QED BY <3>5, <3>6 DEF InOrder
  <2>8. CASE wrote
    <3>1. tx' = Append(tx, h)
      BY <2>1, <2>8 DEF Handle, h
    <3>2. /\ Len(tx') = Len(tx) + 1 /\ tx'[Len(tx) + 1] = h
          /\ \A i \in 1..Len(tx) : tx'[i] = tx[i]
      BY <3>1, <1>1, <2>2, AppendProperties
    <3> DEFINE new == [i \in 1..Len(tx') |-> IF i = Len(tx) + 1 THEN Len(replies) + 1 ELSE at[i]]
    <3>3. /\ \A i \in 1..Len(tx') : i \in 1..Len(tx) \/ i = Len(tx) + 1
          /\ \A i \in 1..Len(tx) : i \in 1..Len(tx') /\ i # Len(tx) + 1
          /\ Len(tx) + 1 \in 1..Len(tx')
      BY <1>1, <3>2
    <3>4. /\ \A i \in 1..Len(tx) : new[i] = at[i] /\ at[i] \in 1..Len(replies)
          /\ new[Len(tx) + 1] = Len(replies) + 1
          /\ DOMAIN new = 1..Len(tx')
      BY <3>3
    <3>5. new \in [1..Len(tx') -> 1..Len(replies')]
      BY <1>1, <3>4, <3>3, <2>5
    <3> HIDE DEF new
    <3>6. Increasing(new, Len(tx'))
      BY <1>1, <2>3, <3>4, <3>3 DEF Increasing
    <3>7. \A i \in 1..Len(tx') : tx'[i] = replies'[new[i]].req
      BY <1>1, <2>3, <2>5, <2>6, <3>2, <3>4, <3>3
    <3>8. \E f \in [1..Len(tx') -> 1..Len(replies')] :
             Increasing(f, Len(tx')) /\ \A i \in 1..Len(tx') : tx'[i] = replies'[f[i]].req
      BY <3>5, <3>6, <3>7, Zenon
    <3>9. Len(tx') <= Len(replies')
      BY <3>2, <2>4, <2>5, <1>1
    <3> QED BY <3>8, <3>9 DEF InOrder
  <2> QED BY <2>7, <2>8
<1>3. CASE Begin
  <2>1. tx' = <<>> /\ replies' = <<>>
    BY <1>3 DEF Begin, RefineInv, WriteInv, TxOfBatch, PhaseShape
  <2>2. Len(tx') = 0 /\ Len(replies') = 0
    BY <2>1
  <2> DEFINE none == [i \in 1..Len(tx') |-> 1]
  <2>3. 1..Len(tx') = {} /\ none \in [1..Len(tx') -> 1..Len(replies')]
    BY <2>2
  <2> HIDE DEF none
  <2>4. Increasing(none, Len(tx')) /\ \A i \in 1..Len(tx') : tx'[i] = replies'[none[i]].req
    BY <2>3 DEF Increasing
  <2>5. \E f \in [1..Len(tx') -> 1..Len(replies')] :
             Increasing(f, Len(tx')) /\ \A i \in 1..Len(tx') : tx'[i] = replies'[f[i]].req
    BY <2>3, <2>4, Zenon
  <2>6. Len(tx') <= Len(replies')
    BY <2>2
  <2> QED BY <2>5, <2>6 DEF InOrder
<1>4. CASE /\ ~(\E result \in Results, wrote \in BOOLEAN : Handle(result, wrote)) /\ ~Begin
  <2>1. phase = "drain" /\ UNCHANGED <<tx, replies>>
    BY <1>4 DEF Next, CallerNext, Submit, Enqueue, Cancel, Evict, Thread, Recv, Collect,
       CloseBatch, BeginFails, RunCustom, Commit, CommitFails, SendReply, EndFlush, DropRest,
       Exit, Crash, Restart, threadVars, vars
  <2> QED BY <2>1 DEF RefineInv, InOrder
<1> QED BY <1>2, <1>3, <1>4

\* The initial state of the thread is the initial state of the service.
LEMMA RefineInit == Init => RefineInv /\ Service!Init
<1> SUFFICES ASSUME Init PROVE RefineInv /\ Service!Init
  OBVIOUS
<1>1. RefineInv
  BY WriteInvInit DEF RefineInv, InOrder, Init
<1>2. unsettled = <<>>
  BY DEF unsettled, Init
<1>3. answered = [r \in Requests |-> "new"]
  BY DEF answered, Init
<1> QED BY <1>1, <1>2, <1>3 DEF Service!Init, Init

\* The queue of the service, in the terms of the thread.
LEMMA Unsettled ==
    ASSUME WriteInv
    PROVE  /\ batch \in Seq(Requests) /\ chan \in Seq(Requests) /\ HandledReqs \in Seq(Requests)
           /\ unsettled = (IF phase = "drain" THEN HandledReqs \o batch \o chan ELSE batch \o chan)
           /\ replies = <<>> => unsettled = batch \o chan
           /\ unsettled \in Seq(Requests)
<1>1. batch \in Seq(Requests) /\ chan \in Seq(Requests) /\ replies \in Seq(Reply)
  BY DEF WriteInv, TypeOK
<1>2. HandledReqs \in Seq(Requests) /\ (replies = <<>> => HandledReqs = <<>>)
  BY <1>1, HandledReqsSeq
<1>3. unsettled = (IF phase = "drain" THEN HandledReqs \o batch \o chan ELSE batch \o chan)
  BY DEF unsettled, HandledReqs
<1>4. <<>> \o batch = batch
  BY <1>1, ConcatEmptySeq
<1>5. batch \o chan \in Seq(Requests) /\ HandledReqs \o batch \in Seq(Requests)
  BY <1>1, <1>2, ConcatProperties
<1>6. HandledReqs \o batch \o chan \in Seq(Requests)
  BY <1>1, <1>5, ConcatProperties
<1> QED BY <1>1, <1>2, <1>3, <1>4, <1>5, <1>6

\* What a caller knows, by what it does.
Told(c) == CASE c \in {"idle", "sending"} -> "new" [] c = "waiting" -> "open" [] OTHER -> c

LEMMA ToldIs ==
    /\ answered = [r \in Requests |-> Told(caller[r])]
    /\ answered' = [r \in Requests |-> Told(caller'[r])]
    /\ \A c \in Callers : /\ Told(c) = "new" <=> c \in {"idle", "sending"}
                          /\ Told(c) = "open" <=> c = "waiting"
                          /\ c \notin {"idle", "sending", "waiting"} => Told(c) = c
BY DEF answered, Told, Callers

\* A step that leaves the queue, the log and the answers alone is a stutter.
LEMMA Stutter ==
    ASSUME unsettled' = unsettled, answered' = answered, db' = db
    PROVE  [Service!Next]_Service!svars
BY DEF Service!svars

\* A group of the queue leaves it without a trace.
LEMMA DiscardGroup ==
    ASSUME NEW g \in Seq(Requests), NEW rest \in Seq(Requests),
           unsettled = g \o rest, unsettled' = rest, Len(g) <= BatchMax, db' = db,
           answered' = [r \in Requests |-> IF r \in Range(g) /\ answered[r] = "open"
                                           THEN "dropped" ELSE answered[r]],
           answered = [r \in Requests |-> Told(caller[r])]
    PROVE  [Service!Next]_Service!svars
<1>1. /\ SubSeq(unsettled, 1, Len(g)) = g /\ SubSeq(unsettled, Len(g) + 1, Len(unsettled)) = rest
      /\ Len(unsettled) = Len(g) + Len(rest)
  BY SplitConcat
<1>2. Len(g) \in Nat /\ Len(rest) \in Nat
  BY LenProperties
<1>3. CASE g = <<>>
  <2>1. unsettled = rest
    BY <1>3, ConcatEmptySeq
  <2>2. answered' = answered
    BY <1>3, EmptyRange
  <2> QED BY <2>1, <2>2, Stutter
<1>4. CASE g # <<>>
  <2>1. Len(g) # 0
    BY <1>4, EmptySeq
  <2>2. Len(g) \in Service!Groups
    BY <1>1, <1>2, <2>1 DEF Service!Groups
  <2>3. Service!Discard(Len(g))
    BY <1>1 DEF Service!Discard, Service!Rest, Service!Range, Range
  <2> QED BY <2>2, <2>3 DEF Service!Next
<1> QED BY <1>3, <1>4

\* A group of the queue leaves it, and the members at some places have written.
LEMMA ApplyGroup ==
    ASSUME NEW g \in Seq(Requests), NEW rest \in Seq(Requests),
           unsettled = g \o rest, unsettled' = rest, Len(g) \in 1..BatchMax,
           answered' = answered,
           NEW k \in 0..Len(g), NEW at \in [1..k -> 1..Len(g)], Increasing(at, k),
           db' = db \o [i \in 1..k |-> g[at[i]]]
    PROVE  [Service!Next]_Service!svars
<1>1. /\ SubSeq(unsettled, Len(g) + 1, Len(unsettled)) = rest
      /\ Len(unsettled) = Len(g) + Len(rest)
  BY SplitConcat
<1>2. Len(g) \in Nat /\ Len(rest) \in Nat
  BY LenProperties
<1>3. Len(g) \in Service!Groups
  BY <1>1, <1>2 DEF Service!Groups
<1>4. at \in Service!Selections(Len(g))
  BY DEF Service!Selections, Increasing
<1>5. \A i \in 1..Len(g) : unsettled[i] = g[i]
  BY ConcatProperties, <1>2
<1>6. [i \in 1..k |-> g[at[i]]] = [i \in DOMAIN at |-> unsettled[at[i]]]
  BY <1>5
<1>7. Service!Apply(Len(g), at)
  BY <1>1, <1>6 DEF Service!Apply, Service!Rest
<1> QED BY <1>3, <1>4, <1>7 DEF Service!Next

\* A caller's step: it is accepted when it enters the channel.
LEMMA CallerRefines == WriteInv /\ CallerNext => [Service!Next]_Service!svars
<1> SUFFICES ASSUME WriteInv, NEW r \in Requests, Submit(r) \/ Enqueue(r) \/ Cancel(r)
             PROVE  [Service!Next]_Service!svars
  BY DEF CallerNext
<1>1. caller \in [Requests -> Callers]
  BY DEF WriteInv, TypeOK
<1>2. CASE Submit(r)
  <2>1. answered' = answered
    BY <1>1, <1>2, ToldIs DEF Submit, Callers
  <2>2. unsettled' = unsettled /\ db' = db
    BY <1>2 DEF Submit, threadVars, unsettled
  <2> QED BY <2>1, <2>2, Stutter
<1>3. CASE Enqueue(r)
  <2>1. answered[r] = "new" /\ answered' = [answered EXCEPT ![r] = "open"]
    BY <1>1, <1>3, ToldIs DEF Enqueue, Callers
  <2>2. ASSUME phase = "drain" PROVE unsettled' = Append(unsettled, r)
    <3>1. HandledReqs \o batch \in Seq(Requests) /\ chan \in Seq(Requests)
      BY Unsettled, ConcatProperties
    <3>2. unsettled' = HandledReqs \o batch \o Append(chan, r)
      BY <1>3, <2>2 DEF Enqueue, threadVars, unsettled, HandledReqs
    <3>3. HandledReqs \o batch \o Append(chan, r) = Append(HandledReqs \o batch \o chan, r)
      BY <3>1, ConcatAppend
    <3> QED BY <3>2, <3>3, <2>2, Unsettled
  <2>3. ASSUME phase # "drain" PROVE unsettled' = Append(unsettled, r)
    <3>1. unsettled' = batch \o Append(chan, r)
      BY <1>3, <2>3 DEF Enqueue, threadVars, unsettled
    <3>2. batch \o Append(chan, r) = Append(batch \o chan, r)
      BY Unsettled, ConcatAppend
    <3> QED BY <3>1, <3>2, <2>3, Unsettled
  <2>4. unsettled' = Append(unsettled, r) /\ db' = db
    BY <2>2, <2>3, <1>3 DEF Enqueue, threadVars
  <2> QED BY <2>1, <2>4 DEF Service!Next, Service!Accept
<1>4. CASE Cancel(r)
  <2>1. answered[r] = "open" /\ answered' = [answered EXCEPT ![r] = "gone"]
    BY <1>1, <1>4, ToldIs DEF Cancel, Callers
  <2>2. unsettled' = unsettled /\ db' = db
    BY <1>4 DEF Cancel, threadVars, unsettled
  <2> QED BY <2>1, <2>2 DEF Service!Next, Service!Cancel
<1> QED BY <1>2, <1>3, <1>4

\* Requests move between the channel, the batch and the replies: the queue of the
\* service does not change.
LEMMA MoveRefines ==
    /\ WriteInv
    /\ \/ Recv \/ Collect \/ CloseBatch \/ Begin \/ EndFlush \/ Exit \/ Evict \/ Restart
       \/ \E result \in Results, wrote \in BOOLEAN : Handle(result, wrote)
    => [Service!Next]_Service!svars
<1> SUFFICES ASSUME WriteInv,
                    \/ Recv \/ Collect \/ CloseBatch \/ Begin \/ EndFlush \/ Exit
                    \/ Evict \/ Restart
                    \/ \E result \in Results, wrote \in BOOLEAN : Handle(result, wrote)
             PROVE  [Service!Next]_Service!svars
  OBVIOUS
<1>1. answered' = answered /\ db' = db
  BY DEF Recv, Collect, CloseBatch, Begin, EndFlush, Exit, Evict, Restart, Handle, threadVars,
         answered
<1>2. unsettled' = unsettled
  <2>1. CASE Recv
    <3>1. batch = <<>>
      BY <2>1 DEF Recv, WriteInv, PhaseShape
    <3>2. unsettled' = <<Head(chan)>> \o Tail(chan)
      BY <2>1 DEF Recv, unsettled
    <3>3. unsettled = chan
      BY <2>1, <3>1, Unsettled, ConcatEmptySeq DEF Recv
    <3> QED BY <2>1, <3>2, <3>3, Unsettled DEF Recv
  <2>2. CASE Collect
    <3>1. unsettled' = Append(batch, Head(chan)) \o Tail(chan)
      BY <2>2 DEF Collect, unsettled
    <3> QED BY <2>2, <3>1, Unsettled, MoveHead DEF Collect
  <2>3. CASE \E result \in Results, wrote \in BOOLEAN : Handle(result, wrote)
    <3>1. PICK result \in Results, wrote \in BOOLEAN : Handle(result, wrote)
      BY <2>3
    <3> DEFINE h == Head(batch)
               rep == [req |-> h, result |-> result]
    <3>2. phase = "drain" /\ phase' = "drain" /\ batch # <<>> /\ batch' = Tail(batch)
          /\ chan' = chan /\ replies' = Append(replies, rep)
      BY <3>1 DEF Handle
    <3>3. replies \in Seq(Reply) /\ h \in Requests /\ rep \in Reply
      BY <3>2, Unsettled, HeadTailProperties DEF WriteInv, TypeOK, Reply
    <3>4. rep.req = h
      OBVIOUS
    <3> HIDE DEF h, rep
    <3>5. HandledReqs' = Append(HandledReqs, h)
      <4>1. /\ Append(replies, rep) \in Seq(Reply) /\ Len(Append(replies, rep)) = Len(replies) + 1
            /\ \A i \in 1..Len(replies) : Append(replies, rep)[i] = replies[i]
            /\ Append(replies, rep)[Len(replies) + 1] = rep
        BY <3>3, AppendProperties
      <4>2. Len(replies) \in Nat /\ DOMAIN replies = 1..Len(replies)
            /\ DOMAIN Append(replies, rep) = 1..Len(replies) + 1
        BY <3>3, <4>1, LenProperties
      <4>3. Len(HandledReqs) = Len(replies) /\ HandledReqs \in Seq(Requests)
        BY <3>3, HandledReqsSeq
      <4>4. /\ Append(HandledReqs, h) \in Seq(Requests)
            /\ Len(Append(HandledReqs, h)) = Len(replies) + 1
            /\ \A i \in 1..Len(replies) : Append(HandledReqs, h)[i] = HandledReqs[i]
            /\ Append(HandledReqs, h)[Len(replies) + 1] = h
        BY <3>3, <4>3, AppendProperties
      <4>5. DOMAIN Append(HandledReqs, h) = 1..Len(replies) + 1
        BY <4>4, LenProperties
      <4> DEFINE new == HandledReqs'
      <4>6. new = [i \in 1..Len(replies) + 1 |-> Append(replies, rep)[i].req]
        BY <3>2, <4>2 DEF HandledReqs
      <4>7. \A i \in 1..Len(replies) + 1 : new[i] = Append(HandledReqs, h)[i]
        BY <3>4, <4>1, <4>2, <4>4, <4>6 DEF HandledReqs
      <4>8. Append(HandledReqs, h) = [i \in 1..Len(replies) + 1 |-> Append(HandledReqs, h)[i]]
        BY <4>4, <4>5, LenProperties
      <4> QED BY <4>6, <4>7, <4>8
    <3>6. unsettled' = Append(HandledReqs, h) \o Tail(batch) \o chan
      BY <3>2, <3>5 DEF unsettled, HandledReqs
    <3> QED BY <3>2, <3>6, Unsettled, MoveHead DEF h
  <2>4. CASE Begin
    <3>1. replies = <<>> /\ batch' = batch /\ chan' = chan /\ replies' = replies
          /\ phase' = "drain"
      BY <2>4 DEF Begin, WriteInv, PhaseShape
    <3>2. HandledReqs' = <<>>
      BY <3>1 DEF HandledReqs
    <3>3. unsettled' = <<>> \o batch \o chan
      BY <3>1, <3>2 DEF unsettled, HandledReqs
    <3> QED BY <3>1, <3>3, Unsettled, ConcatEmptySeq
  <2>5. CASE CloseBatch \/ EndFlush \/ Exit \/ Evict \/ Restart
    BY <2>5 DEF CloseBatch, EndFlush, Exit, Evict, Restart, threadVars, unsettled
  <2> QED BY <2>1, <2>2, <2>3, <2>4, <2>5
<1> QED BY <1>1, <1>2, Stutter

\* What dropping the reply senders of a set of requests tells their callers.
LEMMA DropTells ==
    ASSUME caller \in [Requests -> Callers], NEW D, DropReplies(D)
    PROVE  answered' = [r \in Requests |-> IF r \in D /\ answered[r] = "open"
                                           THEN "dropped" ELSE answered[r]]
<1>1. \A r \in Requests : Told(caller'[r]) = IF r \in D /\ Told(caller[r]) = "open"
                                             THEN "dropped" ELSE Told(caller[r])
  <2> SUFFICES ASSUME NEW r \in Requests
               PROVE  Told(caller'[r]) = IF r \in D /\ Told(caller[r]) = "open"
                                         THEN "dropped" ELSE Told(caller[r])
    OBVIOUS
  <2>1. caller[r] \in Callers /\ "dropped" \in Callers
    BY DEF Callers
  <2>2. caller'[r] = IF r \in D /\ caller[r] = "waiting" THEN "dropped" ELSE caller[r]
    BY DEF DropReplies
  <2>3. Told("dropped") = "dropped" /\ (Told(caller[r]) = "open" <=> caller[r] = "waiting")
    BY <2>1, ToldIs
  <2> QED BY <2>2, <2>3
<1> QED BY <1>1, ToldIs

\* A transaction that cannot begin or commit, and the requests behind a Custom, are
\* groups of the queue that leave no trace.
LEMMA DropRefines == WriteInv /\ (BeginFails \/ CommitFails \/ DropRest) => [Service!Next]_Service!svars
<1> SUFFICES ASSUME WriteInv, BeginFails \/ CommitFails \/ DropRest
             PROVE  [Service!Next]_Service!svars
  OBVIOUS
<1>1. /\ caller \in [Requests -> Callers] /\ Len(batch) + Len(replies) <= BatchMax
      /\ replies \in Seq(Reply) /\ BatchMax \in Nat
  BY WriteThreadAssumption DEF WriteInv, TypeOK
<1>2. /\ batch \in Seq(Requests) /\ chan \in Seq(Requests) /\ HandledReqs \in Seq(Requests)
      /\ Len(HandledReqs) = Len(replies) /\ Range(HandledReqs) = Handled
      /\ Len(batch) \in Nat /\ Len(replies) \in Nat
  BY <1>1, Unsettled, HandledReqsSeq, LenProperties
<1>3. answered = [r \in Requests |-> Told(caller[r])]
  BY ToldIs
<1>4. unsettled' = chan /\ db' = db
  <2>1. batch' = <<>> /\ chan' = chan /\ db' = db /\ phase' = "recv"
    BY DEF BeginFails, CommitFails, DropRest
  <2>2. unsettled' = <<>> \o chan
    BY <2>1 DEF unsettled
  <2> QED BY <2>1, <2>2, <1>2, ConcatEmptySeq
<1>5. CASE BeginFails \/ DropRest
  <2>1. unsettled = batch \o chan
    BY <1>5, Unsettled DEF BeginFails, DropRest
  <2>2. answered' = [r \in Requests |-> IF r \in Range(batch) /\ answered[r] = "open"
                                        THEN "dropped" ELSE answered[r]]
    BY <1>1, <1>5, DropTells DEF BeginFails, DropRest
  <2>3. Len(batch) <= BatchMax
    BY <1>1, <1>2
  <2> QED BY <1>2, <1>3, <1>4, <2>1, <2>2, <2>3, DiscardGroup
<1>6. CASE CommitFails
  <2> DEFINE g == HandledReqs \o batch
  <2>1. unsettled = g \o chan
    BY <1>6, Unsettled DEF CommitFails, AtCommit
  <2>2. /\ g \in Seq(Requests) /\ Len(g) = Len(replies) + Len(batch)
        /\ Range(g) = Handled \cup Range(batch)
    <3>1. g \in Seq(Requests) /\ Len(g) = Len(HandledReqs) + Len(batch)
      BY <1>2, ConcatProperties
    <3>2. Range(g) = Range(HandledReqs) \cup Range(batch)
      BY <1>2, ConcatRange
    <3> QED BY <1>2, <3>1, <3>2
  <2>3. {replies[i].req : i \in DOMAIN replies} = Handled
    BY DEF Handled, Range
  <2>4. DropReplies(Range(g))
    <3>1. Range(batch) \cup Handled = Range(g)
      BY <2>2
    <3> QED BY <1>6, <2>3, <3>1 DEF CommitFails
  <2> HIDE DEF g
  <2>5. answered' = [r \in Requests |-> IF r \in Range(g) /\ answered[r] = "open"
                                        THEN "dropped" ELSE answered[r]]
    BY <1>1, <2>4, DropTells
  <2>6. Len(g) <= BatchMax
    BY <1>1, <1>2, <2>2
  <2> QED BY <1>2, <1>3, <1>4, <2>1, <2>2, <2>5, <2>6, DiscardGroup
<1> QED BY <1>5, <1>6

\* The commit makes durable what the handled requests have written, all at once.
LEMMA CommitRefines == RefineInv /\ Commit => [Service!Next]_Service!svars
<1> SUFFICES ASSUME RefineInv, Commit PROVE [Service!Next]_Service!svars
  OBVIOUS
<1> USE DEF Commit, AtCommit
<1>1. WriteInv /\ answered' = answered
  BY DEF RefineInv, answered
<1>2. /\ replies \in Seq(Reply) /\ tx \in Seq(Requests) /\ Len(replies) \in Nat /\ Len(tx) \in Nat
      /\ db \in Seq(Requests) /\ Len(batch) \in Nat /\ BatchMax \in Nat
      /\ Len(batch) + Len(replies) <= BatchMax
  BY <1>1, WriteThreadAssumption, LenProperties DEF WriteInv, TypeOK
<1>3. /\ HandledReqs \in Seq(Requests) /\ Len(HandledReqs) = Len(replies)
      /\ \A i \in 1..Len(replies) : HandledReqs[i] = replies[i].req
      /\ (replies = <<>> => HandledReqs = <<>>)
  <2>1. DOMAIN replies = 1..Len(replies)
    BY <1>2, LenProperties
  <2> QED BY <1>2, <2>1, HandledReqsSeq DEF HandledReqs
<1>4. batch \in Seq(Requests) /\ chan \in Seq(Requests) /\ batch \o chan \in Seq(Requests)
  BY <1>1, Unsettled, ConcatProperties
<1>5. unsettled = HandledReqs \o (batch \o chan) /\ unsettled' = batch \o chan
  BY <1>1, <1>3, <1>4, Unsettled, ConcatAssociative DEF unsettled
<1>6. PICK at \in [1..Len(tx) -> 1..Len(replies)] :
         Increasing(at, Len(tx)) /\ \A i \in 1..Len(tx) : tx[i] = replies[at[i]].req
  BY DEF RefineInv, InOrder
<1>7. Len(tx) <= Len(replies)
  BY DEF RefineInv, InOrder
<1>8. tx = [i \in 1..Len(tx) |-> HandledReqs[at[i]]]
  <2>1. tx = [i \in 1..Len(tx) |-> tx[i]]
    BY <1>2, LenProperties
  <2>2. \A i \in 1..Len(tx) : tx[i] = HandledReqs[at[i]]
    BY <1>3, <1>6
  <2> QED BY <2>1, <2>2
<1>9. CASE replies = <<>>
  <2>1. Len(replies) = 0
    BY <1>9
  <2>2. Len(tx) = 0
    BY <1>2, <1>7, <2>1
  <2>3. tx = <<>>
    BY <1>2, <2>2, EmptySeq
  <2>4. db' = db
    BY <2>3, <1>2, ConcatEmptySeq
  <2>5. unsettled' = unsettled
    BY <1>3, <1>4, <1>5, <1>9, ConcatEmptySeq
  <2> QED BY <1>1, <2>4, <2>5, Stutter
<1>10. CASE replies # <<>>
  <2>1. Len(replies) # 0
    BY <1>2, <1>10, EmptySeq
  <2>2. Len(HandledReqs) \in 1..BatchMax /\ Len(tx) \in 0..Len(HandledReqs)
    BY <1>2, <1>3, <1>7, <2>1
  <2>3. db' = db \o [i \in 1..Len(tx) |-> HandledReqs[at[i]]]
    BY <1>8
  <2>4. at \in [1..Len(tx) -> 1..Len(HandledReqs)]
    BY <1>3, <1>6
  <2> QED BY <1>1, <1>3, <1>4, <1>5, <1>6, <2>2, <2>3, <2>4, ApplyGroup
<1> QED BY <1>9, <1>10

\* A reply that somebody still waits for is an answer of the service: of durable writes
\* when it says so. One that nobody waits for changes nothing.
LEMMA ReplyRefines == WriteInv /\ SendReply => [Service!Next]_Service!svars
<1> SUFFICES ASSUME WriteInv, SendReply PROVE [Service!Next]_Service!svars
  OBVIOUS
<1> DEFINE rep == Head(replies)
<1>1. /\ rep \in Range(replies) /\ rep \in Reply
  BY HeadTailRange DEF WriteInv, TypeOK, SendReply
<1>2. /\ rep.req \in Requests /\ rep.result \in {"ok", "err"}
      /\ rep.result = "ok" => rep.req \in Range(db)
      /\ rep.req \notin Pending
  BY <1>1, EmptyRange
     DEF Reply, Results, WriteInv, OkClosuresRan, TxOfBatch, HandledUncommitted, Handled, SendReply
<1>3. /\ caller' = IF caller[rep.req] = "waiting" THEN [caller EXCEPT ![rep.req] = rep.result]
                   ELSE caller
      /\ phase # "drain" /\ UNCHANGED <<phase, chan, batch, db>>
  BY DEF SendReply
<1>4. caller \in [Requests -> Callers] /\ batch \in Seq(Requests) /\ chan \in Seq(Requests)
  BY DEF WriteInv, TypeOK
<1> HIDE DEF rep
<1>5. unsettled = batch \o chan /\ unsettled' = unsettled /\ db' = db
  BY <1>3 DEF unsettled
<1>6. CASE caller[rep.req] = "waiting"
  <2>1. answered[rep.req] = "open"
    BY <1>2, <1>4, <1>6, ToldIs DEF Callers
  <2>2. answered' = [answered EXCEPT ![rep.req] = rep.result]
    BY <1>2, <1>3, <1>4, <1>6, ToldIs DEF Callers
  <2>3. rep.req \notin Range(unsettled)
    BY <1>2, <1>4, <1>5, RangeConcatenation DEF Pending
  <2>4. Service!Answer(rep.req, rep.result)
    BY <1>2, <1>5, <2>1, <2>2, <2>3 DEF Service!Answer, Service!Range, Range
  <2> QED BY <1>2, <2>4 DEF Service!Next
<1>7. CASE caller[rep.req] # "waiting"
  <2>1. answered' = answered
    BY <1>3, <1>7 DEF answered
  <2> QED BY <1>5, <2>1, Stutter
<1> QED BY <1>6, <1>7

\* A Custom request is a group of its own.
LEMMA CustomRefines ==
    ASSUME WriteInv, NEW result \in Results, NEW wrote \in BOOLEAN, RunCustom(result, wrote)
    PROVE  [Service!Next]_Service!svars
<1> DEFINE h == Head(batch)
           g == <<h>>
<1>1. /\ batch # <<>> /\ phase = "custom" /\ phase' = "finish" /\ batch' = Tail(batch)
      /\ db' = (IF wrote THEN Append(db, h) ELSE db) /\ UNCHANGED <<caller, chan>>
  BY DEF RunCustom, WriteInv, PhaseShape
<1>2. /\ h \in Requests /\ g \in Seq(Requests) /\ Len(g) = 1 /\ g[1] = h
      /\ Tail(batch) \in Seq(Requests) /\ g \o Tail(batch) = batch
      /\ chan \in Seq(Requests) /\ db \in Seq(Requests)
  BY <1>1, HeadTailProperties DEF WriteInv, TypeOK
<1> HIDE DEF h, g
<1>3. /\ Tail(batch) \o chan \in Seq(Requests) /\ unsettled = g \o (Tail(batch) \o chan)
      /\ unsettled' = Tail(batch) \o chan
  <2>1. unsettled = batch \o chan /\ unsettled' = Tail(batch) \o chan
    BY <1>1 DEF unsettled
  <2>2. Tail(batch) \o chan \in Seq(Requests)
    BY <1>2, ConcatProperties
  <2>3. (g \o Tail(batch)) \o chan = g \o (Tail(batch) \o chan)
    BY <1>2, ConcatAssociative
  <2> QED BY <1>2, <2>1, <2>2, <2>3
<1>4. answered' = answered
  BY <1>1 DEF answered
<1>5. Len(g) \in 1..BatchMax
  BY <1>2, WriteThreadAssumption
<1>6. CASE wrote
  <2> DEFINE at == [i \in 1..1 |-> 1]
  <2>1. 1 \in 0..Len(g) /\ at \in [1..1 -> 1..Len(g)] /\ Increasing(at, 1)
    BY <1>2 DEF Increasing
  <2>2. [i \in 1..1 |-> g[at[i]]] = <<h>>
    BY <1>2
  <2>3. db' = db \o [i \in 1..1 |-> g[at[i]]]
    BY <1>1, <1>2, <1>6, <2>2, AppendIsConcat
  <2> HIDE DEF at
  <2> QED BY <1>2, <1>3, <1>4, <1>5, <2>1, <2>3, ApplyGroup
<1>7. CASE ~wrote
  <2> DEFINE at == [i \in 1..0 |-> 1]
  <2>1. 0 \in 0..Len(g) /\ at \in [1..0 -> 1..Len(g)] /\ Increasing(at, 0)
    BY <1>2 DEF Increasing
  <2>2. [i \in 1..0 |-> g[at[i]]] = <<>>
    OBVIOUS
  <2>3. db' = db \o [i \in 1..0 |-> g[at[i]]]
    BY <1>1, <1>2, <1>7, <2>2, ConcatEmptySeq
  <2> HIDE DEF at
  <2> QED BY <1>2, <1>3, <1>4, <1>5, <2>1, <2>3, ApplyGroup
<1> QED BY <1>6, <1>7

\* A crash loses the queue and cuts off whoever waited or was about to send.
LEMMA CrashRefines == WriteInv /\ Crash => [Service!Next]_Service!svars
<1> SUFFICES ASSUME WriteInv, Crash PROVE Service!Crash
  BY DEF Service!Next
<1>1. unsettled' = <<>> /\ db' = db
  BY DEF Crash, unsettled
<1> DEFINE T == {r \in Requests : caller[r] = "sending"}
<1>2. caller \in [Requests -> Callers]
  BY DEF WriteInv, TypeOK
<1>3. T \in SUBSET {r \in Requests : answered[r] = "new"}
  BY <1>2, ToldIs
<1>4. answered' = [r \in Requests |-> IF r \in T \/ answered[r] = "open" THEN "lost" ELSE answered[r]]
  <2>1. \A r \in Requests : Told(caller'[r]) = IF r \in T \/ Told(caller[r]) = "open"
                                               THEN "lost" ELSE Told(caller[r])
    <3> SUFFICES ASSUME NEW r \in Requests
                 PROVE  Told(caller'[r]) = IF r \in T \/ Told(caller[r]) = "open"
                                           THEN "lost" ELSE Told(caller[r])
      OBVIOUS
    <3>1. caller[r] \in Callers /\ "lost" \in Callers
      BY <1>2 DEF Callers
    <3>2. caller'[r] = IF caller[r] \in {"sending", "waiting"} THEN "lost" ELSE caller[r]
      BY DEF Crash
    <3>3. Told("lost") = "lost" /\ (Told(caller[r]) = "open" <=> caller[r] = "waiting")
      BY <3>1, ToldIs
    <3> QED BY <3>2, <3>3
  <2> QED BY <2>1, ToldIs
<1> HIDE DEF T
<1> QED BY <1>1, <1>3, <1>4 DEF Service!Crash

\* Every step of the thread is a step of the service or a stutter.
LEMMA RefineStep == RefineInv /\ [Next]_vars => [Service!Next]_Service!svars
<1> SUFFICES ASSUME RefineInv, [Next]_vars PROVE [Service!Next]_Service!svars
  OBVIOUS
<1>1. WriteInv
  BY DEF RefineInv
<1>2. CASE CallerNext
  BY <1>1, <1>2, CallerRefines
<1>3. CASE \/ Recv \/ Collect \/ CloseBatch \/ Begin \/ EndFlush \/ Exit \/ Evict \/ Restart
           \/ \E result \in Results, wrote \in BOOLEAN : Handle(result, wrote)
  BY <1>1, <1>3, MoveRefines
<1>4. CASE BeginFails \/ CommitFails \/ DropRest
  BY <1>1, <1>4, DropRefines
<1>5. CASE Commit
  BY <1>5, CommitRefines
<1>6. CASE SendReply
  BY <1>1, <1>6, ReplyRefines
<1>7. CASE \E result \in Results, wrote \in BOOLEAN : RunCustom(result, wrote)
  BY <1>1, <1>7, CustomRefines
<1>8. CASE Crash
  BY <1>1, <1>8, CrashRefines
<1>9. CASE UNCHANGED vars
  <2>1. unsettled' = unsettled /\ answered' = answered /\ db' = db
    BY <1>9 DEF vars, unsettled, answered
  <2> QED BY <2>1, Stutter
<1> QED BY <1>2, <1>3, <1>4, <1>5, <1>6, <1>7, <1>8, <1>9 DEF Next, Thread

\* The write path of a project implements WriteService.
THEOREM WriteThreadRefinesService == Spec => ImplementsWriteService
<1>1. Init => RefineInv /\ Service!Init
  BY RefineInit
<1>2. RefineInv /\ [Next]_vars => RefineInv'
  BY WriteInvStep, InOrderStep DEF RefineInv
<1>3. RefineInv /\ [Next]_vars => [Service!Next]_Service!svars
  BY RefineStep
<1> QED BY <1>1, <1>2, <1>3, PTL DEF Spec, ImplementsWriteService, Service!Spec

------------------------------------------------------------------------------
(***************************************************************************)
(* Supersession stays sound whatever is saved, updated and deleted, and what *)
(* a step may do to the rows that are there already, for any number of rows  *)
(* and any sets of titles, contents, scopes, types and topics.               *)
(***************************************************************************)

\* Types and supersession need each other: an id in use is at most lastId, so the
\* next row is superseded by nobody and supersedes nobody yet.
StoreInv == StoreTypeOK /\ SupersessionSound

\* The empty table.
LEMMA StoreInvInit == StoreInit => StoreInv
<1> SUFFICES ASSUME StoreInit PROVE StoreInv
  OBVIOUS
<1>1. Ids = {} /\ rows \in [Ids -> Row]
  BY DEF StoreInit, Ids
<1> QED BY <1>1, StoreAssumption DEF StoreInit, StoreInv, StoreTypeOK, SupersessionSound, Ids

\* A step that keeps ids, edges and the supersession fields keeps StoreInv, as long
\* as it only moves a row between live and soft-deleted.
LEMMA QuietStep ==
    ASSUME StoreInv, Ids' = Ids, lastId' = lastId, edges' = edges, now' \in Times,
           rows' \in [Ids -> Row],
           \A i \in Ids : /\ rows'[i].by = rows[i].by /\ rows'[i].sups = rows[i].sups
                          /\ rows'[i].deleted = "superseded" <=> rows[i].deleted = "superseded"
    PROVE  StoreInv'
<1>1. StoreTypeOK'
  BY DEF StoreInv, StoreTypeOK
<1>2. SupersessionSound'
  <2>1. \A e \in edges : e[2] \in Ids
    BY DEF StoreInv, StoreTypeOK
  <2> QED BY <2>1 DEF StoreInv, SupersessionSound
<1> QED BY <1>1, <1>2 DEF StoreInv

\* Saves that change a row in place or nothing at all.
LEMMA InPlaceSave ==
    ASSUME StoreInv, NEW in \in Inputs, SaveKnown(in) \/ UpsertTopic(in) \/ FoldDuplicate(in)
    PROVE  StoreInv'
<1>1. CASE UNCHANGED storeVars
  BY <1>1, QuietStep DEF storeVars, StoreInv, StoreTypeOK, Ids
<1>2. CASE UpsertTopic(in)
  <2>1. PICK i \in TopicMatches(in) :
            rows' = [rows EXCEPT ![i].title = in.title, ![i].content = in.content]
    BY <1>2 DEF UpsertTopic
  <2>2. i \in Ids /\ rows \in [Ids -> Row]
    BY <2>1 DEF TopicMatches, StoreInv, StoreTypeOK
  <2>3. Ids' = Ids
    BY <2>1, <2>2 DEF Ids
  <2>4. rows' \in [Ids -> Row]
    <3>1. in.title \in Titles /\ in.content \in Contents
      BY DEF Inputs
    <3>2. [rows[i] EXCEPT !.title = in.title, !.content = in.content] \in Row
      BY <2>2, <3>1 DEF Row
    <3>3. rows' = [rows EXCEPT ![i] = [rows[i] EXCEPT !.title = in.title,
                                                    !.content = in.content]]
      BY <2>1, <2>2
    <3> QED BY <2>2, <3>2, <3>3
  <2>5. \A j \in Ids : /\ rows'[j].by = rows[j].by /\ rows'[j].sups = rows[j].sups
                       /\ rows'[j].deleted = rows[j].deleted
    BY <2>1, <2>2 DEF Row
  <2> QED BY <1>2, <2>3, <2>4, <2>5, QuietStep DEF UpsertTopic, StoreInv, StoreTypeOK
<1> QED BY <1>1, <1>2 DEF SaveKnown, FoldDuplicate

\* A row is added beside the others.
LEMMA InsertBesideStep ==
    ASSUME StoreInv, NEW in \in Inputs, InsertBeside(in)
    PROVE  StoreInv'
<1> DEFINE n == lastId + 1
<1>1. /\ rows \in [Ids -> Row] /\ lastId \in 0..MaxId /\ Ids \subseteq 1..lastId
      /\ edges \subseteq Ids \X Ids /\ now \in Times
  BY DEF StoreInv, StoreTypeOK
<1>2. lastId < MaxId /\ lastId' = n /\ now' = now /\ edges' = edges
      /\ rows' = Added(rows, NewRow(in, 0))
  BY DEF InsertBeside, Inserts
<1>3. n \notin Ids /\ n \in 1..MaxId
  BY <1>1, <1>2, StoreAssumption
<1>4. NewRow(in, 0) \in Row
  BY <1>1, StoreAssumption DEF NewRow, Inputs, Row, Deleted
<1>5. /\ Ids' = Ids \cup {n} /\ rows'[n] = NewRow(in, 0)
      /\ \A i \in Ids : rows'[i] = rows[i]
  BY <1>2, <1>3 DEF Added, Ids
<1>6. StoreTypeOK'
  <2>1. rows' \in [Ids' -> Row]
    BY <1>1, <1>2, <1>4, <1>5 DEF Added, Ids
  <2>2. Ids' \subseteq 1..lastId' /\ edges' \subseteq Ids' \X Ids' /\ lastId' \in 0..MaxId
    BY <1>1, <1>2, <1>3, <1>5, StoreAssumption
  <2> QED BY <1>1, <1>2, <2>1, <2>2 DEF StoreTypeOK
<1>7. rows'[n].by = 0 /\ rows'[n].deleted = "no"
  BY <1>5 DEF NewRow
<1>8. \A i \in Ids' :
        /\ rows'[i].deleted = "superseded" <=> rows'[i].by # 0
        /\ rows'[i].by # 0 => rows'[i].by \in Ids' /\ rows'[i].by > i
                              /\ rows'[rows'[i].by].sups = 1
  BY <1>5, <1>7 DEF StoreInv, SupersessionSound
<1>9. \A i, j \in Ids' : rows'[i].by # 0 /\ rows'[i].by = rows'[j].by => i = j
  BY <1>5, <1>7 DEF StoreInv, SupersessionSound
<1>10. \A e \in edges' : rows'[e[2]].by = e[1]
  <2>1. \A e \in edges : e[2] \in Ids /\ rows[e[2]].by = e[1]
    BY <1>1 DEF StoreInv, SupersessionSound
  <2> QED BY <2>1, <1>2, <1>5
<1> QED BY <1>6, <1>8, <1>9, <1>10 DEF StoreInv, SupersessionSound

\* A row is added and one live row is superseded by it.
LEMMA InsertSupersedingStep ==
    ASSUME StoreInv, NEW in \in Inputs, InsertSuperseding(in)
    PROVE  StoreInv'
<1> DEFINE n == lastId + 1
<1>1. /\ rows \in [Ids -> Row] /\ lastId \in 0..MaxId /\ Ids \subseteq 1..lastId
      /\ edges \subseteq Ids \X Ids /\ now \in Times
  BY DEF StoreInv, StoreTypeOK
<1>2. PICK old \in Candidates(in) :
        /\ lastId < MaxId /\ lastId' = n /\ now' = now
        /\ rows' = Added([rows EXCEPT ![old].deleted = "superseded", ![old].by = n],
                         NewRow(in, 1))
        /\ edges' = edges \/ edges' = edges \cup {<<n, old>>}
  BY DEF InsertSuperseding, Inserts
<1> DEFINE marked == [rows EXCEPT ![old].deleted = "superseded", ![old].by = n]
<1>3. n \notin Ids /\ n \in 1..MaxId
  BY <1>1, <1>2, StoreAssumption
<1>4. old \in Ids /\ rows[old].deleted = "no" /\ rows[old].by = 0 /\ old < n
  <2>1. old \in Ids /\ Active(old)
    BY DEF Candidates
  <2>2. rows[old].deleted = "superseded" <=> rows[old].by # 0
    BY <2>1 DEF StoreInv, SupersessionSound
  <2> QED BY <1>1, <2>1, <2>2 DEF Active
<1>5. NewRow(in, 1) \in Row
  BY <1>1, StoreAssumption DEF NewRow, Inputs, Row, Deleted
<1>6. /\ marked \in [Ids -> Row]
      /\ marked[old].by = n /\ marked[old].deleted = "superseded"
      /\ marked[old].sups = rows[old].sups
      /\ \A i \in Ids \ {old} : marked[i] = rows[i]
  <2> DEFINE row == [rows[old] EXCEPT !.deleted = "superseded", !.by = n]
  <2>1. marked = [rows EXCEPT ![old] = row]
    BY <1>1, <1>4
  <2>2. n \in 0..MaxId /\ rows[old] \in Row
    BY <1>1, <1>3, <1>4
  <2>3. row \in Row /\ row.by = n /\ row.deleted = "superseded" /\ row.sups = rows[old].sups
    BY <2>2 DEF Row, Deleted
  <2> HIDE DEF row, marked
  <2> QED BY <1>1, <1>4, <2>1, <2>3
<1> HIDE DEF marked
<1>7. /\ Ids' = Ids \cup {n} /\ rows'[n] = NewRow(in, 1)
      /\ \A i \in Ids : rows'[i] = marked[i]
  BY <1>2, <1>3 DEF Added, Ids, marked
<1>8. StoreTypeOK'
  <2>1. rows' \in [Ids' -> Row]
    BY <1>2, <1>5, <1>6, <1>7 DEF Added, Ids, marked
  <2>2. Ids' \subseteq 1..lastId' /\ edges' \subseteq Ids' \X Ids' /\ lastId' \in 0..MaxId
    BY <1>1, <1>2, <1>3, <1>4, <1>7, StoreAssumption
  <2> QED BY <1>1, <1>2, <2>1, <2>2 DEF StoreTypeOK
<1>9. rows'[n].by = 0 /\ rows'[n].deleted = "no" /\ rows'[n].sups = 1
  BY <1>7 DEF NewRow
<1>10. \A i \in Ids : rows[i].by # n
  BY <1>3, <1>1 DEF StoreInv, SupersessionSound
<1>11. \A i \in Ids' :
         /\ rows'[i].deleted = "superseded" <=> rows'[i].by # 0
         /\ rows'[i].by # 0 => rows'[i].by \in Ids' /\ rows'[i].by > i
                               /\ rows'[rows'[i].by].sups = 1
  <2> SUFFICES ASSUME NEW i \in Ids' PROVE
         /\ rows'[i].deleted = "superseded" <=> rows'[i].by # 0
         /\ rows'[i].by # 0 => rows'[i].by \in Ids' /\ rows'[i].by > i
                               /\ rows'[rows'[i].by].sups = 1
    OBVIOUS
  <2>1. CASE i = n
    BY <2>1, <1>9
  <2>2. CASE i = old
    BY <2>2, <1>3, <1>4, <1>6, <1>7, <1>9
  <2>3. CASE i \in Ids /\ i # old
    <3>1. rows'[i] = rows[i]
      BY <2>3, <1>6, <1>7
    <3>2. \A j \in Ids : rows'[j].sups = rows[j].sups
      BY <1>6, <1>7
    <3> QED BY <2>3, <3>1, <3>2, <1>7 DEF StoreInv, SupersessionSound
  <2> QED BY <2>1, <2>2, <2>3, <1>7
<1>12. \A i, j \in Ids' : rows'[i].by # 0 /\ rows'[i].by = rows'[j].by => i = j
  BY <1>3, <1>4, <1>6, <1>7, <1>9, <1>10 DEF StoreInv, SupersessionSound
<1>13. \A e \in edges' : rows'[e[2]].by = e[1]
  <2>1. \A e \in edges : e[2] \in Ids /\ e[1] \in Ids /\ rows[e[2]].by = e[1]
    BY <1>1 DEF StoreInv, SupersessionSound
  <2>2. \A e \in edges : e[2] # old
    BY <2>1, <1>1, <1>4
  <2>3. \A e \in edges : rows'[e[2]].by = e[1]
    BY <2>1, <2>2, <1>6, <1>7
  <2>4. rows'[old].by = n
    BY <1>4, <1>6, <1>7
  <2> HIDE DEF n
  <2>5. \A e : e = <<n, old>> => e[1] = n /\ e[2] = old
    OBVIOUS
  <2>6. \A e \in edges' : e \in edges \/ e = <<n, old>>
    BY <1>2
  <2> QED BY <2>3, <2>4, <2>5, <2>6
<1> QED BY <1>8, <1>11, <1>12, <1>13 DEF StoreInv, SupersessionSound

\* Updates and soft deletes touch live rows only, which nothing supersedes.
LEMMA EditStep ==
    ASSUME StoreInv, NEW i \in Ids,
           SoftDelete(i) \/ \E p \in Patches : Update(i, p)
    PROVE  StoreInv'
<1>1. rows \in [Ids -> Row] /\ now \in Times
  BY DEF StoreInv, StoreTypeOK
<1>2. CASE SoftDelete(i)
  <2>1. rows' = [rows EXCEPT ![i].deleted = "soft"] /\ rows[i].deleted = "no"
    BY <1>2 DEF SoftDelete, Active
  <2>2. Ids' = Ids /\ rows' \in [Ids -> Row]
    BY <1>1, <2>1 DEF Ids, Row, Deleted
  <2>3. \A j \in Ids :
          /\ rows'[j].by = rows[j].by /\ rows'[j].sups = rows[j].sups
          /\ rows'[j].deleted = "superseded" <=> rows[j].deleted = "superseded"
    BY <1>1, <2>1 DEF Row
  <2> QED BY <1>1, <1>2, <2>2, <2>3, QuietStep DEF SoftDelete
<1>3. CASE \E p \in Patches : Update(i, p)
  <2>1. PICK p \in Patches : Update(i, p)
    BY <1>3
  <2>2. rows' = [rows EXCEPT ![i].title = p.title, ![i].content = p.content,
                             ![i].scope = p.scope, ![i].type = p.type,
                             ![i].topic = p.topic]
    BY <2>1 DEF Update
  <2>3. Ids' = Ids /\ rows' \in [Ids -> Row]
    BY <1>1, <2>2 DEF Ids, Row, Patches
  <2>4. \A j \in Ids :
          /\ rows'[j].by = rows[j].by /\ rows'[j].sups = rows[j].sups
          /\ rows'[j].deleted = rows[j].deleted
    BY <1>1, <2>2 DEF Row
  <2> QED BY <1>1, <2>1, <2>3, <2>4, QuietStep DEF Update
<1> QED BY <1>2, <1>3

\* Only a row that superseded nobody can go, and its edges go with it.
LEMMA HardDeleteStep ==
    ASSUME StoreInv, NEW i \in Ids, HardDelete(i)
    PROVE  StoreInv'
<1>1. /\ rows \in [Ids -> Row] /\ Ids \subseteq 1..lastId /\ edges \subseteq Ids \X Ids
  BY DEF StoreInv, StoreTypeOK
<1>2. /\ Ids' = Ids \ {i} /\ rows' \in [Ids' -> Row]
      /\ \A j \in Ids' : rows'[j] = rows[j]
  BY <1>1 DEF HardDelete, Restrict, Ids
<1>3. \A j \in Ids : rows[j].by # i
  BY DEF HardDelete
<1>4. edges' = {e \in edges : e[1] # i /\ e[2] # i} /\ lastId' = lastId /\ now' = now
  BY DEF HardDelete
<1>5. StoreTypeOK'
  BY <1>1, <1>2, <1>4 DEF StoreInv, StoreTypeOK
<1>6. SupersessionSound'
  <2>1. \A j \in Ids' : rows'[j].by # 0 => rows'[j].by \in Ids' /\ rows'[rows'[j].by] = rows[rows[j].by]
    BY <1>2, <1>3 DEF StoreInv, SupersessionSound
  <2>2. \A e \in edges' : e[2] \in Ids'
    BY <1>1, <1>2, <1>4
  <2> QED BY <1>2, <1>4, <2>1, <2>2 DEF StoreInv, SupersessionSound
<1> QED BY <1>5, <1>6 DEF StoreInv

\* Every handler keeps the invariant.
LEMMA StoreStep == StoreInv /\ [StoreNext]_storeVars => StoreInv'
<1> SUFFICES ASSUME StoreInv, [StoreNext]_storeVars PROVE StoreInv'
  OBVIOUS
<1>1. CASE \E in \in Inputs : Save(in)
  BY <1>1, InPlaceSave, InsertBesideStep, InsertSupersedingStep DEF Save
<1>2. CASE \E i \in Ids :
             (\E p \in Patches : Update(i, p)) \/ SoftDelete(i) \/ HardDelete(i)
  BY <1>2, EditStep, HardDeleteStep
<1>3. CASE Tick
  BY <1>3, QuietStep DEF Tick, StoreInv, StoreTypeOK, Ids
<1>4. CASE UNCHANGED storeVars
  BY <1>4, QuietStep DEF storeVars, StoreInv, StoreTypeOK, Ids
<1> QED BY <1>1, <1>2, <1>3, <1>4 DEF StoreNext

\* Ids, rows and edges keep their types; no edge outlives a row it names.
THEOREM StoreTypeCorrect == StoreSpec => []StoreTypeOK
<1>1. StoreInv => StoreTypeOK
  BY DEF StoreInv
<1> QED BY <1>1, StoreInvInit, StoreStep, PTL DEF StoreSpec

\* Supersession is a forest of live references in every reachable table.
THEOREM SupersessionStaysSound == StoreSpec => []SupersessionSound
<1>1. StoreInv => SupersessionSound
  BY DEF StoreInv
<1> QED BY <1>1, StoreInvInit, StoreStep, PTL DEF StoreSpec

------------------------------------------------------------------------------
(* What a step may do to the rows that are there already.                            *)

\* What a save that adds a row does: the row is live and as requested, its topic was
\* free, and of the others at most a conflict candidate is touched.
LEMMA SaveThatInserts ==
    ASSUME StoreTypeOK, NEW in, Save(in), lastId' # lastId
    PROVE  /\ lastId' \notin Ids /\ Ids' = Ids \cup {lastId'} /\ TopicMatches(in) = {}
           /\ rows'[lastId'].deleted = "no" /\ rows'[lastId'].topic = in.topic
           /\ rows'[lastId'].scope = in.scope /\ rows'[lastId'].type = in.type
           /\ \A i \in Ids : \/ rows'[i] = rows[i]
                             \/ /\ i \in Candidates(in)
                                /\ rows'[i].deleted = "superseded" /\ rows'[i].by = lastId'
<1> DEFINE n == lastId + 1
<1>1. rows \in [Ids -> Row] /\ lastId \in 0..MaxId /\ Ids \subseteq 1..lastId
  BY DEF StoreTypeOK
<1>2. InsertBeside(in) \/ InsertSuperseding(in)
  BY DEF Save, SaveKnown, UpsertTopic, FoldDuplicate, storeVars
<1>3. lastId' = n /\ TopicMatches(in) = {}
  BY <1>2 DEF InsertBeside, InsertSuperseding, Inserts
<1>4. n \notin Ids
  BY <1>1, StoreAssumption
<1>5. CASE InsertBeside(in)
  <2>1. rows' = [i \in Ids \cup {n} |-> IF i \in Ids THEN rows[i] ELSE NewRow(in, 0)]
    BY <1>5 DEF InsertBeside, Added
  <2>2. Ids' = Ids \cup {n} /\ rows'[n] = NewRow(in, 0) /\ \A i \in Ids : rows'[i] = rows[i]
    BY <2>1, <1>4 DEF Ids
  <2> QED BY <1>3, <1>4, <2>2 DEF NewRow
<1>6. CASE InsertSuperseding(in)
  <2>1. PICK old \in Candidates(in) :
          rows' = Added([rows EXCEPT ![old].deleted = "superseded", ![old].by = n],
                        NewRow(in, 1))
    BY <1>6 DEF InsertSuperseding
  <2> DEFINE marked == [rows EXCEPT ![old].deleted = "superseded", ![old].by = n]
  <2>2. old \in Ids /\ rows[old] \in Row
    BY <1>1 DEF Candidates
  <2>3. /\ marked[old].deleted = "superseded" /\ marked[old].by = n
        /\ \A i \in Ids \ {old} : marked[i] = rows[i]
    BY <1>1, <2>2 DEF Row
  <2> HIDE DEF marked
  <2>4. rows' = [i \in Ids \cup {n} |-> IF i \in Ids THEN marked[i] ELSE NewRow(in, 1)]
    BY <2>1 DEF Added, marked
  <2>5. Ids' = Ids \cup {n} /\ rows'[n] = NewRow(in, 1) /\ \A i \in Ids : rows'[i] = marked[i]
    BY <2>4, <1>4 DEF Ids
  <2>6. rows'[n].deleted = "no" /\ rows'[n].topic = in.topic /\ rows'[n].scope = in.scope
        /\ rows'[n].type = in.type
    BY <2>5 DEF NewRow
  <2>7. \A i \in Ids : \/ rows'[i] = rows[i]
                       \/ /\ i \in Candidates(in)
                          /\ rows'[i].deleted = "superseded" /\ rows'[i].by = n
    BY <2>3, <2>5
  <2> HIDE DEF n
  <2> QED BY <1>3, <1>4, <2>5, <2>6, <2>7
<1> QED BY <1>2, <1>5, <1>6

\* A step other than a save leaves lastId alone.
LEMMA OnlySavesInsert ==
    ASSUME [StoreNext]_storeVars, lastId' # lastId
    PROVE  \E in \in Inputs : Save(in)
BY DEF StoreNext, Update, SoftDelete, HardDelete, Tick, storeVars

\* An insert leaves its row live and takes a row out of sight only in favour of it,
\* within its scope and its type.
THEOREM InsertsReplaceTheirLike == StoreSpec => InsertHidesOnlyReplaced
<1>1. ASSUME StoreTypeOK, [StoreNext]_storeVars, lastId' # lastId
      PROVE  /\ lastId' \in Ids' /\ rows'[lastId'].deleted = "no"
             /\ \A i \in Ids : Active(i) =>
                   /\ i \in Ids'
                   /\ rows'[i].deleted # "no" =>
                         /\ rows'[i].by = lastId'
                         /\ rows[i].scope = rows'[lastId'].scope
                         /\ rows[i].type = rows'[lastId'].type
  <2>1. PICK in \in Inputs : Save(in)
    BY <1>1, OnlySavesInsert
  <2>2. /\ Ids' = Ids \cup {lastId'} /\ rows'[lastId'].deleted = "no"
        /\ rows'[lastId'].scope = in.scope /\ rows'[lastId'].type = in.type
        /\ \A i \in Ids : rows'[i] = rows[i] \/ (i \in Candidates(in) /\ rows'[i].by = lastId')
    BY <1>1, <2>1, SaveThatInserts
  <2> QED BY <2>2 DEF Candidates, Active
<1>2. StoreTypeOK /\ [StoreNext]_storeVars =>
        [lastId' # lastId =>
          /\ lastId' \in Ids' /\ rows'[lastId'].deleted = "no"
          /\ \A i \in Ids : Active(i) =>
                /\ i \in Ids'
                /\ rows'[i].deleted # "no" =>
                      /\ rows'[i].by = lastId'
                      /\ rows[i].scope = rows'[lastId'].scope
                      /\ rows[i].type = rows'[lastId'].type]_storeVars
  BY <1>1
<1> QED BY <1>2, StoreTypeCorrect, PTL DEF StoreSpec, InsertHidesOnlyReplaced

\* A save with a topic never adds a row beside a live one of its topic and scope.
THEOREM SavesNeverForkTopics == StoreSpec => SaveNeverForksTopic
<1>1. ASSUME StoreTypeOK, lastId' # lastId, rows'[lastId'].topic # NoTopic,
             Save(RequestOf(lastId, FALSE)'),
             NEW i \in Ids' \ {lastId'}, rows'[i].deleted = "no"
      PROVE  rows'[i].topic # rows'[lastId'].topic \/ rows'[i].scope # rows'[lastId'].scope
  <2> DEFINE asked == [sync |-> rows'[lastId'].sync, title |-> rows'[lastId'].title,
                       content |-> rows'[lastId'].content, scope |-> rows'[lastId'].scope,
                       type |-> rows'[lastId'].type, topic |-> rows'[lastId'].topic,
                       skip |-> FALSE]
  <2>1. RequestOf(lastId, FALSE)' = asked
    BY DEF RequestOf
  <2>2. /\ asked.topic = rows'[lastId'].topic /\ asked.scope = rows'[lastId'].scope
        /\ asked.skip = FALSE
    OBVIOUS
  <2>3. Save(asked)
    BY <1>1, <2>1
  <2> HIDE DEF asked
  <2>4. /\ Ids' = Ids \cup {lastId'} /\ TopicMatches(asked) = {}
        /\ \A j \in Ids : rows'[j] = rows[j] \/ rows'[j].deleted = "superseded"
    BY <1>1, <2>3, SaveThatInserts
  <2>5. i \in Ids /\ rows'[i] = rows[i] /\ rows[i].deleted = "no"
    BY <1>1, <2>4
  <2> QED BY <1>1, <2>2, <2>4, <2>5 DEF TopicMatches, Active
<1>2. StoreTypeOK => [lastId' # lastId /\ rows'[lastId'].topic # NoTopic
                 /\ Save(RequestOf(lastId, FALSE)') =>
                    \A i \in Ids' \ {lastId'} :
                       rows'[i].deleted = "no" => \/ rows'[i].topic # rows'[lastId'].topic
                                                  \/ rows'[i].scope # rows'[lastId'].scope]_storeVars
  BY <1>1
<1> QED BY <1>2, StoreTypeCorrect, PTL DEF StoreSpec, SaveNeverForksTopic

\* A row that has left the live set is never changed again, least of all revived.
THEOREM DeletedRowsStayFrozen == StoreSpec => DeletedRowsFrozen
<1>1. ASSUME StoreTypeOK, [StoreNext]_storeVars, NEW i \in Ids, ~Active(i), i \in Ids'
      PROVE  rows'[i] = rows[i]
  <2>1. rows \in [Ids -> Row]
    BY <1>1 DEF StoreTypeOK
  <2>2. CASE \E in \in Inputs : Save(in)
    <3>1. PICK in \in Inputs : Save(in)
      BY <2>2
    <3>2. CASE lastId' # lastId
      <4>1. i \notin Candidates(in)
        BY <1>1 DEF Candidates
      <4> QED BY <1>1, <3>1, <3>2, <4>1, SaveThatInserts
    <3>3. CASE UpsertTopic(in)
      BY <1>1, <2>1, <3>3 DEF UpsertTopic, TopicMatches
    <3>4. CASE lastId' = lastId /\ ~UpsertTopic(in)
      <4>1. lastId' # lastId + 1
        BY <1>1, <3>4, StoreAssumption DEF StoreTypeOK
      <4>2. UNCHANGED storeVars
        BY <3>1, <3>4, <4>1
           DEF Save, SaveKnown, FoldDuplicate, InsertBeside, InsertSuperseding, Inserts
      <4> QED BY <4>2 DEF storeVars
    <3> QED BY <3>2, <3>3, <3>4
  <2>3. CASE \E j \in Ids : SoftDelete(j) \/ \E p \in Patches : Update(j, p)
    <3>1. PICK j \in Ids : SoftDelete(j) \/ \E p \in Patches : Update(j, p)
      BY <2>3
    <3>2. j # i
      BY <1>1, <3>1 DEF SoftDelete, Update
    <3> QED BY <2>1, <3>1, <3>2 DEF SoftDelete, Update
  <2>4. CASE \E j \in Ids : HardDelete(j)
    BY <1>1, <2>1, <2>4 DEF HardDelete, Restrict, Ids
  <2>5. CASE Tick \/ UNCHANGED storeVars
    BY <2>5 DEF Tick, storeVars
  <2> QED BY <1>1, <2>2, <2>3, <2>4, <2>5 DEF StoreNext
<1>2. StoreTypeOK /\ [StoreNext]_storeVars => [\A i \in Ids : ~Active(i) /\ i \in Ids' => rows'[i] = rows[i]]_storeVars
  BY <1>1
<1> QED BY <1>2, StoreTypeCorrect, PTL DEF StoreSpec, DeletedRowsFrozen

------------------------------------------------------------------------------
(***************************************************************************)
(* What an observation's state says about its anchors is true of the       *)
(* commits it names, for any repository, any files and any number of saves  *)
(* and verifications: commits never change, an anchor is written with a      *)
(* digest of the commit it names, and a verdict is about the commit that was *)
(* read before the anchors were.                                             *)
(***************************************************************************)

States == {"unanchored", "verified", "stale", "invalidated", "unprovable"}

\* An anchor names a commit of the repository, or none, and is true of it.
AnchorOK(a) ==
    /\ a.obs \in Obs /\ a.path \in Paths /\ a.symbol \in BOOLEAN
    /\ a.commit \in 0..Len(repo)
    /\ a.commit # 0 => Honest(a)

RepoOK == repo \in Seq(Trees) /\ head \in 1..Len(repo)

Unique ==
    \A a, b \in anchors :
        a.symbol /\ b.symbol /\ a.obs = b.obs /\ a.path = b.path => a = b

AnchorsOK == Unique /\ \A a \in anchors : AnchorOK(a)

SaveOK ==
    /\ save.pc \in {"idle", "stamp"}
    /\ save.pc = "stamp" =>
          save.obs \in Obs /\ save.places \subseteq Places /\ save.commit \in 1..Len(repo)

VerifyOK ==
    /\ DOMAIN verify = {"pc", "commit", "read"}
    /\ verify.pc \in {"idle", "read", "apply"}
    /\ verify.pc # "idle" => verify.commit \in 1..Len(repo)
    /\ verify.pc = "apply" => \A a \in verify.read : AnchorOK(a)

\* The state of an observation is about a commit of the repository and about anchors of
\* this observation, and it was earned.
StateOK(o) ==
    /\ state[o].is \in States /\ state[o].commit \in 0..Len(repo)
    /\ state[o].is # "unanchored" => basis[o].at \in 1..Len(repo)
    /\ \A a \in basis[o].of : AnchorOK(a)
    /\ state[o].is = "verified" =>
          /\ state[o].commit = basis[o].at
          /\ \A a \in Stamped(o) :
                Honest(a) /\ (basis[o].guessed \/ Stands(a, state[o].commit))
    /\ state[o].is \in {"stale", "invalidated", "unprovable"} =>
          /\ state[o].commit = 0
          /\ \E a \in Stamped(o) : ~Stands(a, basis[o].at) \/ a \in basis[o].unshown

StatesOK ==
    /\ DOMAIN state = Obs /\ DOMAIN basis = Obs
    /\ \A o \in Obs : StateOK(o)

AnchorInv == RepoOK /\ AnchorsOK /\ SaveOK /\ VerifyOK /\ StatesOK

-----------------------------------------------------------------------------
(* The repository only grows. *)

Grown ==
    /\ RepoOK /\ RepoOK' /\ Len(repo) \in Nat /\ Len(repo') \in Nat /\ Len(repo) <= Len(repo')
    /\ \A c \in 1..Len(repo) : repo'[c] = repo[c]

LEMMA RepoGrows == RepoOK /\ [AnchorsNext]_anchorsVars => Grown
<1> SUFFICES ASSUME RepoOK, [AnchorsNext]_anchorsVars PROVE Grown
  OBVIOUS
<1>1. repo \in Seq(Trees) /\ head \in 1..Len(repo) /\ Len(repo) \in Nat /\ DOMAIN repo = 1..Len(repo)
  BY LenProperties DEF RepoOK
<1>2. CASE \E t \in Trees : CommitTree(t)
  <2>1. PICK t \in Trees : CommitTree(t)
    BY <1>2
  <2>2. /\ repo' = Append(repo, t) /\ head' = Len(repo) + 1
        /\ Append(repo, t) \in Seq(Trees) /\ Len(Append(repo, t)) = Len(repo) + 1
        /\ \A c \in 1..Len(repo) : Append(repo, t)[c] = repo[c]
    BY <1>1, <2>1, AppendProperties DEF CommitTree
  <2> QED BY <1>1, <2>2 DEF Grown, RepoOK
<1>3. CASE repo' = repo /\ head' \in 1..Len(repo)
  BY <1>1, <1>3 DEF Grown, RepoOK
<1>4. CASE \E c \in 1..MaxCommits : Checkout(c)
  <2>1. repo' = repo /\ head' \in 1..Len(repo)
    BY <1>1, <1>4 DEF Checkout
  <2> QED BY <1>3, <2>1
<1>5. CASE \/ \E o \in Obs, ps \in SUBSET Places \ {{}} : StampBegin(o, ps)
           \/ StampWrite \/ StampNoRepo \/ StampFails
           \/ VerifyHead \/ VerifyRead \/ VerifyApply \/ UNCHANGED anchorsVars
  <2>1. repo' = repo /\ head' = head
    BY <1>5 DEF StampBegin, StampWrite, StampNoRepo, StampFails, VerifyHead, VerifyRead,
                VerifyApply, anchorsVars
  <2> QED BY <1>1, <1>3, <2>1
<1> QED BY <1>2, <1>4, <1>5 DEF AnchorsNext

\* What is true of an anchor stays true of it.
LEMMA AnchorStays == ASSUME Grown, NEW a, AnchorOK(a) PROVE AnchorOK(a)'
<1>1. a.commit \in 0..Len(repo')
  BY DEF Grown, AnchorOK
<1>2. ASSUME a.commit # 0 PROVE Honest(a)'
  <2>1. a.commit \in 1..Len(repo)
    BY <1>2 DEF Grown, AnchorOK
  <2>2. repo'[a.commit] = repo[a.commit]
    BY <2>1 DEF Grown
  <2> QED BY <1>2, <2>2 DEF AnchorOK, Honest, Digests
<1> QED BY <1>1, <1>2 DEF AnchorOK

\* An anchor stands in the commits in which it stood, and no others.
LEMMA StandsStays ==
    ASSUME Grown, NEW a, a.commit \in 1..Len(repo), NEW c \in 1..Len(repo)
    PROVE  Stands(a, c)' <=> Stands(a, c)
<1>1. repo'[a.commit] = repo[a.commit] /\ repo'[c] = repo[c]
  BY DEF Grown
<1> QED BY <1>1 DEF Stands

\* A state that nobody touches stays earned.
LEMMA StateStays ==
    ASSUME Grown, NEW o \in Obs, StateOK(o), state'[o] = state[o], basis'[o] = basis[o]
    PROVE  StateOK(o)'
<1>1. /\ state'[o].is \in States /\ state'[o].commit \in 0..Len(repo')
      /\ state'[o].is # "unanchored" => basis'[o].at \in 1..Len(repo')
  BY DEF StateOK, Grown
<1>2. \A a \in basis'[o].of : AnchorOK(a)'
  BY AnchorStays DEF StateOK
<1>3. \A a \in Stamped(o) : AnchorOK(a) /\ AnchorOK(a)' /\ a.commit # 0 /\ a.commit \in 1..Len(repo)
  BY <1>2 DEF StateOK, Stamped, AnchorOK, Grown
<1>4. Stamped(o)' = Stamped(o)
  BY DEF Stamped
<1>5. ASSUME state[o].is = "verified", NEW a \in Stamped(o)
      PROVE  Honest(a)' /\ (basis[o].guessed \/ Stands(a, state[o].commit)')
  <2>1. state[o].commit \in 1..Len(repo)
    BY <1>5 DEF StateOK
  <2>2. Stands(a, state[o].commit) => Stands(a, state[o].commit)'
    <3> DEFINE c == state[o].commit
    <3>1. \A d \in 1..Len(repo) : d = c => (Stands(a, d) <=> Stands(a, c))
      OBVIOUS
    <3>2. \A d \in 1..Len(repo) : d = state'[o].commit => (Stands(a, d)' <=> Stands(a, state[o].commit)')
      BY DEF Stands
    <3> QED BY <2>1, <3>1, <3>2, <1>3, StandsStays
  <2>3. Honest(a)'
    BY <1>3 DEF AnchorOK
  <2> QED BY <1>5, <2>2, <2>3 DEF StateOK
<1>6. ASSUME state[o].is \in {"stale", "invalidated", "unprovable"}
      PROVE  \E a \in Stamped(o) : ~Stands(a, basis[o].at)' \/ a \in basis'[o].unshown
  <2>1. PICK a \in Stamped(o) : ~Stands(a, basis[o].at) \/ a \in basis[o].unshown
    BY <1>6 DEF StateOK
  <2>2. basis[o].at \in 1..Len(repo)
    BY <1>6 DEF StateOK
  <2>3. \A d \in 1..Len(repo) : d = basis'[o].at => (Stands(a, d)' <=> Stands(a, basis[o].at)')
    BY DEF Stands
  <2> QED BY <1>3, <2>1, <2>2, <2>3, StandsStays
<1>7. /\ state'[o].is = "verified" => state'[o].commit = basis'[o].at
      /\ state'[o].is \in {"stale", "invalidated", "unprovable"} => state'[o].commit = 0
  BY DEF StateOK
<1> QED BY <1>1, <1>2, <1>4, <1>5, <1>6, <1>7 DEF StateOK

-----------------------------------------------------------------------------
(* Saves. *)

\* What is stored for a save: anchors of its observation, true of the commit they name,
\* one for each place.
LEMMA AnchoredIsOK ==
    ASSUME RepoOK, SaveOK, save.pc = "stamp", NEW commit \in {0, save.commit}, NEW digest,
           commit # 0 => \A p \in save.places : digest[p] \in Digests(commit, p.path)
    PROVE  /\ \A a \in Anchored(commit, digest) :
                 AnchorOK(a) /\ a.obs = save.obs /\ a.commit = commit
           /\ \A a, b \in Anchored(commit, digest) :
                 a.path = b.path /\ a.symbol = b.symbol => a = b
<1>1. /\ save.obs \in Obs /\ save.places \subseteq Places /\ commit \in 0..Len(repo)
      /\ Len(repo) \in Nat
  BY LenProperties DEF SaveOK, RepoOK
<1>2. ASSUME NEW a \in Anchored(commit, digest)
      PROVE  /\ AnchorOK(a) /\ a.obs = save.obs /\ a.commit = commit
             /\ \E p \in save.places : /\ p.path = a.path /\ p.symbol = a.symbol
                                       /\ a.digest = digest[p]
  <2>1. PICK p \in save.places :
          a = [obs |-> save.obs, path |-> p.path, symbol |-> p.symbol, commit |-> commit,
               digest |-> digest[p]]
    BY <1>2 DEF Anchored
  <2>2. p.path \in Paths /\ p.symbol \in BOOLEAN
    BY <1>1 DEF Places
  <2>3. /\ a.obs = save.obs /\ a.path = p.path /\ a.symbol = p.symbol /\ a.commit = commit
        /\ a.digest = digest[p]
    BY <2>1
  <2> QED BY <1>1, <2>2, <2>3 DEF AnchorOK, Honest
<1>3. ASSUME NEW a \in Anchored(commit, digest), NEW b \in Anchored(commit, digest),
             a.path = b.path, a.symbol = b.symbol
      PROVE  a = b
  <2>1. PICK p \in save.places :
          a = [obs |-> save.obs, path |-> p.path, symbol |-> p.symbol, commit |-> commit,
               digest |-> digest[p]]
    BY DEF Anchored
  <2>2. PICK q \in save.places :
          b = [obs |-> save.obs, path |-> q.path, symbol |-> q.symbol, commit |-> commit,
               digest |-> digest[q]]
    BY DEF Anchored
  <2>3. p \in Places /\ q \in Places /\ p.path = q.path /\ p.symbol = q.symbol
    BY <1>1, <1>3, <2>1, <2>2
  <2>4. p = q
    BY <2>3 DEF Places
  <2> QED BY <2>1, <2>2, <2>4
<1> QED BY <1>2, <1>3

\* Storing some of them keeps the table sound.
LEMMA InsertIsOK ==
    ASSUME AnchorsOK, NEW new, \A a \in new : AnchorOK(a),
           \A a, b \in new : a.obs = b.obs /\ a.path = b.path /\ a.symbol = b.symbol => a = b,
           anchors' = InsertAnchors(new), repo' = repo
    PROVE  AnchorsOK'
<1>1. \A a \in anchors' : a \in new \/ a \in anchors
  BY DEF InsertAnchors
<1>2. \A a : AnchorOK(a)' <=> AnchorOK(a)
  BY DEF AnchorOK, Honest, Digests
<1>3. \A a \in anchors' : AnchorOK(a)'
  BY <1>1, <1>2 DEF AnchorsOK
<1>4. ASSUME NEW a \in anchors', NEW b \in anchors', a.symbol, b.symbol, a.obs = b.obs,
             a.path = b.path
      PROVE  a = b
  <2>1. AnchorOK(a) /\ AnchorOK(b)
    BY <1>2, <1>3
  <2>2. a.symbol = b.symbol
    BY <1>4, <2>1 DEF AnchorOK
  <2>3. CASE a \in new /\ b \in new
    BY <1>4, <2>2, <2>3
  <2>4. CASE a \notin new /\ b \notin new
    <3>1. a \in anchors /\ b \in anchors
      BY <1>1, <2>4
    <3> QED BY <1>4, <3>1 DEF AnchorsOK, Unique
  <2>5. CASE a \in new /\ b \notin new
    BY <1>4, <2>5 DEF InsertAnchors
  <2>6. CASE a \notin new /\ b \in new
    BY <1>4, <2>6 DEF InsertAnchors
  <2> QED BY <2>3, <2>4, <2>5, <2>6
<1> QED BY <1>3, <1>4 DEF AnchorsOK, Unique

\* What a stamp writes for an observation: its anchors, with the digests of one commit or none.
Stamps(o, commit, digest) ==
    /\ commit \in {0, save.commit}
    /\ commit # 0 => \A p \in save.places : digest[p] \in Digests(commit, p.path)
    /\ anchors' = InsertAnchors(Anchored(commit, digest))
    /\ basis' = [basis EXCEPT ![o] = [of |-> Anchored(commit, digest), at |-> commit,
                                      guessed |-> FALSE, unshown |-> {}]]
    /\ state' = [state EXCEPT ![o] = [is |-> IF commit = 0 THEN "unanchored" ELSE "verified",
                                      commit |-> commit]]

\* The row is stamped with the commit that was read, or stays unanchored.
LEMMA StampStep ==
    ASSUME AnchorInv, Grown, StampWrite \/ StampNoRepo
    PROVE  AnchorInv'
<1>1. save.pc = "stamp" /\ save' = NoSave /\ repo' = repo /\ verify' = verify
  BY DEF StampWrite, StampNoRepo
<1>o. PICK o \in Obs : o = save.obs
  BY <1>1 DEF AnchorInv, SaveOK
<1>2. RepoOK /\ RepoOK' /\ SaveOK /\ save.commit \in 1..Len(repo) /\ Len(repo) \in Nat
  BY <1>1 DEF AnchorInv, SaveOK, Grown
<1>s. PICK commit, digest : Stamps(o, commit, digest)
  <2>1. CASE StampWrite
    <3>1. PICK digest \in DigestsRead :
            /\ anchors' = InsertAnchors(Anchored(save.commit, digest))
            /\ basis' = [basis EXCEPT ![o] = [of |-> Anchored(save.commit, digest),
                                              at |-> save.commit, guessed |-> FALSE,
                                              unshown |-> {}]]
      BY <1>o, <2>1 DEF StampWrite
    <3>2. state' = [state EXCEPT ![o] = [is |-> "verified", commit |-> save.commit]]
      BY <1>o, <2>1 DEF StampWrite
    <3>3. \A p \in save.places : digest[p] \in Digests(save.commit, p.path)
      BY <3>1 DEF DigestsRead
    <3>4. save.commit # 0
      BY <1>2
    <3>5. Stamps(o, save.commit, digest)
      BY <3>1, <3>2, <3>3, <3>4 DEF Stamps
    <3> QED BY <3>5
  <2>2. CASE StampNoRepo
    <3> DEFINE none == [p \in save.places |-> None]
    <3>1. /\ anchors' = InsertAnchors(Anchored(0, none))
          /\ basis' = [basis EXCEPT ![o] = [of |-> Anchored(0, none), at |-> 0, guessed |-> FALSE,
                                            unshown |-> {}]]
          /\ state' = [state EXCEPT ![o] = [is |-> "unanchored", commit |-> 0]]
      BY <1>o, <2>2 DEF StampNoRepo, Bare
    <3> HIDE DEF none
    <3>2. Stamps(o, 0, none)
      BY <3>1 DEF Stamps
    <3> QED BY <3>2
  <2> QED BY <2>1, <2>2
<1>3. /\ commit \in {0, save.commit}
      /\ commit # 0 => \A p \in save.places : digest[p] \in Digests(commit, p.path)
      /\ anchors' = InsertAnchors(Anchored(commit, digest))
      /\ basis' = [basis EXCEPT ![o] = [of |-> Anchored(commit, digest), at |-> commit,
                                        guessed |-> FALSE, unshown |-> {}]]
      /\ state' = [state EXCEPT ![o] = [is |-> IF commit = 0 THEN "unanchored" ELSE "verified",
                                        commit |-> commit]]
  BY <1>s DEF Stamps
<1> DEFINE new == Anchored(commit, digest)
<1>4. /\ \A a \in new : AnchorOK(a) /\ a.obs = o /\ a.commit = commit
      /\ \A a, b \in new : a.path = b.path /\ a.symbol = b.symbol => a = b
  BY <1>1, <1>2, <1>3, <1>o, AnchoredIsOK
<1> HIDE DEF new
<1>5. AnchorsOK'
  BY <1>1, <1>3, <1>4, InsertIsOK DEF AnchorInv, new
<1>6. DOMAIN state = Obs /\ DOMAIN basis = Obs /\ \A q \in Obs : StateOK(q)
  BY DEF AnchorInv, StatesOK
<1>7. DOMAIN state' = Obs /\ DOMAIN basis' = Obs
  BY <1>3, <1>6
<1>8. \A q \in Obs \ {o} : StateOK(q)'
  <2>1. \A q \in Obs \ {o} : state'[q] = state[q] /\ basis'[q] = basis[q]
    BY <1>3, <1>6
  <2> QED BY <2>1, <1>6, StateStays
<1>9. StateOK(o)'
  <2>1. /\ state'[o].is = (IF commit = 0 THEN "unanchored" ELSE "verified")
        /\ state'[o].commit = commit
        /\ basis'[o].of = new /\ basis'[o].at = commit
    BY <1>2, <1>3, <1>6 DEF new
  <2>2. commit \in 0..Len(repo')
    BY <1>1, <1>2, <1>3
  <2>3. \A a \in basis'[o].of : AnchorOK(a)'
    BY <2>1, <1>4, AnchorStays
  <2>4. \A a \in Stamped(o)' : Honest(a)' /\ a.commit = commit
    BY <2>1, <2>3, <1>4 DEF Stamped, AnchorOK
  <2>5. \A a \in Stamped(o)' : a.commit = state'[o].commit => Stands(a, state[o].commit)'
    BY DEF Stands
  <2> QED BY <2>1, <2>2, <2>3, <2>4, <2>5, <1>1 DEF StateOK, States
<1>10. SaveOK' /\ VerifyOK'
  <2>1. SaveOK'
    BY <1>1 DEF SaveOK, NoSave
  <2>2. VerifyOK'
    BY <1>1, AnchorStays DEF AnchorInv, VerifyOK
  <2> QED BY <2>1, <2>2
<1> QED BY <1>2, <1>5, <1>7, <1>8, <1>9, <1>10 DEF AnchorInv, StatesOK

\* A stamp that fails may leave some of its anchors.
LEMMA StampFailsStep ==
    ASSUME AnchorInv, Grown, StampFails
    PROVE  AnchorInv'
<1>1. /\ save.pc = "stamp" /\ save' = NoSave /\ repo' = repo /\ verify' = verify
      /\ state' = state /\ basis' = basis
  BY DEF StampFails
<1>2. RepoOK /\ RepoOK' /\ SaveOK
  BY DEF AnchorInv, Grown
<1>3. PICK new \in {Bare} \cup {Anchored(save.commit, d) : d \in DigestsRead} :
         \E stored \in SUBSET new : anchors' = InsertAnchors(stored)
  BY DEF StampFails
<1>4. /\ \A a \in new : AnchorOK(a)
      /\ \A a, b \in new : a.path = b.path /\ a.symbol = b.symbol => a = b
  <2>1. CASE new = Bare
    BY <1>1, <1>2, <2>1, AnchoredIsOK DEF Bare
  <2>2. CASE new # Bare
    <3>1. PICK d \in DigestsRead : new = Anchored(save.commit, d)
      BY <2>2
    <3>2. \A p \in save.places : d[p] \in Digests(save.commit, p.path)
      BY DEF DigestsRead
    <3> QED BY <1>1, <1>2, <3>1, <3>2, AnchoredIsOK
  <2> QED BY <2>1, <2>2
<1>5. AnchorsOK'
  <2>1. PICK stored \in SUBSET new : anchors' = InsertAnchors(stored)
    BY <1>3
  <2> QED BY <1>1, <1>4, <2>1, InsertIsOK DEF AnchorInv
<1>6. StatesOK'
  BY <1>1, StateStays DEF AnchorInv, StatesOK
<1>7. SaveOK' /\ VerifyOK'
  <2>1. SaveOK'
    BY <1>1 DEF SaveOK, NoSave
  <2>2. VerifyOK'
    BY <1>1, AnchorStays DEF AnchorInv, VerifyOK
  <2> QED BY <2>1, <2>2
<1> QED BY <1>2, <1>5, <1>6, <1>7 DEF AnchorInv

-----------------------------------------------------------------------------
(* Verifications. *)

\* Of some states one is the worst.
LEMMA WorstOfStates ==
    ASSUME NEW S \in SUBSET States, S # {}
    PROVE  \E s \in S : \A t \in S : Rank(t) <= Rank(s)
<1>1. /\ Rank("unanchored") = 0 /\ Rank("verified") = 1 /\ Rank("stale") = 2
      /\ Rank("invalidated") = 3 /\ Rank("unprovable") = 4
  BY DEF Rank
<1>2. CASE "unprovable" \in S
  BY <1>1, <1>2 DEF States
<1>3. CASE "unprovable" \notin S /\ "invalidated" \in S
  BY <1>1, <1>3 DEF States
<1>4. CASE "unprovable" \notin S /\ "invalidated" \notin S /\ "stale" \in S
  BY <1>1, <1>4 DEF States
<1>5. CASE S \subseteq {"unanchored", "verified"} /\ "verified" \in S
  BY <1>1, <1>5
<1>6. CASE S = {"unanchored"}
  BY <1>1, <1>6
<1> QED BY <1>2, <1>3, <1>4, <1>5, <1>6 DEF States

\* The file of the anchor was asked for and git did not give it.
Unshown(a, to, diff, shown) == Asked(a, to, diff) /\ a \notin shown

\* What verify_one says of an anchor that is true of its commit.
LEMMA VerifyOneSound ==
    ASSUME RepoOK, NEW a, AnchorOK(a), NEW to \in 1..Len(repo), NEW diff, NEW shown
    PROVE  /\ VerifyOne(a, to, diff, shown) \in States
           /\ VerifyOne(a, to, diff, shown) = "unanchored" <=> a.commit = 0
           /\ VerifyOne(a, to, diff, shown) = "verified" =>
                 a.commit \notin diff \cup {0, to} \/ Stands(a, to)
           /\ VerifyOne(a, to, diff, shown) \in {"stale", "invalidated", "unprovable"} =>
                 a.commit # 0 /\ (~Stands(a, to) \/ Unshown(a, to, diff, shown))
<1> DEFINE file == repo[to][a.path]
<1>1. a.path \in Paths /\ a.symbol \in BOOLEAN /\ repo[to] \in Trees
  BY ElementOfSeq DEF AnchorOK, RepoOK
<1>2. file \in Files \cup {Absent}
  BY <1>1 DEF Trees
<1>3. file # Absent => file.symbol \in BOOLEAN /\ file.slice # None
  BY <1>2, AnchorsAssumption
<1>4. CASE a.commit = 0
  BY <1>4 DEF VerifyOne, States
<1>5. CASE a.commit # 0 /\ ~Asked(a, to, diff)
  <2>1. VerifyOne(a, to, diff, shown) = "verified"
    BY <1>5 DEF VerifyOne
  <2>2. a.commit \notin diff \cup {0, to} \/ Stands(a, to)
    BY <1>5 DEF Asked, Changed, Stands
  <2> QED BY <1>5, <2>1, <2>2 DEF States
<1>6. CASE a.commit # 0 /\ Asked(a, to, diff)
  <2>1. repo[a.commit][a.path] # file
    BY <1>6 DEF Asked, Changed
  <2>5. CASE a \notin shown
    <3>1. VerifyOne(a, to, diff, shown) = "unprovable"
      BY <1>6, <2>5 DEF VerifyOne
    <3> QED BY <1>6, <2>5, <3>1 DEF States, Unshown
  <2>2. CASE a \in shown /\ file = Absent
    <3>1. VerifyOne(a, to, diff, shown) = "unprovable"
      BY <1>6, <2>2 DEF VerifyOne
    <3>2. ~Stands(a, to)
      BY <2>1, <2>2 DEF Stands
    <3> QED BY <1>6, <3>1, <3>2 DEF States
  <2>3. CASE a \in shown /\ file # Absent /\ a.symbol /\ ~file.symbol
    <3>1. VerifyOne(a, to, diff, shown) = "invalidated"
      BY <1>6, <2>3 DEF VerifyOne
    <3>2. ~Stands(a, to)
      BY <2>1, <2>3 DEF Stands
    <3> QED BY <1>6, <3>1, <3>2 DEF States
  <2>4. CASE a \in shown /\ file # Absent /\ ~(a.symbol /\ ~file.symbol)
    <3>1. VerifyOne(a, to, diff, shown) = IF a.digest # None /\ file.slice = a.digest
                                   THEN "verified" ELSE "stale"
      BY <1>6, <2>4 DEF VerifyOne
    <3>2. CASE a.digest # None /\ file.slice = a.digest
      <4>1. Stands(a, to)
        BY <1>1, <1>3, <2>4, <3>2 DEF Stands
      <4>2. VerifyOne(a, to, diff, shown) = "verified"
        BY <3>1, <3>2
      <4> QED BY <1>6, <4>1, <4>2 DEF States
    <3>3. CASE ~(a.digest # None /\ file.slice = a.digest)
      <4>1. ~Stands(a, to)
        BY <1>3, <2>1, <2>4, <3>3 DEF Stands
      <4>2. VerifyOne(a, to, diff, shown) = "stale"
        BY <3>1, <3>3
      <4> QED BY <1>6, <4>1, <4>2 DEF States
    <3> QED BY <3>2, <3>3
  <2> QED BY <2>2, <2>3, <2>4, <2>5
<1> QED BY <1>4, <1>5, <1>6

\* The verdict of an observation that was read is one of its anchors' states and no better
\* than any of them.
LEMMA VerdictIsWorst ==
    ASSUME RepoOK, NEW read, \A a \in read : AnchorOK(a), NEW o \in Verified(read),
           NEW to \in 1..Len(repo), NEW diff, NEW shown
    PROVE  /\ Verdict(o, read, to, diff, shown) \in States
           /\ \E a \in read : a.obs = o /\ VerifyOne(a, to, diff, shown) = Verdict(o, read, to, diff, shown)
           /\ \A a \in read : a.obs = o =>
                 Rank(VerifyOne(a, to, diff, shown)) <= Rank(Verdict(o, read, to, diff, shown))
<1> DEFINE of == {a \in read : a.obs = o}
           S == {VerifyOne(a, to, diff, shown) : a \in of}
<1>1. S \in SUBSET States
  BY VerifyOneSound
<1>2. S # {}
  BY DEF Verified
<1>3. \E s \in S : \A t \in S : Rank(t) <= Rank(s)
  <2> HIDE DEF S
  <2> QED BY <1>1, <1>2, WorstOfStates
<1>4. Verdict(o, read, to, diff, shown) = CHOOSE s \in S : \A t \in S : Rank(t) <= Rank(s)
  BY DEF Verdict
<1> DEFINE v == Verdict(o, read, to, diff, shown)
<1>5. v \in S /\ \A t \in S : Rank(t) <= Rank(v)
  <2> HIDE DEF S
  <2> QED BY <1>3, <1>4
<1> QED BY <1>1, <1>5

\* What a verification that was carried out leaves of an observation was earned.
LEMMA VerdictSound ==
    ASSUME RepoOK, NEW read, \A a \in read : AnchorOK(a), NEW o \in Verified(read),
           NEW to \in 1..Len(repo), NEW diff, NEW shown
    PROVE  LET v == Verdict(o, read, to, diff, shown)
               of == {a \in read : a.obs = o}
           IN /\ v \in States
              /\ v = "verified" => \A a \in of :
                    a.commit \notin diff \cup {0, to} \/ a.commit = 0 \/ Stands(a, to)
              /\ v \in {"stale", "invalidated", "unprovable"} =>
                    \E a \in of :
                       a.commit # 0 /\ (~Stands(a, to) \/ Unshown(a, to, diff, shown))
<1> DEFINE v == Verdict(o, read, to, diff, shown)
<1>1. /\ v \in States
      /\ \E a \in read : a.obs = o /\ VerifyOne(a, to, diff, shown) = v
      /\ \A a \in read : a.obs = o => Rank(VerifyOne(a, to, diff, shown)) <= Rank(v)
  BY VerdictIsWorst
<1> HIDE DEF v
<1>2. ASSUME v = "verified", NEW a \in read, a.obs = o, a.commit # 0
      PROVE  a.commit \notin diff \cup {0, to} \/ Stands(a, to)
  <2>1. VerifyOne(a, to, diff, shown) \in States \ {"unanchored"}
    BY <1>2, VerifyOneSound
  <2>2. Rank(VerifyOne(a, to, diff, shown)) <= 1
    <3>1. Rank(v) = 1
      BY <1>2 DEF Rank
    <3> QED BY <1>1, <1>2, <3>1
  <2>3. \A s \in States \ {"unanchored", "verified"} : Rank(s) \in 2..4
    BY DEF Rank, States
  <2>4. VerifyOne(a, to, diff, shown) = "verified"
    BY <2>1, <2>2, <2>3
  <2> QED BY <2>4, VerifyOneSound
<1>3. ASSUME v \in {"stale", "invalidated", "unprovable"}
      PROVE  \E a \in read :
                /\ a.obs = o
                /\ a.commit # 0 /\ (~Stands(a, to) \/ Unshown(a, to, diff, shown))
  BY <1>1, <1>3, VerifyOneSound
<1> QED BY <1>1, <1>2, <1>3 DEF v

\* The verdicts of what was read are written, all of them or some.
LEMMA ApplyStep ==
    ASSUME AnchorInv, Grown, VerifyApply
    PROVE  AnchorInv'
<1>1. /\ verify.pc = "apply" /\ save' = NoSave /\ verify' = NoVerify /\ repo' = repo
      /\ anchors' = anchors
  BY DEF VerifyApply
<1> DEFINE to == verify.commit
           read == verify.read
<1>2. PICK diff \in SUBSET {a.commit : a \in read}, shown \in SUBSET read, done \in SUBSET Verified(read) :
       /\ state' = [o \in Obs |-> IF o \in done THEN NewState(o, read, to, diff, shown) ELSE state[o]]
       /\ basis' = [o \in Obs |->
            IF o \notin done THEN basis[o]
            ELSE [of |-> {a \in read : a.obs = o}, at |-> to,
                  guessed |-> \E a \in {b \in read : b.obs = o} :
                                 a.commit \notin diff \cup {0, to},
                  unshown |-> {a \in {b \in read : b.obs = o} :
                                 Asked(a, to, diff) /\ a \notin shown}]]
  BY <1>1 DEF VerifyApply
<1>3. to \in 1..Len(repo) /\ \A a \in read : AnchorOK(a)
  BY <1>1 DEF AnchorInv, VerifyOK
<1>4. RepoOK /\ RepoOK' /\ AnchorsOK /\ Len(repo) \in Nat /\ \A o \in Obs : StateOK(o)
  BY DEF AnchorInv, StatesOK, Grown
<1>5. AnchorsOK'
  BY <1>1, <1>4, AnchorStays DEF AnchorsOK, Unique
<1>6. SaveOK' /\ VerifyOK'
  BY <1>1 DEF SaveOK, VerifyOK, NoSave, NoVerify
<1>7. ASSUME NEW o \in Obs \ done PROVE StateOK(o)'
  BY <1>2, <1>4, StateStays
<1>8. ASSUME NEW o \in done PROVE StateOK(o)'
  <2> DEFINE v == Verdict(o, read, to, diff, shown)
             of == {a \in read : a.obs = o}
  <2>1. o \in Obs /\ o \in Verified(read)
    BY <1>2 DEF Verified
  <2>2. /\ state'[o].is = v /\ state'[o].commit = IF v = "verified" THEN to ELSE 0
        /\ basis'[o].of = of /\ basis'[o].at = to
    BY <1>2, <2>1 DEF NewState
  <2>3. /\ basis'[o].guessed <=> \E a \in of : a.commit \notin diff \cup {0, to}
        /\ \A a \in of : Unshown(a, to, diff, shown) => a \in basis'[o].unshown
    BY <1>2, <2>1 DEF Unshown
  <2>4. /\ v \in States
        /\ v = "verified" => \A a \in of :
              a.commit \notin diff \cup {0, to} \/ a.commit = 0 \/ Stands(a, to)
        /\ v \in {"stale", "invalidated", "unprovable"} =>
              \E a \in of : a.commit # 0 /\ (~Stands(a, to) \/ Unshown(a, to, diff, shown))
    BY <1>3, <1>4, <2>1, VerdictSound
  <2>5. Stamped(o)' = {a \in of : a.commit # 0}
    BY <2>2 DEF Stamped
  <2>6. \A a \in of : AnchorOK(a) /\ AnchorOK(a)'
    BY <1>3, AnchorStays
  <2>7. ASSUME v = "verified", NEW a \in of, a.commit # 0
        PROVE  Honest(a)' /\ ((basis[o].guessed)' \/ Stands(a, state[o].commit)')
    <3>1. Honest(a)'
      BY <2>6, <2>7 DEF AnchorOK
    <3>2. state'[o].commit = to
      BY <2>2, <2>7
    <3>3. Stands(a, to) => Stands(a, state[o].commit)'
      BY <1>1, <3>2 DEF Stands
    <3>4. a.commit \notin diff \cup {0, to} => basis'[o].guessed
      BY <2>3
    <3> QED BY <2>4, <2>7, <3>1, <3>3, <3>4
  <2>8. ASSUME v \in {"stale", "invalidated", "unprovable"}
        PROVE  \E a \in Stamped(o)' : ~Stands(a, basis[o].at)' \/ a \in basis'[o].unshown
    <3>1. PICK a \in of : a.commit # 0 /\ (~Stands(a, to) \/ Unshown(a, to, diff, shown))
      BY <2>4, <2>8
    <3>2. ~Stands(a, to) => ~Stands(a, basis[o].at)'
      BY <1>1, <2>2 DEF Stands
    <3> QED BY <2>3, <2>5, <3>1, <3>2
  <2>9. state'[o].commit \in 0..Len(repo') /\ basis'[o].at \in 1..Len(repo')
    BY <1>1, <1>3, <1>4, <2>2
  <2> HIDE DEF v
  <2> QED BY <2>2, <2>4, <2>5, <2>6, <2>7, <2>8, <2>9 DEF StateOK
<1>9. DOMAIN state' = Obs /\ DOMAIN basis' = Obs
  BY <1>2
<1>10. \A o \in Obs : StateOK(o)'
  BY <1>7, <1>8
<1>11. StatesOK'
  BY <1>9, <1>10 DEF StatesOK
<1> QED BY <1>4, <1>5, <1>6, <1>11 DEF AnchorInv

\* The first two steps of a verification: a commit that is there, and anchors of the table.
LEMMA ReadStep ==
    ASSUME AnchorInv, Grown, VerifyHead \/ VerifyRead
    PROVE  AnchorInv'
<1>1. /\ repo' = repo /\ anchors' = anchors /\ state' = state /\ basis' = basis /\ save' = save
  BY DEF VerifyHead, VerifyRead
<1>2. RepoOK' /\ AnchorsOK' /\ SaveOK'
  BY <1>1, AnchorStays DEF AnchorInv, Grown, AnchorsOK, Unique, SaveOK
<1>3. StatesOK'
  BY <1>1, StateStays DEF AnchorInv, StatesOK
<1>4. VerifyOK'
  <2>1. CASE VerifyHead
    <3>1. /\ DOMAIN verify' = {"pc", "commit", "read"}
          /\ verify'.pc = "read" /\ verify'.commit = head
      BY <2>1 DEF VerifyHead, NoVerify
    <3> QED BY <1>1, <3>1 DEF AnchorInv, RepoOK, VerifyOK
  <2>2. CASE VerifyRead
    <3>1. PICK of \in {Obs} \cup {{o} : o \in Obs} :
            verify' = IF {a \in anchors : a.obs \in of} = {} THEN NoVerify
                      ELSE [verify EXCEPT !.pc = "apply", !.read = {a \in anchors : a.obs \in of}]
      BY <2>2 DEF VerifyRead
    <3>2. CASE verify' = NoVerify
      BY <3>2 DEF VerifyOK, NoVerify
    <3>3. CASE verify' # NoVerify
      <4>1. /\ DOMAIN verify' = {"pc", "commit", "read"}
            /\ verify'.pc = "apply" /\ verify'.commit = verify.commit
            /\ verify'.read \subseteq anchors
        BY <3>1, <3>3 DEF AnchorInv, VerifyOK
      <4>2. verify.commit \in 1..Len(repo)
        BY <2>2 DEF AnchorInv, VerifyOK, VerifyRead
      <4>3. \A a \in verify'.read : AnchorOK(a)'
        BY <4>1, AnchorStays DEF AnchorInv, AnchorsOK
      <4> QED BY <1>1, <4>1, <4>2, <4>3 DEF VerifyOK
    <3> QED BY <3>2, <3>3
  <2> QED BY <2>1, <2>2
<1> QED BY <1>2, <1>3, <1>4 DEF AnchorInv

\* Others commit and check out; a save starts with the commit HEAD names.
LEMMA OtherStep ==
    ASSUME AnchorInv, Grown,
           \/ \E t \in Trees : CommitTree(t)
           \/ \E c \in 1..MaxCommits : Checkout(c)
           \/ \E o \in Obs, ps \in SUBSET Places \ {{}} : StampBegin(o, ps)
           \/ UNCHANGED anchorsVars
    PROVE  AnchorInv'
<1>1. /\ anchors' = anchors /\ state' = state /\ basis' = basis /\ verify' = verify
      /\ \/ save' = save
         \/ \E o \in Obs, ps \in SUBSET Places : save' = [pc |-> "stamp", obs |-> o, places |-> ps,
                                                          commit |-> head]
  BY DEF CommitTree, Checkout, StampBegin, anchorsVars
<1>2. RepoOK' /\ AnchorsOK' /\ VerifyOK'
  BY <1>1, AnchorStays DEF AnchorInv, Grown, AnchorsOK, Unique, VerifyOK
<1>3. StatesOK'
  BY <1>1, StateStays DEF AnchorInv, StatesOK
<1>4. SaveOK'
  <2>1. CASE save' = save
    BY <2>1 DEF AnchorInv, SaveOK, Grown
  <2>2. CASE \E o \in Obs, ps \in SUBSET Places :
               save' = [pc |-> "stamp", obs |-> o, places |-> ps, commit |-> head]
    <3>1. PICK o \in Obs, ps \in SUBSET Places :
            save' = [pc |-> "stamp", obs |-> o, places |-> ps, commit |-> head]
      BY <2>2
    <3>2. head \in 1..Len(repo')
      BY DEF AnchorInv, RepoOK, Grown
    <3> QED BY <3>1, <3>2 DEF SaveOK
  <2> QED BY <1>1, <2>1, <2>2
<1> QED BY <1>2, <1>3, <1>4 DEF AnchorInv

-----------------------------------------------------------------------------

LEMMA AnchorInit == AnchorsInit => AnchorInv
<1> SUFFICES ASSUME AnchorsInit PROVE AnchorInv
  OBVIOUS
<1>1. PICK t \in Trees : repo = <<t>>
  BY DEF AnchorsInit
<1>2. RepoOK /\ Len(repo) = 1
  BY <1>1 DEF AnchorsInit, RepoOK
<1>3. AnchorsOK /\ SaveOK /\ VerifyOK
  BY DEF AnchorsInit, AnchorsOK, Unique, SaveOK, VerifyOK, NoSave, NoVerify
<1>4. StatesOK
  BY <1>2 DEF AnchorsInit, StatesOK, StateOK, States, Stamped
<1> QED BY <1>2, <1>3, <1>4 DEF AnchorInv

LEMMA AnchorInductive == AnchorInv /\ [AnchorsNext]_anchorsVars => AnchorInv'
<1> SUFFICES ASSUME AnchorInv, [AnchorsNext]_anchorsVars PROVE AnchorInv'
  OBVIOUS
<1>1. Grown
  BY RepoGrows DEF AnchorInv
<1> QED BY <1>1, OtherStep, StampStep, StampFailsStep, ReadStep, ApplyStep DEF AnchorsNext

\* Whatever the repository, the files and the number of saves and verifications, the
\* invariant above holds: anchors are true of the commits they name, and so are states.
THEOREM AnchorInvariant == AnchorsSpec => []AnchorInv
<1> QED BY AnchorInit, AnchorInductive, PTL DEF AnchorsSpec

\* The state has its type, and an anchor with a symbol is unique in its place.
THEOREM AnchorsTypeCorrect == AnchorsSpec => []AnchorsTypeOK
<1>1. AnchorInv => AnchorsTypeOK
  <2> SUFFICES ASSUME AnchorInv PROVE AnchorsTypeOK
    OBVIOUS
  <2>1. DOMAIN repo = 1..Len(repo) /\ \A c \in DOMAIN repo : repo[c] \in Trees
    BY LenProperties, ElementOfSeq DEF AnchorInv, RepoOK
  <2>2. \A o \in Obs : state[o].commit \in 0..Len(repo)
    BY DEF AnchorInv, StatesOK, StateOK
  <2> QED BY <2>1, <2>2 DEF AnchorsTypeOK, AnchorInv, RepoOK, AnchorsOK, Unique, AnchorOK, SaveOK, VerifyOK
<1> QED BY <1>1, AnchorInvariant, PTL

\* set_verify_state and the stamp of a save never count an observation as verified at a
\* commit in which one of its stamped anchors does not stand, however saves, verifications,
\* commits and checkouts interleave, unless git diff had failed.
THEOREM VerifiedStatesAreEarned == AnchorsSpec => []VerifiedIsEarned
<1>1. AnchorInv => VerifiedIsEarned
  BY DEF AnchorInv, StatesOK, StateOK, VerifiedIsEarned
<1> QED BY <1>1, AnchorInvariant, PTL

\* Nor do they withdraw one without an anchor that no longer stands, or one whose changed file
\* git show failed to give.
THEOREM WithdrawnStatesAreEarned == AnchorsSpec => []WithdrawnIsEarned
<1>1. AnchorInv => WithdrawnIsEarned
  BY DEF AnchorInv, StatesOK, StateOK, WithdrawnIsEarned
<1> QED BY <1>1, AnchorInvariant, PTL
==============================================================================
