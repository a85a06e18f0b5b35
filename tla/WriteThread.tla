------------------------------ MODULE WriteThread ------------------------------
(***************************************************************************)
(* The write path of one project (memlayer-storage/src/write.rs): callers   *)
(* (RPC handlers and workers) send WriteRequests over a bounded crossbeam    *)
(* channel; one std::thread collects them into batches, runs the handlers    *)
(* of a batch in one BEGIN IMMEDIATE transaction, commits it, and only then  *)
(* fires the oneshot replies. A Custom request needs the bare connection:    *)
(* the transaction in flight is committed for it, and it ends the batch.     *)
(*                                                                          *)
(* Data is abstracted to the question of whose statements are in the         *)
(* transaction or in the database: tx and db list the requests of which at   *)
(* least one statement ran, in execution order; a request that succeeds       *)
(* counts as listed even when it found nothing to change. A handler that      *)
(* fails leaves whatever it wrote before failing (there is no savepoint), so  *)
(* a request answered "err" may or may not be listed.                         *)
(*                                                                          *)
(* An operator whose comment starts with "Mutant" is a slip the properties    *)
(* must catch; no action uses it.                                             *)
(***************************************************************************)
EXTENDS Naturals, Sequences, Functions

CONSTANTS
    Requests,         \* one element per WriteRequest, sent by a caller of its own
    CustomRequests,   \* those that are WriteRequest::Custom
    ChannelCapacity,  \* crossbeam_channel::bounded(1024)
    BatchMax,         \* write_batch_max
    MaxCrashes        \* bound on daemon crashes, for model checking

ASSUME WriteThreadAssumption ==
    /\ CustomRequests \subseteq Requests
    /\ ChannelCapacity \in Nat \ {0}
    /\ BatchMax \in Nat \ {0}
    /\ MaxCrashes \in Nat

VARIABLES
    caller,   \* what each request's caller is doing or has been told
    cached,   \* the registry holds the ProjectState, hence a WriteHandle
    chan,     \* the channel
    phase,    \* where run_write_loop / process_batch is
    batch,    \* the requests collected and not yet drained
    replies,  \* reply closures not fired yet: the request and its result
    tx,       \* effects of the open transaction
    db,       \* committed effects
    crashes

vars == <<caller, cached, chan, phase, batch, replies, tx, db, crashes>>

Callers == {"idle", "sending", "waiting", "ok", "err", "dropped", "gone", "lost"}
Phases == {"recv", "collect", "begin", "drain", "flush", "custom", "finish",
           "exited", "down"}
Results == {"ok", "err"}
Reply == [req : Requests, result : Results]

TypeOK ==
    /\ caller \in [Requests -> Callers]
    /\ cached \in BOOLEAN
    /\ chan \in Seq(Requests) /\ Len(chan) <= ChannelCapacity
    /\ phase \in Phases
    /\ batch \in Seq(Requests) /\ replies \in Seq(Reply)
    /\ Len(batch) + Len(replies) <= BatchMax
    /\ tx \in Seq(Requests) /\ db \in Seq(Requests)
    /\ crashes \in 0..MaxCrashes

Init ==
    /\ caller = [r \in Requests |-> "idle"]
    /\ cached = TRUE
    /\ chan = <<>> /\ batch = <<>> /\ replies = <<>> /\ tx = <<>> /\ db = <<>>
    /\ phase = "recv"
    /\ crashes = 0

threadVars == <<phase, batch, replies, tx, db>>

------------------------------------------------------------------------------
\* Callers. Each holds its ProjectState, hence a Sender, until it is answered.

\* The RPC has resolved its project and calls WriteHandle::send.
Submit(r) ==
    /\ caller[r] = "idle" /\ cached
    /\ caller' = [caller EXCEPT ![r] = "sending"]
    /\ UNCHANGED <<cached, chan, threadVars, crashes>>

\* send returns: it blocks while the channel is full.
Enqueue(r) ==
    /\ caller[r] = "sending" /\ Len(chan) < ChannelCapacity
    /\ chan' = Append(chan, r)
    /\ caller' = [caller EXCEPT ![r] = "waiting"]
    /\ UNCHANGED <<cached, threadVars, crashes>>

\* The client disconnects: tonic drops the handler and its oneshot receiver.
Cancel(r) ==
    /\ caller[r] = "waiting"
    /\ caller' = [caller EXCEPT ![r] = "gone"]
    /\ UNCHANGED <<cached, chan, threadVars, crashes>>

\* try_evict_oldest removes the project: read_in_flight is never raised, and
\* the channel is not looked at. A later call opens the project anew, with a
\* thread of its own: that is Registry's subject.
Evict ==
    /\ cached
    /\ cached' = FALSE
    /\ UNCHANGED <<caller, chan, threadVars, crashes>>

------------------------------------------------------------------------------
\* The thread.

Recv ==
    /\ phase = "recv" /\ chan # <<>>
    /\ batch' = <<Head(chan)>> /\ chan' = Tail(chan)
    /\ phase' = "collect"
    /\ UNCHANGED <<caller, cached, replies, tx, db, crashes>>

Collect ==
    /\ phase = "collect" /\ Len(batch) < BatchMax /\ chan # <<>>
    /\ batch' = Append(batch, Head(chan)) /\ chan' = Tail(chan)
    /\ UNCHANGED <<caller, cached, phase, replies, tx, db, crashes>>

\* The batch is full or the window is over.
CloseBatch ==
    /\ phase = "collect"
    /\ phase' = "begin"
    /\ UNCHANGED <<caller, cached, chan, batch, replies, tx, db, crashes>>

\* The reply senders of the requests in S are dropped: RecvError.
DropReplies(S) ==
    caller' = [r \in Requests |->
                 IF r \in S /\ caller[r] = "waiting" THEN "dropped" ELSE caller[r]]

Begin ==
    /\ phase = "begin"
    /\ phase' = "drain"
    /\ UNCHANGED <<caller, cached, chan, batch, replies, tx, db, crashes>>

\* Mutant: the senders of the failed batch are kept alive, unanswered.
BeginFailsSilently ==
    /\ phase = "begin"
    /\ batch' = <<>> /\ phase' = "recv"
    /\ UNCHANGED <<caller, cached, chan, replies, tx, db, crashes>>

\* Mutant: the failed batch is sent again, behind newer requests.
BeginFailsRequeues ==
    /\ phase = "begin"
    /\ chan' = chan \o batch
    /\ batch' = <<>> /\ phase' = "recv"
    /\ UNCHANGED <<caller, cached, replies, tx, db, crashes>>

\* BEGIN IMMEDIATE fails (another connection keeps the write lock).
BeginFails ==
    /\ phase = "begin"
    /\ DropReplies(Range(batch))
    /\ batch' = <<>> /\ phase' = "recv"
    /\ UNCHANGED <<cached, chan, replies, tx, db, crashes>>

\* Mutant: the reply is sent as soon as the handler returns.
HandleAnswersAtOnce(result, wrote) ==
    /\ phase = "drain" /\ batch # <<>> /\ Head(batch) \notin CustomRequests
    /\ result = "ok" => wrote
    /\ batch' = Tail(batch)
    /\ caller' = IF caller[Head(batch)] = "waiting"
                 THEN [caller EXCEPT ![Head(batch)] = result] ELSE caller
    /\ tx' = IF wrote THEN Append(tx, Head(batch)) ELSE tx
    /\ UNCHANGED <<cached, chan, phase, replies, db, crashes>>

\* One handler runs in the transaction; its reply is kept for later. A handler
\* that succeeds has written; one that fails may have.
Handle(result, wrote) ==
    /\ phase = "drain" /\ batch # <<>> /\ Head(batch) \notin CustomRequests
    /\ result = "ok" => wrote
    /\ batch' = Tail(batch)
    /\ replies' = Append(replies, [req |-> Head(batch), result |-> result])
    /\ tx' = IF wrote THEN Append(tx, Head(batch)) ELSE tx
    /\ UNCHANGED <<caller, cached, chan, phase, db, crashes>>

\* The batch is drained, or its next request is a Custom.
AtCommit ==
    /\ phase = "drain"
    /\ batch # <<>> => Head(batch) \in CustomRequests

Commit ==
    /\ AtCommit
    /\ db' = db \o tx /\ tx' = <<>>
    /\ phase' = "flush"
    /\ UNCHANGED <<caller, cached, chan, batch, replies, crashes>>

\* process_batch returns early: the transaction rolls back, and every reply
\* sender of the batch is dropped, in a closure or not.
CommitFails ==
    /\ AtCommit
    /\ DropReplies(Range(batch) \cup {replies[i].req : i \in DOMAIN replies})
    /\ tx' = <<>> /\ batch' = <<>> /\ replies' = <<>>
    /\ phase' = "recv"
    /\ UNCHANGED <<cached, chan, db, crashes>>

\* The oldest reply is sent; nobody may be listening any more.
SendReply ==
    /\ phase \in {"flush", "finish"} /\ replies # <<>>
    /\ LET rep == Head(replies) IN
         caller' = IF caller[rep.req] = "waiting"
                   THEN [caller EXCEPT ![rep.req] = rep.result] ELSE caller
    /\ replies' = Tail(replies)
    /\ UNCHANGED <<cached, chan, phase, batch, tx, db, crashes>>

\* All replies of the transaction are out: next batch, or the Custom closure.
EndFlush ==
    /\ phase = "flush" /\ replies = <<>>
    /\ phase' = IF batch = <<>> THEN "recv" ELSE "custom"
    /\ UNCHANGED <<caller, cached, chan, batch, replies, tx, db, crashes>>

\* The closure runs on the bare connection: what it writes is durable at once.
RunCustom(result, wrote) ==
    /\ phase = "custom"
    /\ result = "ok" => wrote
    /\ db' = IF wrote THEN Append(db, Head(batch)) ELSE db
    /\ replies' = <<[req |-> Head(batch), result |-> result]>>
    /\ batch' = Tail(batch)
    /\ phase' = "finish"
    /\ UNCHANGED <<caller, cached, chan, tx, crashes>>

\* process_batch returns after the Custom: Drain drops the requests behind it.
DropRest ==
    /\ phase = "finish" /\ replies = <<>>
    /\ DropReplies(Range(batch))
    /\ batch' = <<>> /\ phase' = "recv"
    /\ UNCHANGED <<cached, chan, replies, tx, db, crashes>>

\* recv fails once every Sender is gone and the channel is empty.
Exit ==
    /\ phase = "recv" /\ chan = <<>> /\ ~cached
    /\ \A r \in Requests : caller[r] \notin {"sending", "waiting"}
    /\ phase' = "exited"
    /\ UNCHANGED <<caller, cached, chan, batch, replies, tx, db, crashes>>

------------------------------------------------------------------------------
\* The daemon process. A panic of a handler is a crash: the release profile
\* aborts on panic.

Crash ==
    /\ phase # "down" /\ crashes < MaxCrashes
    /\ crashes' = crashes + 1
    /\ caller' = [r \in Requests |->
                    IF caller[r] \in {"sending", "waiting"} THEN "lost" ELSE caller[r]]
    /\ chan' = <<>> /\ batch' = <<>> /\ replies' = <<>> /\ tx' = <<>>
    /\ phase' = "down" /\ cached' = FALSE
    /\ UNCHANGED db

\* A new daemon opens the project: get_or_open spawns a thread on the same file.
Restart ==
    /\ phase = "down"
    /\ phase' = "recv" /\ cached' = TRUE
    /\ UNCHANGED <<caller, chan, batch, replies, tx, db, crashes>>

CallerNext ==
    \E r \in Requests : Submit(r) \/ Enqueue(r) \/ Cancel(r)

Thread ==
    \/ Recv \/ Collect \/ CloseBatch \/ Begin \/ BeginFails
    \/ \E result \in Results, wrote \in BOOLEAN :
         Handle(result, wrote) \/ RunCustom(result, wrote)
    \/ Commit \/ CommitFails \/ SendReply \/ EndFlush \/ DropRest \/ Exit

Next == CallerNext \/ Evict \/ Thread \/ Crash \/ Restart

Spec == Init /\ [][Next]_vars

\* The thread is always scheduled and recv_timeout ends (with the channel empty
\* or the batch full, CloseBatch is its only step); a blocked send resumes when
\* there is room. Clients, evictions, crashes and restarts owe nothing.
Fairness ==
    /\ WF_vars(Thread)
    /\ \A r \in Requests : WF_vars(Enqueue(r))

FairSpec == Spec /\ Fairness

------------------------------------------------------------------------------
\* Properties.

\* A caller that was told Ok has its writes in the database, and no rollback,
\* crash or restart takes them away (replies fire only after COMMIT).
AckedIsDurable == \A r \in Requests : caller[r] = "ok" => r \in Range(db)

\* A caller whose reply channel was dropped left no trace in the database, so
\* reporting the request as failed is true and sending it again is safe.
DroppedIsUndone == \A r \in Requests : caller[r] = "dropped" => r \notin Range(db)

\* An open transaction never outlives its batch: whatever an unfinished batch
\* wrote is still undone by a crash, and nothing of it is acknowledged.
UncommittedIsUnanswered ==
    \A i \in DOMAIN tx : /\ tx[i] \notin Range(db)
                         /\ caller[tx[i]] \in {"waiting", "gone"}

\* The inductive invariant. A request is in the channel or in the batch at most
\* once and until then nothing of it has run; once handled it is neither, and before
\* the commit its caller is unanswered; a closure with Ok stands for writes that
\* ran; the transaction holds writes of this batch only, and is open in the drain
\* phase only; nothing committed belongs to a caller told it was dropped.
Pending == Range(chan) \cup Range(batch)
Handled == {rep.req : rep \in Range(replies)}
Open == {"waiting", "gone"}

PendingUntouched ==
    \A r \in Pending : caller[r] \in Open /\ r \notin Range(db) /\ r \notin Range(tx)
PendingOnce == IsInjective(chan) /\ IsInjective(batch) /\ Range(chan) \cap Range(batch) = {}
HandledUncommitted ==
    /\ \A r \in Handled : caller[r] \notin {"idle", "sending"} /\ r \notin Pending
    /\ phase = "drain" => \A r \in Handled : caller[r] \in Open /\ r \notin Range(db)
TxOfBatch == Range(tx) \subseteq Handled /\ (phase # "drain" => tx = <<>>)
OkClosuresRan ==
    \A rep \in Range(replies) : rep.result = "ok" => rep.req \in Range(db) \cup Range(tx)
CommittedNotDisowned ==
    \A r \in Range(db) : caller[r] \notin {"idle", "sending", "dropped"}
PhaseShape ==
    /\ phase \in {"recv", "exited", "down"} => batch = <<>>
    /\ phase \in {"recv", "exited", "down", "collect", "begin", "custom"} => replies = <<>>
    /\ phase \in {"collect", "begin", "custom"} => batch # <<>>

WriteInv ==
    /\ TypeOK /\ PendingUntouched /\ PendingOnce /\ HandledUncommitted /\ TxOfBatch
    /\ OkClosuresRan /\ CommittedNotDisowned /\ AckedIsDurable /\ PhaseShape

\* Every caller that has reached the channel hears something: not even a full
\* channel, a failed batch, an eviction or a crash leaves it waiting for ever.
EveryCallerAnswered ==
    \A r \in Requests :
        caller[r] \in {"sending", "waiting"} ~> caller[r] \notin {"sending", "waiting"}

\* The write path implements WriteService: requests leave in channel order, in
\* groups, and each group's writes become durable together.
answered ==
    [r \in Requests |->
        CASE caller[r] \in {"idle", "sending"} -> "new"
          [] caller[r] = "waiting" -> "open"
          [] OTHER -> caller[r]]

unsettled ==
    IF phase = "drain"
    THEN [i \in DOMAIN replies |-> replies[i].req] \o batch \o chan
    ELSE batch \o chan

Service == INSTANCE WriteService WITH queue <- unsettled, log <- db, answer <- answered
ImplementsWriteService == Service!Spec

=============================================================================
