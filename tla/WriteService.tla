----------------------------- MODULE WriteService -----------------------------
(***************************************************************************)
(* What a project's write path promises its callers, without the thread,   *)
(* the channel, the batches or the SQLite transaction: requests are        *)
(* accepted in an order, groups of at most BatchMax of them leave the head  *)
(* of that order, the writes of some of a group become durable together    *)
(* and in the order of acceptance, and a caller hears "ok" only of durable *)
(* writes and "dropped" only of writes that never will be.                 *)
(***************************************************************************)
EXTENDS Naturals, Sequences, Functions

CONSTANTS Requests, BatchMax

VARIABLES
    queue,   \* accepted requests whose fate is open, oldest first
    log,     \* requests with durable writes, in the order they were applied
    answer   \* what each caller knows

svars == <<queue, log, answer>>

Answers == {"new", "open", "ok", "err", "dropped", "gone", "lost"}

Init ==
    /\ queue = <<>>
    /\ log = <<>>
    /\ answer = [r \in Requests |-> "new"]

Accept(r) ==
    /\ answer[r] = "new"
    /\ answer' = [answer EXCEPT ![r] = "open"]
    /\ queue' = Append(queue, r)
    /\ UNCHANGED log

Rest(n) == SubSeq(queue, n + 1, Len(queue))

\* Which of a group of n have written something: their places, in order.
Selections(n) ==
    {at \in UNION {[1..k -> 1..n] : k \in 0..n} :
        \A i, j \in DOMAIN at : i < j => at[i] < at[j]}

\* One group leaves the queue; the members at these places have written something.
Apply(n, at) ==
    /\ log' = log \o [i \in DOMAIN at |-> queue[at[i]]]
    /\ queue' = Rest(n)
    /\ UNCHANGED answer

\* One group leaves the queue without a trace and its callers are told nothing.
Discard(n) ==
    /\ answer' = [r \in Requests |->
                    IF r \in Range(SubSeq(queue, 1, n)) /\ answer[r] = "open"
                    THEN "dropped" ELSE answer[r]]
    /\ queue' = Rest(n)
    /\ UNCHANGED log

Answer(r, v) ==
    /\ answer[r] = "open"
    /\ r \notin Range(queue)
    /\ v = "ok" => r \in Range(log)
    /\ answer' = [answer EXCEPT ![r] = v]
    /\ UNCHANGED <<queue, log>>

Cancel(r) ==
    /\ answer[r] = "open"
    /\ answer' = [answer EXCEPT ![r] = "gone"]
    /\ UNCHANGED <<queue, log>>

\* The process dies: the log survives, everything else is forgotten. A caller
\* that was still connecting may be cut off too.
Crash ==
    /\ queue' = <<>>
    /\ \E T \in SUBSET {r \in Requests : answer[r] = "new"} :
         answer' = [r \in Requests |->
                      IF r \in T \/ answer[r] = "open" THEN "lost" ELSE answer[r]]
    /\ UNCHANGED log

Groups == {n \in 1..Len(queue) : n <= BatchMax}

Next ==
    \/ \E r \in Requests : Accept(r) \/ Cancel(r)
    \/ \E r \in Requests, v \in {"ok", "err"} : Answer(r, v)
    \/ \E n \in Groups : Discard(n) \/ \E at \in Selections(n) : Apply(n, at)
    \/ Crash

Spec == Init /\ [][Next]_svars

=============================================================================
