--------------------------- MODULE SyncExportProofs ---------------------------
(***************************************************************************)
(* What an export promises of the manifest, for any number of projects,      *)
(* requests, rows, crashes, failures and cancellations, when every project    *)
(* has a repository of its own (OwnRepos): with a shared one the mutex, which  *)
(* belongs to a project, does not protect the manifest.                        *)
(*                                                                          *)
(* The invariant has four parts. Fresh: between read and rename nobody else    *)
(* touches the manifest, so base is the manifest and manifest.tmp is base and  *)
(* the chunk. Promised: a chunk that is to be marked is in the manifest.        *)
(* Accompanied: an export that took an observation took its session, or found  *)
(* it marked, unless the observation has gone since. Pending: a row that is    *)
(* listed is marked, or will be by an export that still holds the mutex, or     *)
(* has been deleted.                                                          *)
(***************************************************************************)
EXTENDS SyncExport, TLAPS

OwnRepos == \A p, q \in Projects : RepoOf[p] = RepoOf[q] => p = q

Elements(s) == {s[i] : i \in DOMAIN s}
Queued(p) == Elements(jobs[p])
RowsOf(chunk) == {l[2] : l \in chunk}
IsListed(p, r) == \E c \in manifest[RepoOf[p]] : Lists(c, p, r)
Known(p) == there[p] \cup deleted[p]

\* An export's lines are of its project.
OwnLines ==
    /\ \A e \in Exporters : \A l \in export[e].lines : l[1] = export[e].project
    /\ \A p \in Projects : \A job \in Queued(p) : \A l \in job.chunk : l[1] = p

Orphanless == /\ ~orphaned => orphans = {}
              /\ cancels = 0 => ~orphaned

FreshAt(e) ==
    /\ export[e].at \in {"write", "rename"} => export[e].base = manifest[Repo(e)]
    /\ export[e].at = "rename" => temp[Repo(e)] = export[e].base \cup {Chunk(e)}

Fresh == ~orphaned => \A e \in Exporters : FreshAt(e)

PromisedBy(e) == export[e].at \in {"send", "wait"} => Chunk(e) \in manifest[Repo(e)]

Promised ==
    ~orphaned =>
        /\ \A e \in Exporters : PromisedBy(e)
        /\ \A p \in Projects : \A job \in Queued(p) : job.chunk \in manifest[RepoOf[p]]

\* What an export took is there or has been deleted.
Present ==
    /\ \A e \in Exporters : export[e].at # "idle" => RowsOf(Chunk(e)) \subseteq Known(export[e].project)
    /\ \A p \in Projects : \A job \in Queued(p) : RowsOf(job.chunk) \subseteq Known(p)

\* A row has a session; an export that is past the sessions has the session of its
\* observations, or saw it marked.
SessionsFirst == \A p \in Projects : there[p] # {} => Session \in there[p]

Living(e) == (RowsOf(Chunk(e)) \cap Observations) \ deleted[export[e].project]

Escorted(e) ==
    /\ export[e].at \in {"lock", "observations"} => Chunk(e) = {}
    /\ export[e].at = "sessions" => RowsOf(Chunk(e)) \subseteq Observations
    /\ export[e].at \notin {"idle", "lock", "observations", "sessions"} =>
        (Living(e) # {} => Session \in RowsOf(Chunk(e)) \cup exported[export[e].project])

Accompanied == Present /\ SessionsFirst /\ \A e \in Exporters : Escorted(e)

\* The mark job of an export that is still there is its own, and how far it is.
Done(p) == exported[p] \cup deleted[p]

JobOK(p, job) ==
    /\ job.no \in 1..exports
    /\ job.at # "observations" => RowsOf(job.chunk) \cap Observations \subseteq Done(p)
    /\ job.at \in {"prompts", "record"} => RowsOf(job.chunk) \cap {Session} \subseteq Done(p)
    /\ job.at = "record" => RowsOf(job.chunk) \cap Prompts \subseteq Done(p)
    /\ \A e \in Exporters : export[e].at # "idle" /\ export[e].no = job.no =>
        export[e].at = "wait" /\ export[e].project = p /\ export[e].lines = job.chunk

Numbered ==
    /\ \A e \in Exporters : export[e].at # "idle" => export[e].no \in 1..exports
    /\ \A e, f \in Exporters :
        export[e].at # "idle" /\ export[f].at # "idle" /\ export[e].no = export[f].no => e = f

JobsMatch == Numbered /\ \A p \in Projects : \A job \in Queued(p) : JobOK(p, job)

\* A listed row is marked or will be; an export in the making has no listed row.
Covered(p, r) ==
    \/ r \in Done(p)
    \/ \E e \in Exporters : /\ export[e].at \in {"send", "wait"}
                            /\ export[e].project = p /\ r \in RowsOf(Chunk(e))

Unlisted(e) ==
    export[e].at \in {"sessions", "prompts", "chunk", "read", "write", "rename"} =>
        \A r \in RowsOf(Chunk(e)) \ deleted[export[e].project] : ~IsListed(export[e].project, r)

Undisturbed == crashes = 0 /\ cancels = 0 /\ ~unmarked

Pending ==
    Undisturbed =>
        /\ \A p \in Projects, r \in Rows : IsListed(p, r) => Covered(p, r)
        /\ \A e \in Exporters : Unlisted(e)

IdleIsEmpty == \A e \in Exporters : export[e].at = "idle" => export[e] = NoExport

Safe == MarkedIsListed /\ ObservationsHaveSessions /\ NoRowListedTwice

ExportInv ==
    /\ TypeOK /\ IdleIsEmpty /\ OwnLines /\ Orphanless /\ Fresh /\ Promised /\ Accompanied
    /\ JobsMatch /\ Pending
    /\ Safe

------------------------------------------------------------------------------
(* Queues of jobs. *)

LEMMA AppendElements ==
    ASSUME NEW S, NEW s \in Seq(S), NEW x \in S
    PROVE  Append(s, x) \in Seq(S) /\ Elements(Append(s, x)) = Elements(s) \cup {x}
<1>1. Append(s, x) \in Seq(S) /\ Len(Append(s, x)) = Len(s) + 1
  OBVIOUS
<1>2. \A i \in 1..Len(s) : Append(s, x)[i] = s[i]
  OBVIOUS
<1>3. Append(s, x)[Len(s) + 1] = x
  OBVIOUS
<1>4. DOMAIN Append(s, x) = (1..Len(s)) \cup {Len(s) + 1} /\ DOMAIN s = 1..Len(s)
  BY <1>1
<1> QED BY <1>1, <1>2, <1>3, <1>4 DEF Elements

LEMMA HeadTailElements ==
    ASSUME NEW S, NEW s \in Seq(S), s # <<>>
    PROVE  /\ Head(s) \in S /\ Head(s) \in Elements(s)
           /\ Tail(s) \in Seq(S) /\ Elements(Tail(s)) \subseteq Elements(s)
<1>1. Len(s) \in Nat \ {0} /\ DOMAIN s = 1..Len(s) /\ Head(s) = s[1]
  OBVIOUS
<1>2. Tail(s) \in Seq(S) /\ Len(Tail(s)) = Len(s) - 1
  OBVIOUS
<1>3. \A i \in 1..Len(s) - 1 : Tail(s)[i] = s[i + 1] /\ i + 1 \in 1..Len(s)
  BY <1>1
<1>4. Elements(Tail(s)) \subseteq Elements(s)
  BY <1>1, <1>2, <1>3 DEF Elements
<1>5. Head(s) \in Elements(s)
  BY <1>1 DEF Elements
<1> QED BY <1>1, <1>2, <1>4, <1>5

\* A step of the job at the head.
LEMMA MarkElements ==
    ASSUME NEW s \in Seq(Job), s # <<>>, NEW to \in {"sessions", "prompts", "record"}
    PROVE  /\ [s EXCEPT ![1].at = to] \in Seq(Job)
           /\ Elements([s EXCEPT ![1].at = to]) \subseteq
                Elements(s) \cup {[Head(s) EXCEPT !.at = to]}
           /\ [Head(s) EXCEPT !.at = to] \in Job
<1> DEFINE h == [Head(s) EXCEPT !.at = to]
           t == [s EXCEPT ![1].at = to]
<1>1. 1 \in DOMAIN s /\ Head(s) = s[1] /\ s[1] \in Job /\ DOMAIN s = 1..Len(s) /\ Len(s) \in Nat
  OBVIOUS
<1>2. h \in Job
  BY <1>1 DEF Job
<1>3. t = [s EXCEPT ![1] = h]
  BY <1>1
<1>4. t \in Seq(Job)
  BY <1>1, <1>2, <1>3
<1>5. DOMAIN t = DOMAIN s /\ \A i \in DOMAIN s : t[i] = IF i = 1 THEN h ELSE s[i]
  BY <1>1, <1>3
<1>6. Elements(t) \subseteq Elements(s) \cup {h}
  BY <1>5 DEF Elements
<1> QED BY <1>2, <1>4, <1>6

------------------------------------------------------------------------------
(* Types. *)

\* Initially there is nothing.
LEMMA InitTypeOK == Init => TypeOK
<1> SUFFICES ASSUME Init PROVE TypeOK
  OBVIOUS
<1>1. {} \in Manifest
  BY DEF Manifest
<1>2. NoExport \in Export
  BY <1>1 DEF NoExport, Export, Places
<1>3. jobs \in [Projects -> Seq(Job)]
  BY DEF Init
<1>4. RowsOK
  <2>1. [r \in Rows |-> 0] \in [Rows -> 0..MaxRev]
    BY SyncExportAssumption
  <2>2. rev \in [Projects -> [Rows -> 0..MaxRev]]
    BY <2>1 DEF Init
  <2>3. imported \in [Projects -> Manifest] /\ exported \in [Projects -> SUBSET Rows]
    BY <1>1 DEF Init
  <2>4. /\ there \in [Projects -> SUBSET Rows] /\ deleted \in [Projects -> SUBSET Rows]
        /\ \A p \in Projects : there[p] = {}
    BY DEF Init
  <2> QED BY <2>2, <2>3, <2>4 DEF RowsOK
<1>5. FilesOK
  BY <1>1 DEF Init, FilesOK
<1>6. ExportsOK
  BY <1>2 DEF Init, ExportsOK, NoExport
<1>7. CountsOK
  <2>1. {crashes, cancels, faults, exports} \subseteq Nat
    BY DEF Init
  <2>2. orphaned \in BOOLEAN /\ unmarked \in BOOLEAN
    BY Zenon DEF Init
  <2> QED BY Zenon, <2>1, <2>2 DEF CountsOK
<1> QED BY <1>3, <1>4, <1>5, <1>6, <1>7 DEF TypeOK

\* An export that ends, whoever it is, leaves the others as they were.
LEMMA EndExportsOK ==
    ASSUME ExportsOK, IdleIsEmpty, NEW e \in Exporters, End(e)
    PROVE  /\ ExportsOK' /\ IdleIsEmpty' /\ export'[e] = NoExport
           /\ \A f \in Exporters \ {e} : export'[f] = export[f]
<1>1. NoExport \in Export
  BY DEF NoExport, Export, Places, Manifest
<1>2. export'[e] = NoExport /\ \A f \in Exporters \ {e} : export'[f] = export[f]
  BY DEF End, ExportsOK
<1>3. export' \in [Exporters -> Export] /\ mutex' \in [Projects -> Exporters \cup {None}]
  BY <1>1 DEF End, ExportsOK
<1>4. \A f \in Exporters \ {e} : \A p \in Projects : mutex[p] = f => mutex'[p] = f
  BY DEF End
<1>5. ExportsOK'
  BY <1>2, <1>3, <1>4 DEF ExportsOK, NoExport
<1> QED BY <1>2, <1>5 DEF IdleIsEmpty

\* A step of export e within its export: what its record becomes.
LEMMA MoveExportsOK ==
    ASSUME ExportsOK, IdleIsEmpty, NEW e \in Exporters, NEW x \in Export,
           export' = [export EXCEPT ![e] = x], x.at # "idle", x.project \in Projects,
           mutex' \in [Projects -> Exporters \cup {None}],
           x.at # "lock" => mutex'[x.project] = e,
           \A f \in Exporters \ {e} : \A p \in Projects : mutex[p] = f => mutex'[p] = f
    PROVE  /\ ExportsOK' /\ IdleIsEmpty' /\ export'[e] = x
           /\ \A f \in Exporters \ {e} : export'[f] = export[f]
<1>1. export'[e] = x /\ \A f \in Exporters \ {e} : export'[f] = export[f]
  BY DEF ExportsOK
<1>2. export' \in [Exporters -> Export]
  BY DEF ExportsOK
<1> QED BY <1>1, <1>2 DEF ExportsOK, IdleIsEmpty

------------------------------------------------------------------------------
(* The steps of an export. *)

\* Nothing that was listed or marked changes.
LEMMA SafeFrame ==
    ASSUME Safe, manifest' = manifest, ~orphaned' => ~orphaned, Undisturbed' => Undisturbed,
           \A p \in Projects : exported'[p] \subseteq exported[p] /\ deleted[p] \subseteq deleted'[p]
    PROVE  Safe'
<1>1. /\ ~orphaned' => MarkedIsListed /\ ObservationsHaveSessions /\ ~orphaned
      /\ Undisturbed' => NoRowListedTwice /\ Undisturbed
  BY DEF Safe
<1>2. MarkedIsListed'
  BY <1>1 DEF MarkedIsListed, Listed
<1>3. ObservationsHaveSessions'
  BY <1>1 DEF ObservationsHaveSessions, Listed
<1>4. NoRowListedTwice'
  BY <1>1 DEF NoRowListedTwice, Undisturbed
<1> QED BY <1>2, <1>3, <1>4 DEF Safe

\* A step of one export or of a job, which takes no row that is not there.
LEMMA AccompaniedFrame ==
    ASSUME Accompanied, NEW e \in Exporters,
           there' = there, deleted' = deleted, exported' = exported,
           \A p \in Projects : \A job \in Queued(p)' : RowsOf(job.chunk) \subseteq Known(p),
           \A f \in Exporters \ {e} : export'[f] = export[f],
           export'[e].at # "idle" => RowsOf(export'[e].lines) \subseteq Known(export'[e].project),
           Escorted(e)'
    PROVE  Accompanied'
<1>1. \A p : Known(p)' = Known(p)
  BY DEF Known
<1>2. Present'
  BY <1>1 DEF Accompanied, Present, Chunk
<1>3. \A f \in Exporters \ {e} : Escorted(f)'
  BY DEF Accompanied, Escorted, Living, Chunk
<1> QED BY <1>2, <1>3 DEF Accompanied, SessionsFirst

LEMMA UnexportedRows ==
    ASSUME TypeOK, NEW p \in Projects, NEW kind, kind \subseteq Rows
    PROVE  /\ Unexported(p, kind) \subseteq Line
           /\ \A l \in Unexported(p, kind) : l[1] = p
           /\ RowsOf(Unexported(p, kind)) = (kind \cap there[p]) \ exported[p]
<1>1. \A r \in Rows : rev[p][r] \in 0..MaxRev /\ MaxRev \in Nat
  BY SyncExportAssumption DEF TypeOK, RowsOK
<1>2. \A r \in kind \cap there[p] : <<p, r, rev[p][r]>> \in Line
  <2> TAKE r \in kind \cap there[p]
  <2>1. rev[p][r] \in 1..MaxRev
    BY <1>1 DEF TypeOK, RowsOK
  <2> QED BY <2>1 DEF Line
<1>3. Unexported(p, kind) \subseteq Line
  BY <1>2 DEF Unexported
<1>4. \A l \in Unexported(p, kind) : l[1] = p
  BY DEF Unexported
<1>5. RowsOf(Unexported(p, kind)) = (kind \cap there[p]) \ exported[p]
  <2>1. \A l \in Unexported(p, kind) : l[2] \in (kind \cap there[p]) \ exported[p]
    BY DEF Unexported
  <2>2. \A r \in (kind \cap there[p]) \ exported[p] :
            <<p, r, rev[p][r]>> \in Unexported(p, kind) /\ <<p, r, rev[p][r]>>[2] = r
    BY DEF Unexported
  <2> QED BY <2>1, <2>2 DEF RowsOf
<1> QED BY <1>3, <1>4, <1>5

Selection ==
    {<<"observations", Observations, "sessions">>, <<"sessions", {Session}, "prompts">>,
     <<"prompts", Prompts, "chunk">>}

LEMMA SelectStep ==
    ASSUME ExportInv, NEW e \in Exporters, NEW from, NEW kind, NEW to,
           <<from, kind, to>> \in Selection, Select(e, from, kind, to)
    PROVE  ExportInv'
<1> DEFINE p == export[e].project
           new == Unexported(p, kind)
           x == [export[e] EXCEPT !.at = to, !.lines = @ \cup new]
<1>1. /\ export[e] \in Export /\ export[e].at = from /\ export' = [export EXCEPT ![e] = x]
      /\ UNCHANGED <<db, files, mutex, jobs, counts>>
  BY DEF ExportInv, TypeOK, ExportsOK, Select
<1>2. from \in {"observations", "sessions", "prompts"} /\ kind \subseteq Rows
  BY DEF Selection, Rows
<1>3. p \in Projects /\ mutex[p] = e
  BY <1>1, <1>2 DEF ExportInv, TypeOK, ExportsOK
<1>4. /\ new \subseteq Line /\ \A l \in new : l[1] = p
      /\ RowsOf(new) = (kind \cap there[p]) \ exported[p]
  BY <1>2, <1>3, UnexportedRows DEF ExportInv
<1>5. x \in Export /\ x.at = to /\ x.project = p /\ x.lines = export[e].lines \cup new
      /\ x.no = export[e].no /\ to \in {"sessions", "prompts", "chunk"}
  BY <1>1, <1>4 DEF Export, Places, Selection
<1>6. /\ ExportsOK' /\ IdleIsEmpty' /\ export'[e] = x
      /\ \A f \in Exporters \ {e} : export'[f] = export[f]
  BY <1>1, <1>3, <1>5, MoveExportsOK DEF ExportInv, TypeOK, ExportsOK
<1>7. TypeOK'
  BY <1>1, <1>6 DEF ExportInv, TypeOK, RowsOK, FilesOK, CountsOK, db, files, counts
<1>8. OwnLines'
  BY <1>1, <1>4, <1>5, <1>6 DEF ExportInv, OwnLines, Queued
<1>9. Orphanless'
  BY <1>1 DEF ExportInv, Orphanless, files, counts
<1>10. Fresh'
  BY <1>1, <1>5, <1>6 DEF ExportInv, Fresh, FreshAt, Repo, Chunk, files, counts
<1>11. Promised'
  BY <1>1, <1>5, <1>6 DEF ExportInv, Promised, PromisedBy, Repo, Chunk, Queued, files, counts
<1>12. Accompanied'
  <2>1. /\ SessionsFirst /\ SessionsFirst' /\ Present
        /\ there' = there /\ deleted' = deleted /\ exported' = exported
    BY <1>1 DEF ExportInv, Accompanied, SessionsFirst, db
  <2>2. Escorted(e) /\ Chunk(e)' = Chunk(e) \cup new /\ RowsOf(Chunk(e)') = RowsOf(Chunk(e)) \cup RowsOf(new)
    BY <1>5, <1>6 DEF ExportInv, Accompanied, Chunk, RowsOf
  <2>3. Present'
    <3>1. RowsOf(Chunk(e)') \subseteq Known(p)
      BY <1>1, <1>2, <1>4, <2>1, <2>2 DEF Present, Known
    <3>2. \A f \in Exporters : export'[f].at # "idle" =>
            RowsOf(Chunk(f)') \subseteq Known(export'[f].project)
      BY <1>5, <1>6, <2>1, <3>1 DEF Present, Chunk
    <3> QED BY <1>1, <2>1, <3>2 DEF Present, Known, Queued
  <2>4. \A f \in Exporters \ {e} : Escorted(f)'
    BY <1>6, <2>1 DEF ExportInv, Accompanied, Escorted, Living, Chunk
  <2>5. ASSUME from = "observations" PROVE Escorted(e)'
    <3>1. Chunk(e)' = new /\ to = "sessions" /\ RowsOf(new) \subseteq Observations
      BY <1>1, <1>4, <2>2, <2>5 DEF Escorted, Selection
    <3> QED BY <1>5, <1>6, <3>1 DEF Escorted
  <2>6. ASSUME from = "sessions" PROVE Escorted(e)'
    <3>1. to = "prompts" /\ kind = {Session}
      BY <2>6 DEF Selection
    <3>2. Living(e)' # {} => Session \in there[p]
      <4>1. Living(e)' \subseteq RowsOf(Chunk(e)) \ deleted[p]
        BY <1>4, <1>5, <1>6, <2>1, <2>2, <3>1, SyncExportAssumption DEF Living
      <4>2. RowsOf(Chunk(e)) \subseteq Known(p)
        BY <1>1, <1>2, <2>1 DEF Present
      <4> QED BY <1>3, <2>1, <4>1, <4>2 DEF Known, SessionsFirst
    <3>3. Session \in there[p] => Session \in RowsOf(Chunk(e)') \cup exported[p]
      BY <1>4, <2>2, <3>1
    <3> QED BY <1>5, <1>6, <2>1, <3>1, <3>2, <3>3 DEF Escorted
  <2>7. ASSUME from = "prompts" PROVE Escorted(e)'
    <3>1. to = "chunk" /\ kind = Prompts
      BY <2>7 DEF Selection
    <3>2. Living(e)' = Living(e)
      BY <1>4, <1>5, <1>6, <2>1, <2>2, <3>1, SyncExportAssumption DEF Living
    <3> QED BY <1>1, <1>5, <1>6, <2>1, <2>2, <2>7, <3>1, <3>2 DEF Escorted
  <2> QED BY <1>2, <2>1, <2>3, <2>4, <2>5, <2>6, <2>7 DEF Accompanied
<1>13. JobsMatch'
  BY <1>1, <1>2, <1>5, <1>6 DEF ExportInv, JobsMatch, JobOK, Done, Numbered, Queued, db, counts
<1>14. Pending'
  <2> SUFFICES ASSUME Undisturbed
               PROVE  /\ \A q \in Projects, r \in Rows : IsListed(q, r)' => Covered(q, r)'
                      /\ \A f \in Exporters : Unlisted(f)'
    BY <1>1 DEF Pending, Undisturbed, counts
  <2>1. /\ \A q \in Projects, r \in Rows : IsListed(q, r) => Covered(q, r)
        /\ \A f \in Exporters : Unlisted(f)
    BY DEF ExportInv, Pending
  <2>2. \A q, r : IsListed(q, r)' = IsListed(q, r)
    BY <1>1 DEF IsListed, Lists, files
  <2>3. \A q \in Projects, r \in Rows : Covered(q, r) => Covered(q, r)'
    BY <1>1, <1>2, <1>6 DEF Covered, Done, Chunk, db
  <2>4. \A f \in Exporters \ {e} : Unlisted(f)'
    BY <1>1, <1>6, <2>1, <2>2 DEF Unlisted, Chunk, db
  <2>5. \A r \in RowsOf(new) \ deleted[p] : ~Covered(p, r)
    <3>1. \A f \in Exporters : export[f].at \in {"send", "wait"} => export[f].project # p
      BY <1>1, <1>2, <1>3 DEF ExportInv, TypeOK, ExportsOK
    <3> QED BY <1>4, <3>1 DEF Covered, Done
  <2>6. \A r \in RowsOf(new) \ deleted[p] : ~IsListed(p, r)
    BY <1>2, <1>3, <1>4, <2>1, <2>5
  <2>7. RowsOf(Chunk(e)') = RowsOf(Chunk(e)) \cup RowsOf(new)
    BY <1>5, <1>6 DEF RowsOf, Chunk
  <2>8. \A r \in RowsOf(Chunk(e)) \ deleted[p] : ~IsListed(p, r)
    <3>1. CASE from = "observations"
      BY <1>1, <3>1 DEF ExportInv, Accompanied, Escorted, RowsOf
    <3>2. CASE from \in {"sessions", "prompts"}
      BY <1>1, <2>1, <3>2 DEF Unlisted
    <3> QED BY <1>2, <3>1, <3>2
  <2>9. Unlisted(e)'
    BY <1>1, <1>5, <1>6, <2>2, <2>6, <2>7, <2>8 DEF Unlisted, db
  <2> QED BY <2>1, <2>2, <2>3, <2>4, <2>9
<1>15. Safe'
  BY <1>1, SafeFrame DEF ExportInv, Undisturbed, db, files, counts
<1> QED BY <1>6, <1>7, <1>8, <1>9, <1>10, <1>11, <1>12, <1>13, <1>14, <1>15 DEF ExportInv

\* Two exports past the lock have different repositories.
LEMMA ReposApart ==
    ASSUME ExportInv, OwnRepos, NEW e \in Exporters, NEW f \in Exporters, e # f,
           export[e].at \notin {"idle", "lock"}, export[f].at \notin {"idle", "lock"}
    PROVE  export[e].project # export[f].project /\ Repo(e) # Repo(f)
BY DEF ExportInv, TypeOK, ExportsOK, OwnRepos, Repo

\* An export goes on with the lines it has; x is its record.
LEMMA MoveStep ==
    ASSUME ExportInv, NEW e \in Exporters, NEW x \in Export,
           export' = [export EXCEPT ![e] = x],
           x.no = export[e].no, x.project = export[e].project, x.lines = export[e].lines,
           export[e].at \notin {"idle", "send", "wait"}, x.at # "idle",
           mutex' \in [Projects -> Exporters \cup {None}],
           x.at # "lock" => mutex'[x.project] = e,
           \A f \in Exporters \ {e} : \A p \in Projects : mutex[p] = f => mutex'[p] = f,
           UNCHANGED <<db, manifest, orphans, jobs, counts>>,
           chunks' \in [Repos -> Manifest], temp' \in [Repos -> Manifest \cup {None}],
           \A f \in Exporters \ {e} : export[f].at = "rename" => temp'[Repo(f)] = temp[Repo(f)],
           ~orphaned => FreshAt(e)' /\ PromisedBy(e)',
           Escorted(e)',
           x.at \in {"sessions", "prompts", "chunk", "read", "write", "rename"} =>
                \/ x.lines = {}
                \/ export[e].at \in {"sessions", "prompts", "chunk", "read", "write", "rename"}
    PROVE  ExportInv'
<1>1. x.project \in Projects
  BY DEF ExportInv, TypeOK, ExportsOK
<1>2. /\ ExportsOK' /\ IdleIsEmpty' /\ export'[e] = x
      /\ \A f \in Exporters \ {e} : export'[f] = export[f]
  BY <1>1, MoveExportsOK DEF ExportInv, TypeOK
<1>3. TypeOK'
  BY <1>2 DEF ExportInv, TypeOK, RowsOK, FilesOK, CountsOK, db, counts
<1>4. OwnLines'
  BY <1>2 DEF ExportInv, OwnLines, Queued
<1>5. Orphanless'
  BY DEF ExportInv, Orphanless, counts
<1>6. Fresh'
  <2> SUFFICES ASSUME ~orphaned PROVE \A f \in Exporters \ {e} : FreshAt(f)'
    BY DEF Fresh, counts
  <2> QED BY <1>2 DEF ExportInv, Fresh, FreshAt, Repo, Chunk
<1>7. Promised'
  BY <1>2 DEF ExportInv, Promised, PromisedBy, Repo, Chunk, Queued, counts
<1>8. Accompanied'
  <2>1. RowsOf(x.lines) \subseteq Known(x.project)
    BY DEF ExportInv, Accompanied, Present, Chunk
  <2>2. \A p \in Projects : \A job \in Queued(p)' : RowsOf(job.chunk) \subseteq Known(p)
    BY DEF ExportInv, Accompanied, Present, Queued
  <2> QED BY <1>2, <2>1, <2>2, AccompaniedFrame DEF ExportInv, db
<1>9. JobsMatch'
  BY <1>2 DEF ExportInv, JobsMatch, JobOK, Done, Numbered, Queued, db, counts
<1>10. Pending'
  <2> SUFFICES ASSUME Undisturbed
               PROVE  /\ \A q \in Projects, r \in Rows : IsListed(q, r)' => Covered(q, r)'
                      /\ \A f \in Exporters : Unlisted(f)'
    BY DEF Pending, Undisturbed, counts
  <2>1. /\ \A q \in Projects, r \in Rows : IsListed(q, r) => Covered(q, r)
        /\ \A f \in Exporters : Unlisted(f)
    BY DEF ExportInv, Pending, Undisturbed
  <2>2. \A q, r : IsListed(q, r)' = IsListed(q, r)
    BY DEF IsListed, Lists
  <2>3. \A q \in Projects, r \in Rows : Covered(q, r) => Covered(q, r)'
    BY <1>2 DEF Covered, Done, Chunk, db
  <2>4. \A f \in Exporters \ {e} : Unlisted(f)'
    BY <1>2, <2>1, <2>2 DEF Unlisted, Chunk, db
  <2>5. Unlisted(e)'
    BY <1>2, <2>1, <2>2 DEF Unlisted, Chunk, RowsOf, db
  <2> QED BY <2>1, <2>2, <2>3, <2>4, <2>5
<1>11. Safe'
  BY SafeFrame DEF ExportInv, Undisturbed, db, counts
<1> QED BY <1>2, <1>3, <1>4, <1>5, <1>6, <1>7, <1>8, <1>9, <1>10, <1>11 DEF ExportInv

LEMMA LockStep ==
    ASSUME ExportInv, NEW e \in Exporters, Lock(e) PROVE ExportInv'
<1> DEFINE x == [export[e] EXCEPT !.at = "observations"]
<1>1. /\ export[e] \in Export /\ export[e].at = "lock" /\ export' = [export EXCEPT ![e] = x]
      /\ UNCHANGED <<db, files, jobs, counts>>
  BY DEF ExportInv, TypeOK, ExportsOK, Lock, Goes
<1>2. x \in Export /\ x.at = "observations" /\ x.no = export[e].no
      /\ x.project = export[e].project /\ x.lines = export[e].lines
  BY <1>1 DEF Export, Places
<1>3. x.project \in Projects /\ mutex[x.project] = None
  BY <1>1, <1>2 DEF ExportInv, TypeOK, ExportsOK, Lock
<1>4. /\ mutex' \in [Projects -> Exporters \cup {None}] /\ mutex'[x.project] = e
      /\ \A f \in Exporters \ {e} : \A p \in Projects : mutex[p] = f => mutex'[p] = f
  BY <1>2, <1>3, SyncExportAssumption DEF ExportInv, TypeOK, ExportsOK, Lock
<1>5. export'[e] = x
  BY <1>1 DEF ExportInv, TypeOK, ExportsOK
<1>6. FreshAt(e)' /\ PromisedBy(e)' /\ Escorted(e)'
  BY <1>1, <1>2, <1>5 DEF ExportInv, Accompanied, FreshAt, PromisedBy, Escorted, Chunk
<1>7. chunks' \in [Repos -> Manifest] /\ temp' \in [Repos -> Manifest \cup {None}]
  BY <1>1 DEF ExportInv, TypeOK, FilesOK, files
<1> QED BY <1>1, <1>2, <1>3, <1>4, <1>6, <1>7, MoveStep DEF files

LEMMA WriteChunkStep ==
    ASSUME ExportInv, NEW e \in Exporters, WriteChunk(e) PROVE ExportInv'
<1> DEFINE x == [export[e] EXCEPT !.at = "read"]
<1>1. /\ export[e] \in Export /\ export[e].at = "chunk" /\ export' = [export EXCEPT ![e] = x]
      /\ UNCHANGED <<db, manifest, temp, orphans, mutex, jobs, counts>>
  BY DEF ExportInv, TypeOK, ExportsOK, WriteChunk, Goes
<1>2. x \in Export /\ x.at = "read" /\ x.no = export[e].no
      /\ x.project = export[e].project /\ x.lines = export[e].lines
  BY <1>1 DEF Export, Places
<1>3. /\ mutex' \in [Projects -> Exporters \cup {None}] /\ mutex'[x.project] = e
      /\ \A f \in Exporters \ {e} : \A p \in Projects : mutex[p] = f => mutex'[p] = f
  BY <1>1, <1>2 DEF ExportInv, TypeOK, ExportsOK
<1>4. export'[e] = x
  BY <1>1 DEF ExportInv, TypeOK, ExportsOK
<1>5. FreshAt(e)' /\ PromisedBy(e)' /\ Escorted(e)'
  BY <1>1, <1>2, <1>4 DEF ExportInv, Accompanied, FreshAt, PromisedBy, Escorted, Living, Chunk, db
<1>6. \A r \in Repos : chunks[r] \cup {Chunk(e)} \in Manifest
  BY <1>1 DEF ExportInv, TypeOK, FilesOK, Manifest, Export, Chunk
<1>7. chunks' \in [Repos -> Manifest] /\ temp' \in [Repos -> Manifest \cup {None}]
  BY <1>1, <1>6 DEF ExportInv, TypeOK, FilesOK, WriteChunk
<1> QED BY <1>1, <1>2, <1>3, <1>5, <1>7, MoveStep

LEMMA ReadManifestStep ==
    ASSUME ExportInv, NEW e \in Exporters, ReadManifest(e) PROVE ExportInv'
<1> DEFINE base == manifest[Repo(e)]
           x == [export[e] EXCEPT !.at = IF Chunk(e) \in base THEN "send" ELSE "write",
                                  !.base = base]
<1>1. /\ export[e] \in Export /\ export[e].at = "read" /\ export' = [export EXCEPT ![e] = x]
      /\ UNCHANGED <<db, files, mutex, jobs, counts>>
  BY DEF ExportInv, TypeOK, ExportsOK, ReadManifest
<1>2. base \in Manifest
  BY <1>1 DEF ExportInv, TypeOK, ExportsOK, FilesOK, Repo, Repos
<1>3. x \in Export /\ x.at \in {"send", "write"} /\ x.no = export[e].no
      /\ x.project = export[e].project /\ x.lines = export[e].lines /\ x.base = base
      /\ (x.at = "send" => Chunk(e) \in base)
  BY <1>1, <1>2 DEF Export, Places
<1>4. /\ mutex' \in [Projects -> Exporters \cup {None}] /\ mutex'[x.project] = e
      /\ \A f \in Exporters \ {e} : \A p \in Projects : mutex[p] = f => mutex'[p] = f
  BY <1>1, <1>3 DEF ExportInv, TypeOK, ExportsOK
<1>5. export'[e] = x
  BY <1>1 DEF ExportInv, TypeOK, ExportsOK
<1>6. FreshAt(e)' /\ PromisedBy(e)'
  BY <1>1, <1>3, <1>5 DEF FreshAt, PromisedBy, Chunk, Repo, files
<1>7. Escorted(e)'
  BY <1>1, <1>3, <1>5 DEF ExportInv, Accompanied, Escorted, Living, Chunk, db
<1>8. chunks' \in [Repos -> Manifest] /\ temp' \in [Repos -> Manifest \cup {None}]
  BY <1>1 DEF ExportInv, TypeOK, FilesOK, files
<1> QED BY <1>1, <1>3, <1>4, <1>6, <1>7, <1>8, MoveStep DEF files

LEMMA WriteManifestStep ==
    ASSUME ExportInv, OwnRepos, NEW e \in Exporters, WriteManifest(e) PROVE ExportInv'
<1> DEFINE x == [export[e] EXCEPT !.at = "rename"]
           new == export[e].base \cup {Chunk(e)}
<1>1. /\ export[e] \in Export /\ export[e].at = "write" /\ export' = [export EXCEPT ![e] = x]
      /\ temp' = [temp EXCEPT ![Repo(e)] = new]
      /\ UNCHANGED <<db, chunks, manifest, orphans, mutex, jobs, counts>>
  BY DEF ExportInv, TypeOK, ExportsOK, WriteManifest, Goes
<1>2. x \in Export /\ x.at = "rename" /\ x.no = export[e].no
      /\ x.project = export[e].project /\ x.lines = export[e].lines /\ x.base = export[e].base
  BY <1>1 DEF Export, Places
<1>3. /\ mutex' \in [Projects -> Exporters \cup {None}] /\ mutex'[x.project] = e
      /\ \A f \in Exporters \ {e} : \A p \in Projects : mutex[p] = f => mutex'[p] = f
  BY <1>1, <1>2 DEF ExportInv, TypeOK, ExportsOK
<1>4. export'[e] = x
  BY <1>1 DEF ExportInv, TypeOK, ExportsOK
<1>5. new \in Manifest /\ Repo(e) \in Repos
  BY <1>1 DEF ExportInv, TypeOK, ExportsOK, Export, Manifest, Chunk, Repo, Repos
<1>6. /\ temp' \in [Repos -> Manifest \cup {None}] /\ temp'[Repo(e)] = new
      /\ \A r \in Repos \ {Repo(e)} : temp'[r] = temp[r]
  BY <1>1, <1>5 DEF ExportInv, TypeOK, FilesOK
<1>7. ~orphaned => FreshAt(e)' /\ PromisedBy(e)'
  BY <1>1, <1>2, <1>4, <1>6 DEF ExportInv, Fresh, FreshAt, PromisedBy, Chunk, Repo
<1>8. Escorted(e)'
  BY <1>1, <1>2, <1>4 DEF ExportInv, Accompanied, Escorted, Living, Chunk, db
<1>9. \A f \in Exporters \ {e} : export[f].at = "rename" => temp'[Repo(f)] = temp[Repo(f)]
  <2> TAKE f \in Exporters \ {e}
  <2> HAVE export[f].at = "rename"
  <2>1. Repo(f) \in Repos \ {Repo(e)}
    BY <1>1, ReposApart DEF ExportInv, TypeOK, ExportsOK, Repo, Repos
  <2> QED BY <1>6, <2>1
<1>10. chunks' \in [Repos -> Manifest]
  BY <1>1 DEF ExportInv, TypeOK, FilesOK
<1> QED BY <1>1, <1>2, <1>3, <1>6, <1>7, <1>8, <1>9, <1>10, MoveStep

\* A request begins; it has no lines and a number of its own.
LEMMA StartStep ==
    ASSUME ExportInv, NEW e \in Exporters, NEW p \in Projects, Start(e, p) PROVE ExportInv'
<1> DEFINE x == [NoExport EXCEPT !.at = "lock", !.no = exports + 1, !.project = p]
<1>1. /\ export[e] = NoExport /\ export' = [export EXCEPT ![e] = x] /\ exports' = exports + 1
      /\ UNCHANGED <<db, files, mutex, jobs, crashes, cancels, faults, orphaned, unmarked>>
      /\ exports \in Nat
  BY DEF ExportInv, TypeOK, CountsOK, Start
<1>2. x \in Export /\ x.at = "lock" /\ x.no = exports + 1 /\ x.project = p /\ x.lines = {}
  <2>1. NoExport \in Export
    BY DEF NoExport, Export, Places, Manifest
  <2>2. x \in Export
    <3>1. exports + 1 \in Nat /\ "lock" \in Places
      BY <1>1 DEF Places
    <3> QED BY <2>1, <3>1 DEF Export
  <2>3. x.at = "lock" /\ x.no = exports + 1 /\ x.project = p /\ x.lines = {}
    BY <1>1 DEF NoExport
  <2> QED BY <2>2, <2>3
<1>3. /\ ExportsOK' /\ IdleIsEmpty' /\ export'[e] = x
      /\ \A f \in Exporters \ {e} : export'[f] = export[f]
  BY <1>1, <1>2, MoveExportsOK DEF ExportInv, TypeOK, ExportsOK
<1>4. TypeOK'
  BY <1>1, <1>3 DEF ExportInv, TypeOK, RowsOK, FilesOK, CountsOK, db, files
<1>5. OwnLines'
  BY <1>1, <1>2, <1>3 DEF ExportInv, OwnLines, Queued
<1>6. Orphanless'
  BY <1>1 DEF ExportInv, Orphanless, files
<1>7. Fresh'
  BY <1>1, <1>2, <1>3 DEF ExportInv, Fresh, FreshAt, Repo, Chunk, files
<1>8. Promised'
  BY <1>1, <1>2, <1>3 DEF ExportInv, Promised, PromisedBy, Repo, Chunk, Queued, files
<1>9. Accompanied'
  <2>1. RowsOf(x.lines) = {}
    BY <1>2 DEF RowsOf
  <2>2. \A q \in Projects : \A job \in Queued(q)' : RowsOf(job.chunk) \subseteq Known(q)
    BY <1>1 DEF ExportInv, Accompanied, Present, Queued
  <2>3. Escorted(e)'
    BY <1>2, <1>3 DEF Escorted, Chunk
  <2> QED BY <1>1, <1>3, <2>1, <2>2, <2>3, AccompaniedFrame DEF ExportInv, db
<1>10. JobsMatch'
  BY <1>1, <1>2, <1>3 DEF ExportInv, JobsMatch, JobOK, Done, Numbered, Queued, db
<1>11. Pending'
  <2> SUFFICES ASSUME Undisturbed
               PROVE  /\ \A q \in Projects, r \in Rows : IsListed(q, r)' => Covered(q, r)'
                      /\ \A f \in Exporters : Unlisted(f)'
    BY <1>1 DEF Pending, Undisturbed
  <2>1. \A q, r : IsListed(q, r)' = IsListed(q, r)
    BY <1>1 DEF IsListed, Lists, files
  <2>2. \A q \in Projects, r \in Rows : Covered(q, r) => Covered(q, r)'
    BY <1>1, <1>3 DEF Covered, Done, Chunk, db, NoExport
  <2>3. \A f \in Exporters : Unlisted(f)'
    BY <1>1, <1>2, <1>3, <2>1 DEF ExportInv, Pending, Undisturbed, Unlisted, Chunk, db
  <2> QED BY <2>1, <2>2, <2>3 DEF ExportInv, Pending, Undisturbed
<1>12. Safe'
  BY <1>1, SafeFrame DEF ExportInv, Undisturbed, db, files
<1> QED BY <1>3, <1>4, <1>5, <1>6, <1>7, <1>8, <1>9, <1>10, <1>11, <1>12 DEF ExportInv

\* An export ends. If its chunk was promised, the rows have been marked, or a crash or a
\* cancellation ended it.
LEMMA EndStep ==
    ASSUME ExportInv, NEW e \in Exporters, End(e),
           RowsOK', FilesOK', CountsOK', jobs' \in [Projects -> Seq(Job)],
           there' = there, deleted' = deleted, exported' = exported, manifest' = manifest,
           temp' = temp, exports' = exports, Orphanless', ~orphaned' => ~orphaned,
           \A p \in Projects : Queued(p)' \subseteq Queued(p),
           Undisturbed' =>
               /\ Undisturbed
               /\ export[e].at \in {"send", "wait"} =>
                    RowsOf(Chunk(e)) \subseteq Done(export[e].project)
    PROVE  ExportInv'
<1>1. /\ ExportsOK' /\ IdleIsEmpty' /\ export'[e] = NoExport
      /\ \A f \in Exporters \ {e} : export'[f] = export[f]
  BY EndExportsOK DEF ExportInv, TypeOK
<1>2. TypeOK'
  BY <1>1 DEF TypeOK
<1>3. OwnLines'
  BY <1>1 DEF ExportInv, OwnLines, NoExport
<1>4. Fresh'
  <2> SUFFICES ASSUME ~orphaned' PROVE \A f \in Exporters : FreshAt(f)'
    BY DEF Fresh
  <2>1. \A f \in Exporters : FreshAt(f)
    BY DEF ExportInv, Fresh
  <2>2. \A f \in Exporters \ {e} : FreshAt(f)'
    BY <1>1, <2>1 DEF FreshAt, Repo, Chunk
  <2>3. FreshAt(e)'
    BY <1>1 DEF FreshAt, NoExport
  <2> QED BY <2>2, <2>3
<1>5. Promised'
  BY <1>1 DEF ExportInv, Promised, PromisedBy, Repo, Chunk, NoExport
<1>6. Accompanied'
  <2>1. Escorted(e)' /\ export'[e].at = "idle"
    BY <1>1 DEF Escorted, NoExport
  <2>2. \A p \in Projects : \A job \in Queued(p)' : RowsOf(job.chunk) \subseteq Known(p)
    BY DEF ExportInv, Accompanied, Present
  <2> QED BY <1>1, <2>1, <2>2, AccompaniedFrame DEF ExportInv
<1>7. JobsMatch'
  BY <1>1 DEF ExportInv, JobsMatch, JobOK, Done, Numbered, NoExport
<1>8. Pending'
  <2> SUFFICES ASSUME Undisturbed'
               PROVE  /\ \A q \in Projects, r \in Rows : IsListed(q, r)' => Covered(q, r)'
                      /\ \A f \in Exporters : Unlisted(f)'
    BY DEF Pending, Undisturbed
  <2>1. \A q, r : IsListed(q, r)' = IsListed(q, r)
    BY DEF IsListed, Lists
  <2>2. \A q \in Projects, r \in Rows : Covered(q, r) => Covered(q, r)'
    BY <1>1 DEF Covered, Done, Chunk, NoExport
  <2>3. \A f \in Exporters : Unlisted(f)'
    <3>1. \A f \in Exporters : Unlisted(f)
      BY DEF ExportInv, Pending, Undisturbed
    <3>2. \A f \in Exporters \ {e} : Unlisted(f)'
      BY <1>1, <2>1, <3>1 DEF Unlisted, Chunk
    <3>3. Unlisted(e)'
      BY <1>1 DEF Unlisted, NoExport
    <3> QED BY <3>2, <3>3
  <2> QED BY <2>1, <2>2, <2>3 DEF ExportInv, Pending, Undisturbed
<1>9. Safe'
  BY SafeFrame DEF ExportInv
<1> QED BY <1>1, <1>2, <1>3, <1>4, <1>5, <1>6, <1>7, <1>8, <1>9 DEF ExportInv

LEMMA NothingToExportStep ==
    ASSUME ExportInv, NEW e \in Exporters, NothingToExport(e) PROVE ExportInv'
<1>1. End(e) /\ export[e].at = "chunk" /\ UNCHANGED <<db, files, jobs, counts>>
  BY DEF NothingToExport
<1>2. RowsOK' /\ FilesOK' /\ CountsOK' /\ jobs' \in [Projects -> Seq(Job)] /\ Orphanless'
  BY <1>1 DEF ExportInv, TypeOK, RowsOK, FilesOK, CountsOK, Orphanless, db, files, counts
<1> QED BY <1>1, <1>2, EndStep DEF Undisturbed, Queued, db, files, counts

LEMMA FailsStep ==
    ASSUME ExportInv, NEW e \in Exporters, Fails(e) PROVE ExportInv'
<1>1. /\ End(e) /\ export[e].at \in {"chunk", "read", "write", "rename", "send"}
      /\ UNCHANGED <<db, files, jobs, crashes, cancels, exports, orphaned>>
      /\ faults' = faults + 1 /\ unmarked' = (unmarked \/ export[e].at = "send")
  BY DEF Fails
<1>2. RowsOK' /\ FilesOK' /\ CountsOK' /\ jobs' \in [Projects -> Seq(Job)] /\ Orphanless'
  BY <1>1 DEF ExportInv, TypeOK, RowsOK, FilesOK, CountsOK, Orphanless, db, files
<1> QED BY <1>1, <1>2, EndStep DEF Undisturbed, Queued, db, files

LEMMA CancelStep ==
    ASSUME ExportInv, NEW e \in Exporters, Cancel(e) PROVE ExportInv'
<1>1. /\ End(e) /\ export[e].at # "idle" /\ cancels' = cancels + 1
      /\ UNCHANGED <<db, chunks, manifest, temp, jobs, crashes, faults, exports, unmarked>>
  BY DEF Cancel
<1>2. cancels \in Nat /\ export[e] \in Export /\ Repo(e) \in Repos
  BY <1>1 DEF ExportInv, TypeOK, CountsOK, ExportsOK, Repo, Repos
<1>3. export[e].base \cup {Chunk(e)} \in Manifest
  BY <1>2 DEF Export, Manifest, Chunk
<1>4. CASE export[e].at \in {"write", "rename"}
  <2>1. /\ orphaned' = TRUE
        /\ orphans' \subseteq orphans \cup {<<Repo(e), export[e].base \cup {Chunk(e)}>>, <<Repo(e), None>>}
    BY <1>4 DEF Cancel
  <2>2. orphans' \subseteq Repos \X (Manifest \cup {None})
    <3>1. <<Repo(e), export[e].base \cup {Chunk(e)}>> \in Repos \X (Manifest \cup {None})
      BY <1>2, <1>3
    <3>2. <<Repo(e), None>> \in Repos \X (Manifest \cup {None})
      BY <1>2
    <3> QED BY <2>1, <3>1, <3>2 DEF ExportInv, TypeOK, FilesOK
  <2>3. RowsOK' /\ FilesOK' /\ jobs' \in [Projects -> Seq(Job)]
    BY <1>1, <2>2 DEF ExportInv, TypeOK, RowsOK, FilesOK, db
  <2>4. CountsOK' /\ Orphanless'
    BY <1>1, <1>2, <2>1 DEF ExportInv, TypeOK, CountsOK, Orphanless
  <2> QED BY <1>1, <1>2, <2>1, <2>3, <2>4, EndStep DEF Undisturbed, Queued, db
<1>5. CASE export[e].at \notin {"write", "rename"}
  <2>1. UNCHANGED <<orphans, orphaned>>
    BY <1>5 DEF Cancel
  <2>2. RowsOK' /\ FilesOK' /\ jobs' \in [Projects -> Seq(Job)]
    BY <1>1, <2>1 DEF ExportInv, TypeOK, RowsOK, FilesOK, db
  <2>3. CountsOK' /\ Orphanless'
    BY <1>1, <1>2, <2>1 DEF ExportInv, TypeOK, CountsOK, Orphanless
  <2> QED BY <1>1, <1>2, <2>1, <2>2, <2>3, EndStep DEF Undisturbed, Queued, db
<1> QED BY <1>4, <1>5

\* The rename publishes the chunk beside what was listed, unless a cancelled request's
\* write came in between.
LEMMA RenameStep ==
    ASSUME ExportInv, OwnRepos, NEW e \in Exporters, RenameManifest(e)
    PROVE  ExportInv' /\ (~orphaned' => \A r \in Repos : manifest[r] \subseteq manifest'[r])
<1> DEFINE x == [export[e] EXCEPT !.at = "send"]
           p == export[e].project
<1>1. /\ export[e] \in Export /\ export[e].at = "rename" /\ p \in Projects /\ mutex[p] = e
      /\ UNCHANGED <<db, chunks, orphans, jobs, counts>> /\ Repo(e) \in Repos
  BY DEF ExportInv, TypeOK, ExportsOK, RenameManifest, Repo, Repos
<1>2. CASE temp[Repo(e)] = None
  <2>1. End(e) /\ UNCHANGED <<manifest, temp>>
    BY <1>2 DEF RenameManifest
  <2>2. RowsOK' /\ FilesOK' /\ CountsOK' /\ jobs' \in [Projects -> Seq(Job)] /\ Orphanless'
    BY <1>1, <2>1 DEF ExportInv, TypeOK, RowsOK, FilesOK, CountsOK, Orphanless, db, counts
  <2> QED BY <1>1, <2>1, <2>2, EndStep DEF Undisturbed, Queued, db, counts
<1>3. CASE temp[Repo(e)] # None
  <2>1. /\ export' = [export EXCEPT ![e] = x] /\ mutex' = mutex
        /\ manifest' = [manifest EXCEPT ![Repo(e)] = temp[Repo(e)]]
        /\ temp' = [temp EXCEPT ![Repo(e)] = None]
    BY <1>1, <1>3 DEF ExportInv, TypeOK, ExportsOK, RenameManifest
  <2>2. x \in Export /\ x.at = "send" /\ x.no = export[e].no /\ x.project = p
        /\ x.lines = export[e].lines
    BY <1>1 DEF Export, Places
  <2> HIDE DEF x
  <2>3. /\ ExportsOK' /\ IdleIsEmpty' /\ export'[e] = x
        /\ \A f \in Exporters \ {e} : export'[f] = export[f]
    BY <1>1, <2>1, <2>2, MoveExportsOK DEF ExportInv, TypeOK, ExportsOK
  <2>4. /\ manifest' \in [Repos -> Manifest] /\ temp' \in [Repos -> Manifest \cup {None}]
        /\ manifest'[Repo(e)] = temp[Repo(e)]
        /\ \A r \in Repos \ {Repo(e)} : manifest'[r] = manifest[r] /\ temp'[r] = temp[r]
    BY <1>1, <1>3, <2>1 DEF ExportInv, TypeOK, FilesOK
  <2>5. TypeOK'
    BY <1>1, <2>3, <2>4 DEF ExportInv, TypeOK, RowsOK, FilesOK, CountsOK, db, counts
  <2>6. OwnLines'
    BY <1>1, <2>2, <2>3 DEF ExportInv, OwnLines, Queued
  <2>7. Orphanless'
    BY <1>1 DEF ExportInv, Orphanless, counts
  <2>8. Accompanied'
    <3>1. RowsOf(x.lines) \subseteq Known(p)
      BY <1>1, <2>2 DEF ExportInv, Accompanied, Present, Chunk
    <3>2. \A q \in Projects : \A job \in Queued(q)' : RowsOf(job.chunk) \subseteq Known(q)
      BY <1>1 DEF ExportInv, Accompanied, Present, Queued
    <3>3. Escorted(e)'
      BY <1>1, <2>2, <2>3 DEF ExportInv, Accompanied, Escorted, Living, Chunk, db
    <3> QED BY <1>1, <2>2, <2>3, <3>1, <3>2, <3>3, AccompaniedFrame DEF ExportInv, db
  <2>9. JobsMatch'
    BY <1>1, <2>2, <2>3 DEF ExportInv, JobsMatch, JobOK, Done, Numbered, Queued, db, counts
  <2>10. CASE orphaned
    <3>1. cancels # 0 /\ cancels' = cancels /\ orphaned' = orphaned
      BY <1>1, <2>10 DEF ExportInv, Orphanless, counts
    <3>2. Fresh' /\ Promised' /\ Pending' /\ Safe'
      BY <2>10, <3>1 DEF Fresh, Promised, Pending, Undisturbed, Safe, MarkedIsListed,
                         ObservationsHaveSessions, NoRowListedTwice
    <3> QED BY <2>3, <2>5, <2>6, <2>7, <2>8, <2>9, <2>10, <3>1, <3>2 DEF ExportInv
  <2>11. CASE ~orphaned
    <3>1. manifest'[Repo(e)] = manifest[Repo(e)] \cup {Chunk(e)}
      BY <1>1, <2>4, <2>11 DEF ExportInv, Fresh, FreshAt
    <3>2. \A r \in Repos : manifest[r] \subseteq manifest'[r]
      BY <2>4, <3>1
    <3>3. \A f \in Exporters \ {e} : export[f].at \notin {"idle", "lock"} =>
            Repo(f) \in Repos \ {Repo(e)}
      BY <1>1, ReposApart DEF ExportInv, TypeOK, ExportsOK, Repo, Repos
    <3>4. Fresh'
      <4>1. \A f \in Exporters \ {e} : FreshAt(f)'
        BY <2>3, <2>4, <2>11, <3>3 DEF ExportInv, Fresh, FreshAt, Repo, Chunk
      <4>2. FreshAt(e)'
        BY <2>2, <2>3 DEF FreshAt
      <4> QED BY <4>1, <4>2 DEF Fresh
    <3>5. Promised'
      <4>1. \A f \in Exporters \ {e} : PromisedBy(f)'
        BY <2>3, <2>4, <2>11, <3>3 DEF ExportInv, Promised, PromisedBy, Repo, Chunk
      <4>2. PromisedBy(e)'
        BY <2>2, <2>3, <3>1 DEF PromisedBy, Repo, Chunk
      <4>3. \A q \in Projects : \A job \in Queued(q)' : job.chunk \in manifest'[RepoOf[q]]
        BY <1>1, <2>11, <3>2 DEF ExportInv, Promised, Queued, Repos
      <4> QED BY <4>1, <4>2, <4>3 DEF Promised
    <3>6. \A q \in Projects, r \in Rows :
            IsListed(q, r)' => IsListed(q, r) \/ (q = p /\ r \in RowsOf(Chunk(e)))
      <4> TAKE q \in Projects, r \in Rows
      <4>1. CASE RepoOf[q] = Repo(e)
        <5>1. q = p
          BY <1>1, <4>1 DEF OwnRepos, Repo
        <5> QED BY <3>1, <4>1, <5>1 DEF IsListed, Lists, RowsOf
      <4>2. CASE RepoOf[q] # Repo(e)
        BY <2>4, <4>2 DEF IsListed, Lists, Repos
      <4> QED BY <4>1, <4>2
    <3>7. Pending'
      <4> SUFFICES ASSUME Undisturbed
                   PROVE  /\ \A q \in Projects, r \in Rows : IsListed(q, r)' => Covered(q, r)'
                          /\ \A f \in Exporters : Unlisted(f)'
        BY <1>1 DEF Pending, Undisturbed, counts
      <4>1. /\ \A q \in Projects, r \in Rows : IsListed(q, r) => Covered(q, r)
            /\ \A f \in Exporters : Unlisted(f)
        BY DEF ExportInv, Pending, Undisturbed
      <4>2. \A q \in Projects, r \in Rows : Covered(q, r) => Covered(q, r)'
        BY <1>1, <2>2, <2>3 DEF Covered, Done, Chunk, db
      <4>3. \A q \in Projects, r \in Rows : q = p /\ r \in RowsOf(Chunk(e)) => Covered(q, r)'
        BY <2>2, <2>3 DEF Covered, Done, Chunk
      <4>4. \A f \in Exporters \ {e} : Unlisted(f)'
        <5> TAKE f \in Exporters \ {e}
        <5>1. export[f].at \notin {"idle", "lock"} =>
                manifest'[RepoOf[export[f].project]] = manifest[RepoOf[export[f].project]]
          BY <2>4, <3>3 DEF Repo
        <5> QED BY <1>1, <2>3, <4>1, <5>1 DEF Unlisted, Chunk, IsListed, db
      <4>5. Unlisted(e)'
        BY <2>2, <2>3 DEF Unlisted
      <4> QED BY <3>6, <4>1, <4>2, <4>3, <4>4, <4>5
    <3>8. MarkedIsListed'
      <4>1. \A q \in Projects : Listed(q) \subseteq Listed(q)'
        BY <3>2 DEF Listed, Repos
      <4>2. \A q \in Projects : \A r : Lists(Listed(q), q, r) => Lists(Listed(q)', q, r)
        BY <4>1 DEF Lists
      <4> QED BY <1>1, <2>11, <4>2 DEF ExportInv, Safe, MarkedIsListed, db
    <3>9. ObservationsHaveSessions'
      <4> SUFFICES ASSUME NEW q \in Projects, NEW r \in Observations \ deleted[q], Lists(Listed(q)', q, r)
                   PROVE  Lists(Listed(q)', q, Session)
        BY <1>1 DEF ObservationsHaveSessions, Lists, db
      <4>1. RepoOf[q] \in Repos /\ Listed(q) \subseteq Listed(q)'
        BY <3>2 DEF Listed, Repos
      <4>2. CASE Lists(Listed(q), q, r)
        BY <2>11, <4>1, <4>2 DEF ExportInv, Safe, ObservationsHaveSessions, Lists
      <4>3. CASE ~Lists(Listed(q), q, r)
        <5>1. PICK l \in Listed(q)' : l[1] = q /\ l[2] = r /\ l \notin Listed(q)
          BY <4>3 DEF Lists
        <5>2. RepoOf[q] = Repo(e) /\ l \in Chunk(e)
          BY <2>4, <3>1, <4>1, <5>1 DEF Listed
        <5>3. q = p /\ Chunk(e) \subseteq Listed(q)'
          BY <1>1, <3>1, <5>2 DEF OwnRepos, Repo, Listed
        <5>4. r \in Living(e)
          BY <5>1, <5>2, <5>3 DEF Living, RowsOf
        <5>5. Session \in RowsOf(Chunk(e)) \/ Session \in exported[p]
          BY <1>1, <5>4 DEF ExportInv, Accompanied, Escorted
        <5>6. \A k \in Chunk(e) : k[1] = p
          BY DEF ExportInv, OwnLines, Chunk
        <5>7. Session \in exported[p] => Lists(Listed(p), p, Session)
          BY <1>1, <2>11 DEF ExportInv, Safe, MarkedIsListed
        <5> QED BY <4>1, <5>3, <5>5, <5>6, <5>7 DEF Lists, RowsOf
      <4> QED BY <4>2, <4>3
    <3>10. NoRowListedTwice'
      <4> SUFFICES ASSUME Undisturbed, NEW q \in Projects, NEW r \in Rows \ deleted[q],
                          NEW c \in manifest'[RepoOf[q]], NEW d \in manifest'[RepoOf[q]],
                          Lists(c, q, r), Lists(d, q, r)
                   PROVE  c = d
        BY <1>1 DEF NoRowListedTwice, Undisturbed, counts, db
      <4>1. \A a, b \in manifest[RepoOf[q]] : Lists(a, q, r) /\ Lists(b, q, r) => a = b
        BY DEF ExportInv, Safe, NoRowListedTwice, Undisturbed
      <4>2. CASE RepoOf[q] # Repo(e)
        BY <2>4, <4>1, <4>2 DEF Repos
      <4>3. CASE RepoOf[q] = Repo(e)
        <5>1. q = p
          BY <1>1, <4>3 DEF OwnRepos, Repo
        <5>2. Lists(Chunk(e), q, r) => ~IsListed(q, r)
          BY <1>1, <5>1 DEF ExportInv, Pending, Unlisted, RowsOf, Lists
        <5>3. \A a \in manifest[RepoOf[q]] : Lists(a, q, r) => ~Lists(Chunk(e), q, r)
          BY <5>2 DEF IsListed
        <5> QED BY <3>1, <4>1, <4>3, <5>3
      <4> QED BY <4>2, <4>3
    <3>11. Safe'
      BY <3>8, <3>9, <3>10 DEF Safe
    <3> QED BY <2>3, <2>5, <2>6, <2>7, <2>8, <2>9, <3>2, <3>4, <3>5, <3>7, <3>11
            DEF ExportInv
  <2> QED BY <2>10, <2>11
<1> QED BY <1>2, <1>3

\* The request to the write thread: the chunk it carries is in the manifest.
LEMMA SendMarkStep ==
    ASSUME ExportInv, NEW e \in Exporters, SendMark(e) PROVE ExportInv'
<1> DEFINE x == [export[e] EXCEPT !.at = "wait"]
           p == export[e].project
           new == [no |-> export[e].no, chunk |-> Chunk(e), at |-> "observations"]
<1>1. /\ export[e] \in Export /\ export[e].at = "send" /\ p \in Projects /\ mutex[p] = e
      /\ export' = [export EXCEPT ![e] = x] /\ jobs' = [jobs EXCEPT ![p] = Append(jobs[p], new)]
      /\ UNCHANGED <<db, files, mutex, counts>>
  BY DEF ExportInv, TypeOK, ExportsOK, SendMark, Goes
<1>2. x \in Export /\ x.at = "wait" /\ x.no = export[e].no /\ x.project = p
      /\ x.lines = export[e].lines
  BY <1>1 DEF Export, Places
<1>3. new \in Job /\ new.no = export[e].no /\ new.chunk = Chunk(e) /\ new.at = "observations"
  BY <1>1 DEF Export, Job, Chunk
<1> HIDE DEF x, new
<1>4. /\ ExportsOK' /\ IdleIsEmpty' /\ export'[e] = x
      /\ \A f \in Exporters \ {e} : export'[f] = export[f]
  BY <1>1, <1>2, MoveExportsOK DEF ExportInv, TypeOK, ExportsOK
<1>5. /\ jobs' \in [Projects -> Seq(Job)]
      /\ \A q \in Projects : Queued(q)' = Queued(q) \cup (IF q = p THEN {new} ELSE {})
  <2>1. jobs[p] \in Seq(Job) /\ jobs \in [Projects -> Seq(Job)]
    BY <1>1 DEF ExportInv, TypeOK
  <2>2. /\ Append(jobs[p], new) \in Seq(Job)
        /\ Elements(Append(jobs[p], new)) = Elements(jobs[p]) \cup {new}
    BY <1>3, <2>1, AppendElements
  <2>3. jobs'[p] = Append(jobs[p], new) /\ \A q \in Projects \ {p} : jobs'[q] = jobs[q]
    BY <1>1, <2>1
  <2> QED BY <1>1, <2>1, <2>2, <2>3 DEF Queued
<1>6. TypeOK'
  BY <1>1, <1>4, <1>5 DEF ExportInv, TypeOK, RowsOK, FilesOK, CountsOK, db, files, counts
<1>7. \A l \in new.chunk : l[1] = p
  BY <1>3 DEF ExportInv, OwnLines, Chunk
<1>8. OwnLines'
  <2>1. \A f \in Exporters : \A l \in export'[f].lines : l[1] = export'[f].project
    BY <1>2, <1>4 DEF ExportInv, OwnLines
  <2>2. \A q \in Projects : \A job \in Queued(q)' : \A l \in job.chunk : l[1] = q
    BY <1>5, <1>7 DEF ExportInv, OwnLines
  <2> QED BY <2>1, <2>2 DEF OwnLines
<1>9. Orphanless'
  BY <1>1 DEF ExportInv, Orphanless, files, counts
<1>10. Fresh'
  BY <1>1, <1>2, <1>4 DEF ExportInv, Fresh, FreshAt, Repo, Chunk, files, counts
<1>11. Promised'
  <2> SUFFICES ASSUME ~orphaned
               PROVE  /\ \A f \in Exporters : PromisedBy(f)'
                      /\ \A q \in Projects : \A job \in Queued(q)' : job.chunk \in manifest'[RepoOf[q]]
    BY <1>1 DEF Promised, counts
  <2>1. \A f \in Exporters : PromisedBy(f)'
    BY <1>1, <1>2, <1>4 DEF ExportInv, Promised, PromisedBy, Repo, Chunk, files
  <2>2. new.chunk \in manifest[RepoOf[p]]
    BY <1>1, <1>3 DEF ExportInv, Promised, PromisedBy, Repo
  <2> QED BY <1>1, <1>5, <2>1, <2>2 DEF ExportInv, Promised, files
<1>12. Accompanied'
  <2>1. RowsOf(Chunk(e)) \subseteq Known(p)
    BY <1>1 DEF ExportInv, Accompanied, Present
  <2>2. \A q \in Projects : \A job \in Queued(q)' : RowsOf(job.chunk) \subseteq Known(q)
    BY <1>3, <1>5, <2>1 DEF ExportInv, Accompanied, Present
  <2>3. Escorted(e)'
    BY <1>1, <1>2, <1>4 DEF ExportInv, Accompanied, Escorted, Living, Chunk, db
  <2> QED BY <1>1, <1>2, <1>4, <2>1, <2>2, <2>3, AccompaniedFrame DEF ExportInv, Chunk, db
<1>13. JobsMatch'
  <2>1. Numbered'
    BY <1>1, <1>2, <1>4 DEF ExportInv, JobsMatch, Numbered, counts
  <2>2. \A q \in Projects : \A job \in Queued(q) : JobOK(q, job)'
    BY <1>1, <1>2, <1>4 DEF ExportInv, JobsMatch, JobOK, Done, db, counts
  <2>3. \A q \in Projects : \A job : q = p /\ job = new => JobOK(q, job)'
    BY <1>1, <1>2, <1>3, <1>4 DEF ExportInv, JobsMatch, Numbered, JobOK, Chunk, counts
  <2> QED BY <1>5, <2>1, <2>2, <2>3 DEF JobsMatch
<1>14. Pending'
  <2> SUFFICES ASSUME Undisturbed
               PROVE  /\ \A q \in Projects, r \in Rows : IsListed(q, r)' => Covered(q, r)'
                      /\ \A f \in Exporters : Unlisted(f)'
    BY <1>1 DEF Pending, Undisturbed, counts
  <2>1. \A q, r : IsListed(q, r)' = IsListed(q, r)
    BY <1>1 DEF IsListed, Lists, files
  <2>2. \A q \in Projects, r \in Rows : Covered(q, r) => Covered(q, r)'
    BY <1>1, <1>2, <1>4 DEF Covered, Done, Chunk, db
  <2>3. \A f \in Exporters : Unlisted(f)'
    BY <1>1, <1>2, <1>4, <2>1 DEF ExportInv, Pending, Undisturbed, Unlisted, Chunk, db
  <2> QED BY <2>1, <2>2, <2>3 DEF ExportInv, Pending, Undisturbed
<1>15. Safe'
  BY <1>1, SafeFrame DEF ExportInv, Undisturbed, db, files, counts
<1> QED BY <1>4, <1>6, <1>8, <1>9, <1>10, <1>11, <1>12, <1>13, <1>14, <1>15 DEF ExportInv

------------------------------------------------------------------------------
(* The steps of others. *)

\* A write of a cancelled request: from here on nothing is promised.
LEMMA OrphanStep ==
    ASSUME ExportInv, NEW o \in orphans, Orphan(o) PROVE ExportInv' /\ orphaned'
<1>1. /\ o \in Repos \X (Manifest \cup {None}) /\ orphans' = orphans \ {o}
      /\ UNCHANGED <<db, chunks, mutex, export, jobs, counts>>
  BY DEF ExportInv, TypeOK, FilesOK, Orphan
<1>2. orphaned /\ cancels # 0 /\ orphaned' = orphaned /\ cancels' = cancels
  BY <1>1 DEF ExportInv, Orphanless, counts
<1>3. FilesOK'
  <2>1. CASE o[2] # None
    BY <1>1, <2>1 DEF ExportInv, TypeOK, FilesOK, Orphan
  <2>2. CASE o[2] = None /\ temp[o[1]] # None
    BY <1>1, <2>2 DEF ExportInv, TypeOK, FilesOK, Orphan
  <2>3. CASE o[2] = None /\ temp[o[1]] = None
    BY <1>1, <2>3 DEF ExportInv, TypeOK, FilesOK, Orphan
  <2> QED BY <2>1, <2>2, <2>3
<1>4. TypeOK' /\ IdleIsEmpty'
  BY <1>1, <1>3 DEF ExportInv, TypeOK, RowsOK, ExportsOK, CountsOK, IdleIsEmpty, db, counts
<1>5. OwnLines' /\ Accompanied' /\ JobsMatch'
  <2>1. OwnLines' /\ SessionsFirst'
    BY <1>1 DEF ExportInv, OwnLines, Accompanied, SessionsFirst, Queued, db
  <2>2. Present'
    BY <1>1 DEF ExportInv, Accompanied, Present, Known, Chunk, Queued, db
  <2>3. \A e \in Exporters : Escorted(e)'
    BY <1>1 DEF ExportInv, Accompanied, Escorted, Living, Chunk, db
  <2>4. JobsMatch'
    BY <1>1 DEF ExportInv, JobsMatch, JobOK, Done, Numbered, Queued, db, counts
  <2> QED BY <2>1, <2>2, <2>3, <2>4 DEF Accompanied
<1>6. Orphanless' /\ Fresh' /\ Promised' /\ Pending' /\ Safe'
  BY <1>2 DEF Orphanless, Fresh, Promised, Pending, Undisturbed, Safe, MarkedIsListed,
              ObservationsHaveSessions, NoRowListedTwice
<1> QED BY <1>2, <1>4, <1>5, <1>6 DEF ExportInv

\* The daemon dies: nothing in the files or the database changes.
LEMMA CrashStep ==
    ASSUME ExportInv, Crash PROVE ExportInv'
<1>1. /\ export' = [e \in Exporters |-> NoExport] /\ mutex' = [p \in Projects |-> None]
      /\ jobs' = [p \in Projects |-> <<>>] /\ orphans' = {} /\ crashes' = crashes + 1
      /\ UNCHANGED <<db, chunks, manifest, temp, cancels, faults, exports, orphaned, unmarked>>
      /\ crashes \in Nat
  BY DEF ExportInv, TypeOK, CountsOK, Crash
<1>2. NoExport \in Export
  BY DEF NoExport, Export, Places, Manifest
<1>3. ExportsOK' /\ IdleIsEmpty'
  BY <1>1, <1>2 DEF ExportsOK, IdleIsEmpty, NoExport
<1>4. \A p \in Projects : jobs'[p] = <<>> /\ Queued(p)' = {}
  BY <1>1 DEF Queued, Elements
<1>5. TypeOK'
  <2>1. jobs' \in [Projects -> Seq(Job)]
    BY <1>1
  <2> QED BY <1>1, <1>3, <2>1 DEF ExportInv, TypeOK, RowsOK, FilesOK, CountsOK, db
<1>6. \A e \in Exporters : export'[e] = NoExport
  BY <1>1
<1>7. OwnLines' /\ Orphanless' /\ Fresh' /\ Promised' /\ Accompanied' /\ JobsMatch'
  BY <1>1, <1>4, <1>6 DEF ExportInv, OwnLines, Orphanless, Fresh, FreshAt, Promised, PromisedBy,
       Accompanied, Present, Known, SessionsFirst, Escorted, Living, JobsMatch, Numbered, Chunk, NoExport, db
<1>8. Pending'
  BY <1>1 DEF Pending, Undisturbed
<1>9. Safe'
  BY <1>1, SafeFrame DEF ExportInv, Undisturbed, db
<1> QED BY <1>3, <1>5, <1>7, <1>8, <1>9 DEF ExportInv

LEMMA SaveStep ==
    ASSUME ExportInv, NEW p \in Projects, NEW r \in Rows, Save(p, r) PROVE ExportInv'
<1>1. /\ rev' = [rev EXCEPT ![p] = [rev[p] EXCEPT ![r] = rev[p][r] + 1]]
      /\ there' = [there EXCEPT ![p] = there[p] \cup {r}]
      /\ UNCHANGED <<deleted, exported, imported, files, mutex, export, jobs, counts>>
      /\ rev[p][r] < MaxRev /\ (r # Session => Session \in there[p])
  BY DEF ExportInv, TypeOK, RowsOK, Save
<1>2. rev \in [Projects -> [Rows -> 0..MaxRev]] /\ MaxRev \in Nat /\ Session \in Rows
  BY SyncExportAssumption DEF ExportInv, TypeOK, RowsOK, Rows
<1>3. rev' \in [Projects -> [Rows -> 0..MaxRev]]
  BY <1>1, <1>2
<1>4. \A q \in Projects, t \in Rows :
        rev'[q][t] = IF q = p /\ t = r THEN rev[q][t] + 1 ELSE rev[q][t]
  BY <1>1, <1>2
<1>5. /\ there' \in [Projects -> SUBSET Rows]
      /\ \A q \in Projects : there'[q] = there[q] \cup (IF q = p THEN {r} ELSE {})
  BY <1>1 DEF ExportInv, TypeOK, RowsOK
<1>6. RowsOK'
  <2>1. \A q \in Projects : \A t \in there'[q] : rev'[q][t] > 0
    <3> TAKE q \in Projects
    <3> TAKE t \in there'[q]
    <3>1. t \in Rows
      BY <1>5
    <3>2. CASE q = p /\ t = r
      BY <1>2, <1>4, <3>2
    <3>3. CASE ~(q = p /\ t = r)
      BY <1>4, <1>5, <3>1, <3>3 DEF ExportInv, TypeOK, RowsOK
    <3> QED BY <3>2, <3>3
  <2> QED BY <1>1, <1>3, <1>5, <2>1 DEF ExportInv, TypeOK, RowsOK
<1>7. TypeOK' /\ IdleIsEmpty'
  BY <1>1, <1>6 DEF ExportInv, TypeOK, FilesOK, ExportsOK, CountsOK, IdleIsEmpty, files, counts
<1>8. Accompanied'
  <2>1. SessionsFirst'
    BY <1>1, <1>5 DEF ExportInv, Accompanied, SessionsFirst
  <2>2. \A q \in Projects : Known(q) \subseteq Known(q)'
    BY <1>1, <1>5 DEF Known
  <2>3. Present'
    <3>1. \A e \in Exporters : export[e].at # "idle" => export[e].project \in Projects
      BY DEF ExportInv, TypeOK, ExportsOK
    <3> QED BY <1>1, <2>2, <3>1 DEF ExportInv, Accompanied, Present, Chunk, Queued
  <2>4. \A e \in Exporters : Escorted(e)'
    BY <1>1 DEF ExportInv, Accompanied, Escorted, Living, Chunk
  <2> QED BY <2>1, <2>3, <2>4 DEF Accompanied
<1>9. OwnLines' /\ Orphanless' /\ Fresh' /\ Promised' /\ JobsMatch'
  BY <1>1 DEF ExportInv, OwnLines, Orphanless, Fresh, FreshAt, Promised, PromisedBy, JobsMatch,
              JobOK, Done, Numbered, Repo, Chunk, Queued, files, counts
<1>10. Pending'
  BY <1>1 DEF ExportInv, Pending, Undisturbed, Covered, Done, Unlisted, IsListed, Chunk, files,
              counts
<1>11. Safe'
  BY <1>1, SafeFrame DEF ExportInv, Undisturbed, files, counts
<1> QED BY <1>7, <1>8, <1>9, <1>10, <1>11 DEF ExportInv

\* A row goes: what was taken is known still, and a session goes after its observations.
LEMMA DeleteStep ==
    ASSUME ExportInv, NEW p \in Projects, NEW r \in Rows, Delete(p, r) PROVE ExportInv'
<1>1. /\ there' = [there EXCEPT ![p] = there[p] \ {r}]
      /\ exported' = [exported EXCEPT ![p] = exported[p] \ {r}]
      /\ deleted' = [deleted EXCEPT ![p] = deleted[p] \cup {r}]
      /\ UNCHANGED <<rev, imported, files, mutex, export, jobs, counts>>
      /\ (r = Session => there[p] = {Session})
  BY DEF Delete
<1>2. /\ there' \in [Projects -> SUBSET Rows] /\ exported' \in [Projects -> SUBSET Rows]
      /\ deleted' \in [Projects -> SUBSET Rows]
      /\ \A q \in Projects :
            LET gone == IF q = p THEN {r} ELSE {} IN
            /\ there'[q] = there[q] \ gone /\ exported'[q] = exported[q] \ gone
            /\ deleted'[q] = deleted[q] \cup gone
  BY <1>1 DEF ExportInv, TypeOK, RowsOK
<1>3. RowsOK'
  BY <1>1, <1>2 DEF ExportInv, TypeOK, RowsOK
<1>4. TypeOK' /\ IdleIsEmpty'
  BY <1>1, <1>3 DEF ExportInv, TypeOK, FilesOK, ExportsOK, CountsOK, IdleIsEmpty, files, counts
<1>5. \A q \in Projects : Known(q) \subseteq Known(q)' /\ Done(q) \subseteq Done(q)'
  BY <1>2 DEF Known, Done
<1>6. \A e \in Exporters : export[e].at # "idle" => export[e].project \in Projects
  BY DEF ExportInv, TypeOK, ExportsOK
<1>7. Accompanied'
  <2>1. SessionsFirst'
    <3>1. \A q \in Projects : there[q] # {} => Session \in there[q]
      BY DEF ExportInv, Accompanied, SessionsFirst
    <3>2. ASSUME NEW q \in Projects, there'[q] # {} PROVE Session \in there'[q]
      BY <1>1, <1>2, <3>1, <3>2
    <3> QED BY <3>2 DEF SessionsFirst
  <2>2. Present'
    BY <1>1, <1>5, <1>6 DEF ExportInv, Accompanied, Present, Chunk, Queued
  <2>3. ASSUME NEW e \in Exporters PROVE Escorted(e)'
    <3>1. CASE export[e].at = "idle"
      BY <1>1, <3>1 DEF Escorted
    <3>2. CASE export[e].at # "idle"
      <4> DEFINE q == export[e].project
      <4>1. q \in Projects /\ Chunk(e)' = Chunk(e) /\ export'[e] = export[e]
        BY <1>1, <1>6, <3>2 DEF Chunk
      <4>2. Living(e)' \subseteq Living(e)
        BY <1>2, <4>1 DEF Living
      <4>3. q = p /\ r = Session => Living(e) = {}
        <5>1. q = p /\ r = Session => RowsOf(Chunk(e)) \subseteq {Session} \cup deleted[q]
          BY <1>1, <3>2 DEF ExportInv, Accompanied, Present, Known
        <5> QED BY <5>1, SyncExportAssumption DEF Living
      <4>4. Session \in exported[q] => Session \in exported'[q] \/ (q = p /\ r = Session)
        BY <1>2, <4>1
      <4>5. Escorted(e)
        BY DEF ExportInv, Accompanied
      <4> QED BY <4>1, <4>2, <4>3, <4>4, <4>5 DEF Escorted
    <3> QED BY <3>1, <3>2
  <2> QED BY <2>1, <2>2, <2>3 DEF Accompanied
<1>8. OwnLines' /\ Orphanless' /\ Fresh' /\ Promised'
  BY <1>1 DEF ExportInv, OwnLines, Orphanless, Fresh, FreshAt, Promised, PromisedBy, Repo, Chunk,
              Queued, files, counts
<1>9. JobsMatch'
  <2>1. Numbered'
    BY <1>1 DEF ExportInv, JobsMatch, Numbered, counts
  <2>2. ASSUME NEW q \in Projects, NEW job \in Queued(q) PROVE JobOK(q, job)'
    <3>1. JobOK(q, job) /\ Done(q) \subseteq Done(q)'
      BY <1>5 DEF ExportInv, JobsMatch
    <3> QED BY <1>1, <3>1 DEF JobOK, counts
  <2> QED BY <1>1, <2>1, <2>2 DEF JobsMatch, Queued
<1>10. Pending'
  <2> SUFFICES ASSUME Undisturbed
               PROVE  /\ \A q \in Projects, t \in Rows : IsListed(q, t)' => Covered(q, t)'
                      /\ \A e \in Exporters : Unlisted(e)'
    BY <1>1 DEF Pending, Undisturbed, counts
  <2>1. \A q, t : IsListed(q, t)' = IsListed(q, t)
    BY <1>1 DEF IsListed, files
  <2>2. \A q \in Projects, t \in Rows : Covered(q, t) => Covered(q, t)'
    BY <1>1, <1>5 DEF Covered, Chunk
  <2>3. ASSUME NEW e \in Exporters PROVE Unlisted(e)'
    <3>1. Unlisted(e)
      BY DEF ExportInv, Pending, Undisturbed
    <3>2. export[e].at # "idle" => deleted[export[e].project] \subseteq deleted'[export[e].project]
      BY <1>2, <1>6
    <3> QED BY <1>1, <2>1, <3>1, <3>2 DEF Unlisted, Chunk
  <2> QED BY <2>1, <2>2, <2>3 DEF ExportInv, Pending, Undisturbed
<1>11. Safe'
  BY <1>1, <1>2, SafeFrame DEF ExportInv, Undisturbed, files, counts
<1> QED BY <1>4, <1>7, <1>8, <1>9, <1>10, <1>11 DEF ExportInv

Marking ==
    {<<"observations", Observations, "sessions">>, <<"sessions", {Session}, "prompts">>,
     <<"prompts", Prompts, "record">>}

\* One UPDATE of the closure: it marks rows of a chunk that the manifest lists.
LEMMA MarkStep ==
    ASSUME ExportInv, NEW p \in Projects, NEW from, NEW kind, NEW to,
           <<from, kind, to>> \in Marking, Mark(p, from, kind, to)
    PROVE  ExportInv'
<1> DEFINE head == Head(jobs[p])
           new == [head EXCEPT !.at = to]
           marked == Marked(head.chunk, kind) \cap there[p]
<1>1. /\ jobs[p] # <<>> /\ head.at = from
      /\ exported' = [exported EXCEPT ![p] = exported[p] \cup marked]
      /\ jobs' = [jobs EXCEPT ![p] = [jobs[p] EXCEPT ![1].at = to]]
      /\ UNCHANGED <<rev, there, deleted, imported, files, mutex, export, counts>>
  BY DEF Mark
<1>2. jobs \in [Projects -> Seq(Job)] /\ jobs[p] \in Seq(Job)
  BY DEF ExportInv, TypeOK
<1>3. /\ kind \subseteq Rows /\ to \in {"sessions", "prompts", "record"}
      /\ from \in {"observations", "sessions", "prompts"}
  BY DEF Marking, Rows
<1>4. head \in Queued(p) /\ head \in Job
  BY <1>1, <1>2, HeadTailElements DEF Queued
<1>5. new \in Job /\ new.no = head.no /\ new.chunk = head.chunk /\ new.at = to
  BY <1>3, <1>4 DEF Job
<1>6. /\ [jobs[p] EXCEPT ![1].at = to] \in Seq(Job)
      /\ Elements([jobs[p] EXCEPT ![1].at = to]) \subseteq Elements(jobs[p]) \cup {new}
  BY <1>1, <1>2, <1>3, MarkElements
<1>7. marked = RowsOf(head.chunk) \cap kind \cap there[p] /\ marked \subseteq Rows
  BY <1>3 DEF Marked, RowsOf
<1> HIDE DEF head, new, marked
<1>8. /\ jobs' \in [Projects -> Seq(Job)]
      /\ \A q \in Projects : Queued(q)' \subseteq Queued(q) \cup (IF q = p THEN {new} ELSE {})
  BY <1>1, <1>2, <1>6 DEF Queued
<1>9. /\ exported' \in [Projects -> SUBSET Rows]
      /\ \A q \in Projects : exported'[q] = exported[q] \cup (IF q = p THEN marked ELSE {})
  BY <1>1, <1>7 DEF ExportInv, TypeOK, RowsOK
<1>10. TypeOK' /\ IdleIsEmpty'
  BY <1>1, <1>8, <1>9 DEF ExportInv, TypeOK, RowsOK, FilesOK, ExportsOK, CountsOK, IdleIsEmpty,
                          files, counts
<1>11. OwnLines'
  BY <1>1, <1>4, <1>5, <1>8 DEF ExportInv, OwnLines
<1>12. Orphanless' /\ Fresh'
  BY <1>1 DEF ExportInv, Orphanless, Fresh, FreshAt, Repo, Chunk, files, counts
<1>13. Promised'
  BY <1>1, <1>4, <1>5, <1>8 DEF ExportInv, Promised, PromisedBy, Repo, Chunk, files, counts
<1>14. Accompanied'
  <2>1. SessionsFirst'
    BY <1>1 DEF ExportInv, Accompanied, SessionsFirst
  <2>2. \A e \in Exporters : Escorted(e)'
    BY <1>1, <1>9 DEF ExportInv, TypeOK, ExportsOK, Accompanied, Escorted, Living, Chunk
  <2>3. Present'
    <3>1. \A q \in Projects : \A job \in Queued(q)' : RowsOf(job.chunk) \subseteq Known(q)
      BY <1>4, <1>5, <1>8 DEF ExportInv, Accompanied, Present
    <3> QED BY <1>1, <3>1 DEF ExportInv, Accompanied, Present, Known, Chunk
  <2> QED BY <2>1, <2>2, <2>3 DEF Accompanied
<1>15. JobsMatch'
  <2>1. Numbered'
    BY <1>1 DEF ExportInv, JobsMatch, Numbered, counts
  <2>2. \A q \in Projects : \A job \in Queued(q) : JobOK(q, job)'
    <3>1. \A q \in Projects : Done(q) \subseteq Done(q)'
      BY <1>1, <1>9 DEF Done
    <3> QED BY <1>1, <3>1 DEF ExportInv, JobsMatch, JobOK, counts
  <2>3. \A q \in Projects : \A job : q = p /\ job = new => JobOK(q, job)'
    <3>1. JobOK(p, head)
      BY <1>4 DEF ExportInv, JobsMatch
    <3>2. Done(p) \cup (RowsOf(head.chunk) \cap kind) \subseteq Done(p)'
      <4>1. RowsOf(head.chunk) \subseteq Known(p)
        BY <1>4 DEF ExportInv, Accompanied, Present
      <4> QED BY <1>1, <1>7, <1>9, <4>1 DEF Done, Known
    <3>3. /\ RowsOf(new.chunk) \cap Observations \subseteq Done(p)'
          /\ to \in {"prompts", "record"} => RowsOf(new.chunk) \cap {Session} \subseteq Done(p)'
          /\ to = "record" => RowsOf(new.chunk) \cap Prompts \subseteq Done(p)'
      <4>1. CASE from = "observations"
        BY <1>1, <1>5, <3>1, <3>2, <4>1 DEF JobOK, Marking
      <4>2. CASE from = "sessions"
        BY <1>1, <1>5, <3>1, <3>2, <4>2 DEF JobOK, Marking
      <4>3. CASE from = "prompts"
        BY <1>1, <1>5, <3>1, <3>2, <4>3 DEF JobOK, Marking
      <4> QED BY <1>3, <4>1, <4>2, <4>3
    <3> QED BY <1>1, <1>5, <3>1, <3>3 DEF JobOK, counts
  <2> QED BY <1>8, <2>1, <2>2, <2>3 DEF JobsMatch
<1>16. Pending'
  <2>1. \A q, r : IsListed(q, r)' = IsListed(q, r)
    BY <1>1 DEF IsListed, Lists, files
  <2>2. \A q \in Projects, r \in Rows : Covered(q, r) => Covered(q, r)'
    BY <1>1, <1>9 DEF Covered, Done, Chunk
  <2>3. \A e \in Exporters : Unlisted(e) => Unlisted(e)'
    BY <1>1, <2>1 DEF Unlisted, Chunk
  <2> QED BY <1>1, <2>1, <2>2, <2>3 DEF ExportInv, Pending, Undisturbed, counts
<1>17. Safe'
  <2>1. \A q : Listed(q)' = Listed(q)
    BY <1>1 DEF Listed, files
  <2>2. MarkedIsListed'
    <3> SUFFICES ASSUME ~orphaned, NEW q \in Projects, NEW r \in exported'[q]
                 PROVE  Lists(Listed(q), q, r)
      BY <1>1, <2>1 DEF MarkedIsListed, counts
    <3>1. CASE r \in exported[q]
      BY <3>1 DEF ExportInv, Safe, MarkedIsListed
    <3>2. CASE r \notin exported[q]
      <4>1. q = p /\ r \in RowsOf(head.chunk)
        BY <1>7, <1>9, <3>2
      <4>2. head.chunk \in manifest[RepoOf[p]] /\ \A l \in head.chunk : l[1] = p
        BY <1>4 DEF ExportInv, Promised, OwnLines
      <4> QED BY <4>1, <4>2 DEF Listed, Lists, RowsOf
    <3> QED BY <3>1, <3>2
  <2>3. ObservationsHaveSessions' /\ NoRowListedTwice'
    BY <1>1, <2>1 DEF ExportInv, Safe, ObservationsHaveSessions, NoRowListedTwice, Undisturbed, files, counts
  <2> QED BY <2>2, <2>3 DEF Safe
<1> QED BY <1>10, <1>11, <1>12, <1>13, <1>14, <1>15, <1>16, <1>17 DEF ExportInv

\* The write thread is through with a job, whatever became of it: its export, if it still
\* waits, ends; if nothing went wrong all its rows are marked or gone.
LEMMA ReplyStep ==
    ASSUME ExportInv, NEW p \in Projects, jobs[p] # <<>>, Reply(p),
           RowsOK', CountsOK', Orphanless', ~orphaned' => ~orphaned,
           UNCHANGED <<there, deleted, exported, files, exports>>,
           Undisturbed' => Undisturbed /\ Head(jobs[p]).at = "record"
    PROVE  ExportInv'
<1> DEFINE job == Head(jobs[p])
<1>1. jobs' = [jobs EXCEPT ![p] = Tail(jobs[p])]
  BY DEF Reply
<1>2. jobs \in [Projects -> Seq(Job)] /\ jobs[p] \in Seq(Job)
  BY DEF ExportInv, TypeOK
<1>3. /\ job \in Queued(p) /\ job \in Job
      /\ Tail(jobs[p]) \in Seq(Job) /\ Elements(Tail(jobs[p])) \subseteq Elements(jobs[p])
  BY <1>2, HeadTailElements DEF Queued
<1>4. /\ jobs' \in [Projects -> Seq(Job)]
      /\ \A q \in Projects : Queued(q)' \subseteq Queued(q)
  BY <1>1, <1>2, <1>3 DEF Queued
<1>5. FilesOK'
  BY DEF ExportInv, TypeOK, FilesOK, files
<1>6. JobOK(p, job)
  BY <1>3 DEF ExportInv, JobsMatch
<1>7. CASE \E e \in Exporters : export[e].no = job.no
  <2>1. PICK e \in Exporters : export[e].no = job.no /\ End(e)
    BY <1>7 DEF Reply
  <2>2. export[e].at # "idle"
    BY <1>6, <2>1 DEF ExportInv, TypeOK, CountsOK, IdleIsEmpty, NoExport, JobOK
  <2>3. export[e].project = p /\ export[e].lines = job.chunk
    BY <1>6, <2>1, <2>2 DEF JobOK
  <2>4. RowsOf(Chunk(e)) \subseteq Rows
    BY <1>3, <2>3 DEF Job, Line, RowsOf, Chunk
  <2>5. job.at = "record" => RowsOf(Chunk(e)) \subseteq Done(p)
    BY <1>6, <2>3, <2>4 DEF JobOK, Chunk, Rows
  <2> QED BY <1>4, <1>5, <2>1, <2>3, <2>5, EndStep DEF files
<1>8. CASE ~\E e \in Exporters : export[e].no = job.no
  <2>1. UNCHANGED <<export, mutex>>
    BY <1>8 DEF Reply
  <2>2. TypeOK' /\ IdleIsEmpty'
    BY <1>4, <1>5, <2>1 DEF ExportInv, TypeOK, ExportsOK, IdleIsEmpty
  <2>3. OwnLines' /\ Fresh' /\ Promised' /\ Accompanied' /\ JobsMatch'
    <3>1. OwnLines' /\ Fresh' /\ Promised' /\ SessionsFirst'
      BY <1>4, <2>1 DEF ExportInv, OwnLines, Fresh, FreshAt, Promised, PromisedBy, Accompanied,
           SessionsFirst, Repo, Chunk, files
    <3>2. Present'
      BY <1>4, <2>1 DEF ExportInv, Accompanied, Present, Known, Chunk
    <3>3. \A e \in Exporters : Escorted(e)'
      BY <2>1 DEF ExportInv, Accompanied, Escorted, Living, Chunk
    <3>4. JobsMatch'
      BY <1>4, <2>1 DEF ExportInv, JobsMatch, JobOK, Done, Numbered
    <3> QED BY <3>1, <3>2, <3>3, <3>4 DEF Accompanied
  <2>4. Pending'
    BY <2>1 DEF ExportInv, Pending, Covered, Done, Unlisted, IsListed, Chunk, files
  <2>5. Safe'
    BY SafeFrame DEF ExportInv, files
  <2> QED BY <2>2, <2>3, <2>4, <2>5 DEF ExportInv
<1> QED BY <1>7, <1>8

LEMMA RecordChunkStep ==
    ASSUME ExportInv, NEW p \in Projects, RecordChunk(p) PROVE ExportInv'
<1>1. /\ jobs[p] # <<>> /\ Head(jobs[p]).at = "record" /\ Reply(p)
      /\ imported' = [imported EXCEPT ![p] = imported[p] \cup {Head(jobs[p]).chunk}]
      /\ UNCHANGED <<rev, there, deleted, exported, files, counts>>
  BY DEF RecordChunk
<1>2. RowsOK'
  <2>1. Head(jobs[p]) \in Job
    BY <1>1, HeadTailElements DEF ExportInv, TypeOK
  <2>2. imported[p] \cup {Head(jobs[p]).chunk} \in Manifest
    BY <2>1 DEF ExportInv, TypeOK, RowsOK, Job, Manifest
  <2> QED BY <1>1, <2>2 DEF ExportInv, TypeOK, RowsOK
<1>3. CountsOK' /\ Orphanless' /\ Undisturbed' = Undisturbed
  BY <1>1 DEF ExportInv, TypeOK, CountsOK, Orphanless, Undisturbed, files, counts
<1> QED BY <1>1, <1>2, <1>3, ReplyStep DEF counts

LEMMA MarkFailsStep ==
    ASSUME ExportInv, NEW p \in Projects, MarkFails(p) PROVE ExportInv'
<1>1. /\ jobs[p] # <<>> /\ Reply(p) /\ faults' = faults + 1 /\ unmarked' = TRUE
      /\ UNCHANGED <<db, files, crashes, cancels, exports, orphaned>>
  BY DEF MarkFails
<1>2. RowsOK' /\ CountsOK' /\ Orphanless'
  BY <1>1 DEF ExportInv, TypeOK, RowsOK, CountsOK, Orphanless, db, files
<1> QED BY <1>1, <1>2, ReplyStep DEF Undisturbed, db

------------------------------------------------------------------------------
(* The theorems. *)

LEMMA InitExportInv == Init => ExportInv
<1> SUFFICES ASSUME Init PROVE ExportInv
  OBVIOUS
<1>1. TypeOK /\ IdleIsEmpty
  BY InitTypeOK DEF Init, IdleIsEmpty
<1>2. \A e \in Exporters : export[e] = NoExport
  BY DEF Init
<1>3. \A p \in Projects : Queued(p) = {} /\ exported[p] = {} /\ manifest[RepoOf[p]] = {}
  BY DEF Init, Queued, Elements, Repos
<1>4. OwnLines /\ Orphanless /\ Fresh /\ Promised /\ JobsMatch
  BY <1>2, <1>3 DEF Init, OwnLines, Orphanless, Fresh, FreshAt, Promised, PromisedBy, JobsMatch,
                    Numbered, NoExport
<1>5. Accompanied
  <2>1. SessionsFirst
    BY DEF Init, SessionsFirst
  <2>2. Present
    BY <1>2, <1>3 DEF Present, NoExport
  <2> QED BY <1>2, <2>1, <2>2 DEF Accompanied, Escorted, Chunk, NoExport
<1>6. Pending
  BY <1>2, <1>3 DEF Pending, Undisturbed, IsListed, Lists, Unlisted, NoExport
<1>7. Safe
  BY <1>3 DEF Safe, MarkedIsListed, ObservationsHaveSessions, NoRowListedTwice, Listed, Lists
<1> QED BY <1>1, <1>4, <1>5, <1>6, <1>7 DEF ExportInv

\* Every step keeps the invariant, and removes nothing from a manifest.
LEMMA NextExportInv ==
    ASSUME ExportInv, OwnRepos, [Next]_vars
    PROVE  ExportInv' /\ (~orphaned' => \A r \in Repos : manifest[r] \subseteq manifest'[r])
<1>1. CASE UNCHANGED vars
  <2>1. TypeOK' /\ IdleIsEmpty' /\ OwnLines' /\ Orphanless' /\ Fresh' /\ Promised'
    BY <1>1 DEF ExportInv, TypeOK, RowsOK, FilesOK, ExportsOK, CountsOK, IdleIsEmpty, OwnLines,
         Orphanless, Fresh, FreshAt, Promised, PromisedBy, Repo, Chunk, Queued, vars
  <2>2. Accompanied' /\ JobsMatch'
    BY <1>1 DEF ExportInv, Accompanied, Present, Known, SessionsFirst, Escorted, Living, JobsMatch, JobOK, Done, Numbered,
         Chunk, Queued, vars
  <2>3. Pending'
    BY <1>1 DEF ExportInv, Pending, Undisturbed, Covered, Done, Unlisted, IsListed, Lists, Chunk, vars
  <2>4. Safe'
    BY <1>1, SafeFrame DEF ExportInv, Undisturbed, vars
  <2> QED BY <1>1, <2>1, <2>2, <2>3, <2>4 DEF ExportInv, vars
<1>2. ASSUME NEW p \in Projects, NEW r \in Rows, Save(p, r)
      PROVE  ExportInv' /\ manifest' = manifest
  BY <1>2, SaveStep DEF Save, files
<1>10. ASSUME NEW p \in Projects, NEW r \in Rows, Delete(p, r)
       PROVE  ExportInv' /\ manifest' = manifest
  BY <1>10, DeleteStep DEF Delete, files
<1>11. ASSUME NEW p \in Projects, MarkFails(p) PROVE ExportInv' /\ manifest' = manifest
  BY <1>11, MarkFailsStep DEF MarkFails, files
<1>3. ASSUME NEW e \in Exporters, NEW p \in Projects, Start(e, p)
      PROVE  ExportInv' /\ manifest' = manifest
  BY <1>3, StartStep DEF Start, files
<1>4. ASSUME NEW e \in Exporters, Fails(e) \/ Cancel(e)
      PROVE  ExportInv' /\ manifest' = manifest
  BY <1>4, FailsStep, CancelStep DEF Fails, Cancel, files
<1>5. ASSUME NEW e \in Exporters, Proceed(e)
      PROVE  ExportInv' /\ (manifest' = manifest \/ RenameManifest(e))
  <2>1. CASE Lock(e)
    BY <2>1, LockStep DEF Lock, files
  <2>2. CASE SelectRows(e)
    <3>1. PICK from, kind, to : <<from, kind, to>> \in Selection /\ Select(e, from, kind, to)
      BY <2>2 DEF SelectRows, Selection
    <3>2. ExportInv'
      BY <3>1, SelectStep
    <3> QED BY <3>1, <3>2 DEF Select, files
  <2>3. CASE NothingToExport(e)
    BY <2>3, NothingToExportStep DEF NothingToExport, files
  <2>4. CASE WriteChunk(e)
    BY <2>4, WriteChunkStep DEF WriteChunk
  <2>5. CASE ReadManifest(e)
    BY <2>5, ReadManifestStep DEF ReadManifest, files
  <2>6. CASE WriteManifest(e)
    BY <2>6, WriteManifestStep DEF WriteManifest
  <2>7. CASE RenameManifest(e)
    BY <2>7, RenameStep
  <2>8. CASE SendMark(e)
    BY <2>8, SendMarkStep DEF SendMark, files
  <2> QED BY <1>5, <2>1, <2>2, <2>3, <2>4, <2>5, <2>6, <2>7, <2>8 DEF Proceed
<1>6. ASSUME NEW o \in orphans, Orphan(o) PROVE ExportInv' /\ orphaned'
  BY <1>6, OrphanStep
<1>7. ASSUME NEW p \in Projects, WriteThread(p) PROVE ExportInv' /\ manifest' = manifest
  <2>1. CASE MarkExported(p)
    <3>1. PICK from, kind, to : <<from, kind, to>> \in Marking /\ Mark(p, from, kind, to)
      BY <2>1 DEF MarkExported, Marking
    <3>2. ExportInv'
      BY <3>1, MarkStep
    <3> QED BY <3>1, <3>2 DEF Mark, files
  <2>2. CASE RecordChunk(p)
    BY <2>2, RecordChunkStep DEF RecordChunk, files
  <2> QED BY <1>7, <2>1, <2>2 DEF WriteThread
<1>8. ASSUME Crash PROVE ExportInv' /\ manifest' = manifest
  BY <1>8, CrashStep DEF Crash
<1>9. ASSUME NEW e \in Exporters, RenameManifest(e)
      PROVE  ~orphaned' => \A r \in Repos : manifest[r] \subseteq manifest'[r]
  BY <1>9, RenameStep
<1> QED BY <1>1, <1>2, <1>3, <1>4, <1>5, <1>6, <1>7, <1>8, <1>9, <1>10, <1>11 DEF Next

\* Types, and the invariant with what it promises, under every interleaving of requests,
\* saves, failures, cancellations and crashes, if no two projects share a repository.
THEOREM ExportInvariant == ASSUME OwnRepos PROVE Spec => []ExportInv
<1>1. Init => ExportInv
  BY InitExportInv
<1>2. ExportInv /\ [Next]_vars => ExportInv'
  BY NextExportInv
<1> QED BY <1>1, <1>2, PTL DEF Spec

\* mark_exported never runs ahead of the manifest: a row that no later export will select
\* is in a chunk the manifest lists.
THEOREM MarkedRowsAreListed == ASSUME OwnRepos PROVE Spec => []MarkedIsListed
<1>1. ExportInv => MarkedIsListed
  BY DEF ExportInv, Safe
<1> QED BY <1>1, ExportInvariant, PTL

\* The order of the three SELECTs makes every listed observation, unless it has been
\* deleted for good, come with its session.
THEOREM ListedObservationsHaveSessions ==
    ASSUME OwnRepos PROVE Spec => []ObservationsHaveSessions
<1>1. ExportInv => ObservationsHaveSessions
  BY DEF ExportInv, Safe
<1> QED BY <1>1, ExportInvariant, PTL

\* The export mutex of the project keeps a row from being listed by two exports, as long
\* as none is cut short between its rename of the manifest and the last of its marks.
THEOREM ExportsListOnce == ASSUME OwnRepos PROVE Spec => []NoRowListedTwice
<1>1. ExportInv => NoRowListedTwice
  BY DEF ExportInv, Safe
<1> QED BY <1>1, ExportInvariant, PTL

\* append_atomic replaces the whole file and still loses no chunk.
THEOREM ManifestOnlyGrows == ASSUME OwnRepos PROVE Spec => ManifestAppendOnly
<1>1. ExportInv /\ [Next]_vars =>
        [~orphaned' => \A r \in Repos : manifest[r] \subseteq manifest'[r]]_vars
  BY NextExportInv
<1> QED BY <1>1, ExportInvariant, PTL DEF Spec, ManifestAppendOnly

=============================================================================
