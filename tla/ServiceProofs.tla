----------------------------- MODULE ServiceProofs -----------------------------
(***************************************************************************)
(* What the service does with the rows of any number of projects, whatever *)
(* is saved, deleted, merged or verified between two steps of a request.   *)
(*                                                                         *)
(* Workspace: the references of the schema, what becomes of a saved        *)
(* observation in any series of saves, deletes, merges and crashes, and    *)
(* what a client sees who lists a project page by page meanwhile.          *)
(*                                                                         *)
(* AllReads: what searches, briefings and timelines show, whatever the     *)
(* indexes answer.  Every row in hand was live, and was not withdrawn, at  *)
(* some moment of the request.                                             *)
(***************************************************************************)
EXTENDS Workspace, AllReads, ListsProofs, SequenceTheorems

-----------------------------------------------------------------------------
(* Types. *)

\* The sessions of one project.
Notes == UNION {[D -> Sessions] : D \in SUBSET SessionIds}

Prompts == [sync : PromptIds, session : SessionIds]

Pages ==
  [project : Projects, cursor : {None} \cup (Nat \X Nat), seen : Seq(Nat),
   steady : SUBSET Nat, done : BOOLEAN]

Tables ==
  /\ sessions \in [Projects -> Notes]
  /\ obs \in [Projects -> Seq(Observations)]
  /\ prompts \in [Projects -> SUBSET Prompts]

Rest ==
  /\ clock \in 0..MaxTime /\ calls \in 0..MaxCalls
  /\ deleting \in {None} \cup (Projects \X SessionIds)
  /\ merging \subseteq Merges
  /\ pruning \subseteq Projects /\ unlinked \subseteq Projects
  /\ saved \subseteq SyncIds
  /\ page \in {None} \cup Pages

Types == Tables /\ Rest

\* The functions that are the sessions of a project.
LEMMA NotesAre ==
    ASSUME NEW f
    PROVE  f \in Notes <=> \E D \in SUBSET SessionIds : f \in [D -> Sessions]
BY DEF Notes

LEMMA AddedNotes ==
    ASSUME NEW f \in Notes, NEW g \in Notes
    PROVE  Added(f, g) \in Notes /\ DOMAIN Added(f, g) = DOMAIN f \cup DOMAIN g
<1>1. PICK D \in SUBSET SessionIds : f \in [D -> Sessions]
  BY NotesAre
<1>2. PICK F \in SUBSET SessionIds : g \in [F -> Sessions]
  BY NotesAre
<1>3. Added(f, g) \in [D \cup F -> Sessions] /\ D \cup F \in SUBSET SessionIds
  BY <1>1, <1>2 DEF Added
<1>4. DOMAIN Added(f, g) = DOMAIN f \cup DOMAIN g
  BY DEF Added
<1> QED BY <1>3, <1>4, NotesAre

LEMMA WithoutNotes ==
    ASSUME NEW f \in Notes, NEW s
    PROVE  Without(f, s) \in Notes /\ DOMAIN Without(f, s) = DOMAIN f \ {s}
<1>1. PICK D \in SUBSET SessionIds : f \in [D -> Sessions]
  BY NotesAre
<1>2. Without(f, s) \in [D \ {s} -> Sessions] /\ D \ {s} \in SUBSET SessionIds
  BY <1>1 DEF Without
<1>3. DOMAIN Without(f, s) = DOMAIN f \ {s}
  BY DEF Without
<1> QED BY <1>2, <1>3, NotesAre

\* No session, and a new one.
LEMMA NoNotes == <<>> \in Notes /\ DOMAIN <<>> = {}
<1>1. <<>> \in [{} -> Sessions]
  OBVIOUS
<1> QED BY <1>1, NotesAre

LEMMA NewNotes ==
    ASSUME NEW s \in SessionIds
    PROVE  /\ [x \in {s} |-> [ended |-> FALSE, summary |-> None]] \in Notes
           /\ DOMAIN [x \in {s} |-> [ended |-> FALSE, summary |-> None]] = {s}
<1>1. [x \in {s} |-> [ended |-> FALSE, summary |-> None]] \in [{s} -> Sessions]
  BY DEF Sessions
<1> QED BY <1>1, NotesAre

\* A session is written to.
LEMMA ChangedNotes ==
    ASSUME NEW f \in Notes, NEW s \in DOMAIN f, NEW x \in Sessions
    PROVE  [f EXCEPT ![s] = x] \in Notes /\ DOMAIN [f EXCEPT ![s] = x] = DOMAIN f
<1>1. PICK D \in SUBSET SessionIds : f \in [D -> Sessions]
  BY NotesAre
<1>2. [f EXCEPT ![s] = x] \in [D -> Sessions]
  BY <1>1
<1> QED BY <1>1, <1>2, NotesAre

-----------------------------------------------------------------------------
(* The rows of a project, as the writes leave them. *)

\* A row of a project.
LEMMA RowTypes ==
    ASSUME obs \in [Projects -> Seq(Observations)], NEW p \in Projects
    PROVE  /\ Len(obs[p]) \in Nat /\ DOMAIN obs[p] = 1..Len(obs[p])
           /\ Live(p) \in SUBSET Stored(p) /\ Stored(p) \in SUBSET DOMAIN obs[p]
           /\ Stored(p) \in SUBSET Nat /\ IsFiniteSet(Stored(p)) /\ IsFiniteSet(Live(p))
           /\ \A i \in DOMAIN obs[p] :
                /\ obs[p][i] \in Observations
                /\ obs[p][i].sync \in SyncIds /\ obs[p][i].session \in SessionIds
                /\ obs[p][i].at \in Nat
                /\ obs[p][i].status \in {"live", "deleted", "gone"}
<1>1. obs[p] \in Seq(Observations)
  OBVIOUS
<1>2. PICK r \in Seq(Observations) : r = obs[p]
  BY <1>1
<1>3. Len(r) \in Nat /\ DOMAIN r = 1..Len(r) /\ \A i \in DOMAIN r : r[i] \in Observations
  BY <1>2
<1>4. \A o \in Observations :
        /\ o.sync \in SyncIds /\ o.session \in SessionIds
        /\ o.at \in Nat /\ o.status \in {"live", "deleted", "gone"}
  BY WorkspaceAssumption DEF Observations
<1>5. Live(p) \in SUBSET Stored(p) /\ Stored(p) \in SUBSET DOMAIN obs[p]
  BY DEF Live, Stored
<1>6. IsFiniteSet(DOMAIN obs[p]) /\ DOMAIN obs[p] \subseteq Nat
  <2>1. Len(r) \in Int /\ 1 \in Int
    BY <1>3
  <2>2. IsFiniteSet(1..Len(r))
    BY <2>1, FS_Interval
  <2> QED BY <1>2, <1>3, <2>2
<1>7. IsFiniteSet(Stored(p)) /\ IsFiniteSet(Live(p))
  <2>1. IsFiniteSet(Stored(p))
    BY <1>5, <1>6, FS_Subset
  <2> QED BY <1>5, <2>1, FS_Subset
<1> QED BY <1>2, <1>3, <1>4, <1>5, <1>6, <1>7

\* What stands in a row and never changes.
SameRow(o, r) == o.sync = r.sync /\ o.session = r.session /\ o.at = r.at

\* The rows of p under ids change their status.
LEMMA Marks ==
    ASSUME obs \in [Projects -> Seq(Observations)], NEW p \in Projects,
           NEW ids \in SUBSET DOMAIN obs[p], NEW status \in {"deleted", "gone"},
           Mark(p, ids, status), status = "gone" \/ ids \subseteq Live(p)
    PROVE  /\ obs' \in [Projects -> Seq(Observations)]
           /\ \A q \in Projects : q # p => obs'[q] = obs[q]
           /\ DOMAIN obs'[p] = DOMAIN obs[p]
           /\ \A i \in DOMAIN obs[p] : SameRow(obs'[p][i], obs[p][i])
           /\ Live(p)' = Live(p) \ ids
           /\ Stored(p)' = IF status = "gone" THEN Stored(p) \ ids ELSE Stored(p)
<1> DEFINE new == [i \in DOMAIN obs[p] |->
                     IF i \in ids THEN [obs[p][i] EXCEPT !.status = status] ELSE obs[p][i]]
<1>1. obs' = [obs EXCEPT ![p] = new]
  BY DEF Mark
<1>2. /\ Len(obs[p]) \in Nat /\ DOMAIN obs[p] = 1..Len(obs[p])
      /\ \A i \in DOMAIN obs[p] : obs[p][i] \in Observations
  BY RowTypes
<1>3. \A i \in DOMAIN obs[p] :
        /\ new[i] \in Observations /\ SameRow(new[i], obs[p][i])
        /\ new[i].status = IF i \in ids THEN status ELSE obs[p][i].status
  BY <1>2 DEF Observations, SameRow
<1>4. DOMAIN new = DOMAIN obs[p]
  OBVIOUS
<1>4a. new = [i \in 1..Len(obs[p]) |-> new[i]]
  BY <1>2
<1> HIDE DEF new
<1>5. new \in Seq(Observations)
  BY <1>2, <1>3, <1>4a
<1>6. /\ obs' \in [Projects -> Seq(Observations)] /\ obs'[p] = new
      /\ \A q \in Projects : q # p => obs'[q] = obs[q]
  BY <1>1, <1>5
<1>7. \A i \in DOMAIN obs[p] :
        /\ SameRow(obs'[p][i], obs[p][i])
        /\ obs'[p][i].status = IF i \in ids THEN status ELSE obs[p][i].status
  BY <1>3, <1>6
<1>8. Live(p)' = Live(p) \ ids
  BY <1>4, <1>6, <1>7 DEF Live
<1>9. Stored(p)' = IF status = "gone" THEN Stored(p) \ ids ELSE Stored(p)
  BY <1>4, <1>6, <1>7 DEF Live, Stored
<1> QED BY <1>4, <1>6, <1>7, <1>8, <1>9

\* Rows are appended to those of p.
LEMMA Appends ==
    ASSUME obs \in [Projects -> Seq(Observations)], NEW p \in Projects,
           NEW new \in Seq(Observations), obs' = [obs EXCEPT ![p] = obs[p] \o new]
    PROVE  /\ obs' \in [Projects -> Seq(Observations)]
           /\ \A q \in Projects : q # p => obs'[q] = obs[q]
           /\ \A i \in DOMAIN obs[p] : i \in DOMAIN obs'[p] /\ obs'[p][i] = obs[p][i]
           /\ \A i \in DOMAIN obs'[p] :
                i \in DOMAIN obs[p] \/ (i - Len(obs[p]) \in 1..Len(new) /\ obs'[p][i] = new[i - Len(obs[p])])
           /\ \A k \in 1..Len(new) :
                Len(obs[p]) + k \in DOMAIN obs'[p] /\ obs'[p][Len(obs[p]) + k] = new[k]
<1>a. obs[p] \in Seq(Observations)
  OBVIOUS
<1>b. PICK r : r = obs[p]
  BY ONLY TRUE
<1>1. r \in Seq(Observations) /\ r = obs[p]
  BY ONLY <1>a, <1>b
<1>c. r \o new \in Seq(Observations)
  BY ONLY <1>1, new \in Seq(Observations)
<1>d. PICK t : t = r \o new
  BY ONLY TRUE
<1>2. t \in Seq(Observations) /\ t = r \o new
  BY ONLY <1>c, <1>d
<1>3. /\ Len(r) \in Nat /\ Len(new) \in Nat /\ DOMAIN r = 1..Len(r)
      /\ DOMAIN t = 1..(Len(r) + Len(new))
      /\ \A i \in 1..Len(r) : t[i] = r[i]
      /\ \A i \in 1..(Len(r) + Len(new)) : i > Len(r) => t[i] = new[i - Len(r)]
  BY <1>1, <1>2
<1>4. obs' \in [Projects -> Seq(Observations)] /\ obs'[p] = t
      /\ \A q \in Projects : q # p => obs'[q] = obs[q]
  BY <1>1, <1>2
<1>5. \A i \in DOMAIN t : i \in DOMAIN r \/ (i - Len(r) \in 1..Len(new) /\ t[i] = new[i - Len(r)])
  BY <1>3
<1>6. \A k \in 1..Len(new) : Len(r) + k \in DOMAIN t /\ t[Len(r) + k] = new[k]
  <2> TAKE k \in 1..Len(new)
  <2>1. Len(r) + k \in 1..(Len(r) + Len(new)) /\ Len(r) + k > Len(r) /\ (Len(r) + k) - Len(r) = k
    BY <1>3
  <2>2. t[Len(r) + k] = new[(Len(r) + k) - Len(r)]
    BY <1>3, <2>1
  <2> QED BY <1>3, <2>1, <2>2
<1>7. \A i \in DOMAIN r : i \in DOMAIN t /\ t[i] = r[i]
  BY <1>3
<1> QED BY <1>1, <1>4, <1>5, <1>6, <1>7

\* The list kept holds, at k, the row of the source at at[k].
CopiedFrom(from, to, kept, at) ==
  /\ at \in [1..Len(kept) -> Stored(from)]
  /\ \A k, l \in 1..Len(kept) : at[k] = at[l] => k = l
  /\ \A k \in 1..Len(kept) :
       kept[k] = obs[from][at[k]] /\ obs[from][at[k]].sync \notin SyncsOf(to, Stored(to))
  /\ \A i \in Stored(from) :
       obs[from][i].sync \notin SyncsOf(to, Stored(to)) => \E k \in 1..Len(kept) : at[k] = i

\* What a merge copies: rows of the source whose sync_id the target does not know,
\* each once, and every one that is stored.
LEMMA CopiedRows ==
    ASSUME obs \in [Projects -> Seq(Observations)], NEW from \in Projects, NEW to \in Projects
    PROVE  /\ Copied(from, to) \in Seq(Observations)
           /\ \E at : CopiedFrom(from, to, Copied(from, to), at)
<1>1. PICK known : known = SyncsOf(to, Stored(to))
  OBVIOUS
<1> DEFINE T == {o \in Observations : o.status # "gone" /\ o.sync \notin known}
<1>2. Copied(from, to) = Sift(obs[from], T)
  BY <1>1 DEF Copied
<1>3. \A o \in Observations : o \in T <=> o.status # "gone" /\ o.sync \notin known
  OBVIOUS
<1> HIDE DEF T
<1>4. obs[from] \in Seq(Observations)
  OBVIOUS
<1>5. PICK kept : kept = Copied(from, to)
  OBVIOUS
<1>6. kept \in Seq(Observations) /\ \E at : SiftedFrom(obs[from], T, kept, at)
  BY <1>2, <1>4, <1>5, SiftProperties
<1>7. PICK at : SiftedFrom(obs[from], T, kept, at)
  BY <1>6
<1>8. /\ at \in [1..Len(kept) -> {i \in DOMAIN obs[from] : obs[from][i] \in T}]
      /\ \A k, l \in 1..Len(kept) : at[k] = at[l] => k = l
      /\ \A i \in DOMAIN obs[from] : obs[from][i] \in T => \E k \in 1..Len(kept) : at[k] = i
      /\ \A k \in 1..Len(kept) : kept[k] = obs[from][at[k]]
  BY <1>7 DEF SiftedFrom
<1>9. \A i \in DOMAIN obs[from] : obs[from][i] \in Observations
  BY RowTypes
<1>10. \A i : i \in DOMAIN obs[from] /\ obs[from][i] \in T <=>
               i \in Stored(from) /\ obs[from][i].sync \notin known
  BY <1>3, <1>9 DEF Stored
<1>11. at \in [1..Len(kept) -> Stored(from)]
  BY <1>8, <1>10
<1>12. \A k \in 1..Len(kept) : obs[from][at[k]].sync \notin known
  BY <1>8, <1>10
<1>13. \A i \in Stored(from) : obs[from][i].sync \notin known => \E k \in 1..Len(kept) : at[k] = i
  BY <1>8, <1>10
<1>14. CopiedFrom(from, to, kept, at)
  BY <1>1, <1>8, <1>11, <1>12, <1>13 DEF CopiedFrom
<1> QED BY <1>5, <1>6, <1>14

-----------------------------------------------------------------------------
(* What a page fetches. *)

\* Newest first, ties by id, is an order of the live rows.
LEMMA BeforeIsOrder ==
    ASSUME obs \in [Projects -> Seq(Observations)], NEW p \in Projects,
           NEW S \in SUBSET Live(p)
    PROVE  StrictOrder(S, {e \in Live(p) \X Live(p) : Before(p, e[1], e[2])})
<1> DEFINE R == {e \in Live(p) \X Live(p) : Before(p, e[1], e[2])}
<1>1. \A i, j \in Live(p) : <<i, j>> \in R <=> Before(p, i, j)
  OBVIOUS
<1> HIDE DEF R
<1>2. \A i \in Live(p) : i \in Nat /\ obs[p][i].at \in Nat
  BY RowTypes
<1>3. \A i \in Live(p) : ~Before(p, i, i)
  BY <1>2 DEF Before
<1>4. \A i, j \in Live(p) : i = j \/ Before(p, i, j) \/ Before(p, j, i)
  BY <1>2 DEF Before
<1>5. \A i, j, k \in Live(p) : Before(p, i, j) /\ Before(p, j, k) => Before(p, i, k)
  BY <1>2 DEF Before
<1>6. StrictOrder(S, R)
  BY <1>1, <1>3, <1>4, <1>5 DEF StrictOrder
<1> QED BY <1>6 DEF R

\* The rows that are fetched: live, after the cursor, each once, in their order, and all
\* of them unless one more than a page holds was found.
FetchedIs(p, c, f) ==
  /\ f \in Seq(Nat) /\ Len(f) <= Limit + 1
  /\ \A k \in 1..Len(f) : f[k] \in Live(p) /\ After(p, c, f[k])
  /\ \A k, l \in 1..Len(f) : f[k] = f[l] => k = l
  /\ \A k, l \in 1..Len(f) : k < l => Before(p, f[k], f[l])
  /\ \A i \in Live(p) : After(p, c, i) =>
       (\E k \in 1..Len(f) : f[k] = i) \/ (Len(f) = Limit + 1 /\ Before(p, f[Limit + 1], i))

LEMMA Fetches ==
    ASSUME obs \in [Projects -> Seq(Observations)], page.project \in Projects
    PROVE  FetchedIs(page.project, page.cursor, Fetched)
<1>1. PICK p \in Projects : p = page.project
  OBVIOUS
<1>2. PICK c : c = page.cursor
  OBVIOUS
<1> DEFINE S == {i \in Live(p) : After(p, c, i)}
           R == {e \in Live(p) \X Live(p) : Before(p, e[1], e[2])}
           n == Cardinality(S)
<1>3. PICK rows : rows = Listed(S, R)
  OBVIOUS
<1>4. S \in SUBSET Live(p) /\ IsFiniteSet(S) /\ \A i \in S : After(p, c, i)
  <2>1. IsFiniteSet(Live(p))
    BY RowTypes
  <2>2. S \in SUBSET Live(p) /\ \A i \in S : After(p, c, i)
    OBVIOUS
  <2> QED BY <2>1, <2>2, FS_Subset
<1>4a. \A i \in Live(p) : After(p, c, i) => i \in S
  OBVIOUS
<1>5. StrictOrder(S, R)
  BY <1>4, BeforeIsOrder
<1>6. \A i, j \in Live(p) : <<i, j>> \in R <=> Before(p, i, j)
  OBVIOUS
<1>7. rows = Ahead(p, c)
  BY <1>3 DEF Ahead
<1> HIDE DEF S, R
<1>8. /\ n \in Nat /\ rows \in [1..n -> S]
      /\ \A k, l \in 1..n : rows[k] = rows[l] => k = l
      /\ \A i \in S : \E k \in 1..n : rows[k] = i
      /\ \A k, l \in 1..n : k < l <=> <<rows[k], rows[l]>> \in R
  BY <1>3, <1>4, <1>5, ListedProperties
<1>9. \A k \in 1..n : rows[k] \in Live(p) /\ rows[k] \in S /\ rows[k] \in Nat
  <2>1. Live(p) \in SUBSET Nat
    BY RowTypes
  <2> QED BY <1>4, <1>8, <2>1
<1> HIDE DEF n
<1>10. rows \in Seq(Nat) /\ Len(rows) = n
  BY <1>8, <1>9
<1>11. PICK m \in Nat : m = IF n > Limit THEN Limit + 1 ELSE n
  BY <1>8, WorkspaceAssumption
<1>11a. m <= n /\ m <= Limit + 1 /\ (m < n => m = Limit + 1)
  BY <1>8, <1>11, WorkspaceAssumption
<1>12. PICK f : f = SubSeq(rows, 1, m)
  OBVIOUS
<1>13. f = Fetched
  BY <1>1, <1>2, <1>7, <1>10, <1>11, <1>12 DEF Fetched
<1>14. f \in Seq(Nat) /\ Len(f) = m /\ \A k \in 1..m : f[k] = rows[k]
  BY <1>10, <1>11, <1>11a, <1>12
<1>14a. \A k \in 1..m : k \in 1..n
  BY <1>8, <1>11, <1>11a
<1>15. \A k \in 1..m : f[k] \in Live(p) /\ After(p, c, f[k])
  BY <1>4, <1>9, <1>14, <1>14a
<1>16. \A k, l \in 1..m : f[k] = f[l] => k = l
  BY <1>8, <1>14, <1>14a
<1>17. \A k, l \in 1..m : k < l => Before(p, f[k], f[l])
  BY <1>6, <1>8, <1>9, <1>14, <1>14a
<1>18. ASSUME NEW i \in Live(p), After(p, c, i)
       PROVE  (\E k \in 1..m : f[k] = i) \/ (m = Limit + 1 /\ Before(p, f[Limit + 1], i))
  <2>1. PICK l \in 1..n : rows[l] = i
    BY <1>4a, <1>8, <1>18
  <2>2. CASE l <= m
    <3>1. l \in 1..m
      BY <1>8, <1>11, <2>1, <2>2
    <3> QED BY <1>14, <2>1, <3>1
  <2>3. CASE l > m
    <3>1. m = Limit + 1 /\ m \in 1..m /\ m \in 1..n /\ m < l
      BY <1>8, <1>11, <1>11a, <2>1, <2>3, WorkspaceAssumption
    <3>2. Before(p, rows[m], rows[l])
      BY <1>6, <1>8, <1>9, <2>1, <3>1
    <3> QED BY <1>14, <2>1, <3>1, <3>2
  <2> QED BY <1>8, <1>11, <2>1, <2>2, <2>3
<1>19. FetchedIs(p, c, f)
  BY <1>11a, <1>14, <1>15, <1>16, <1>17, <1>18 DEF FetchedIs
<1> QED BY <1>1, <1>2, <1>13, <1>19

\* What a page returns of them: as many as it holds.
Returned == IF Len(Fetched) > Limit THEN Front(Fetched) ELSE Fetched

LEMMA Returns ==
    ASSUME NEW p, NEW c, FetchedIs(p, c, Fetched), obs \in [Projects -> Seq(Observations)]
    PROVE  /\ Returned \in Seq(Nat)
           /\ Len(Returned) = IF Len(Fetched) > Limit THEN Limit ELSE Len(Fetched)
           /\ \A k \in 1..Len(Returned) : k \in 1..Len(Fetched) /\ Returned[k] = Fetched[k]
           /\ Len(Fetched) > Limit =>
                /\ Len(Fetched) = Limit + 1 /\ Limit \in 1..Len(Returned)
                /\ Last(Returned) = Fetched[Limit]
<1>1. PICK f : f = Fetched
  OBVIOUS
<1>2. f \in Seq(Nat) /\ Len(f) <= Limit + 1 /\ Limit \in Nat /\ Limit >= 1 /\ Len(f) \in Nat
  BY <1>1, WorkspaceAssumption DEF FetchedIs
<1>3. CASE Len(f) > Limit
  <2>1. Len(f) = Limit + 1
    BY <1>2, <1>3
  <2>2. PICK k : k = SubSeq(f, 1, Limit)
    OBVIOUS
  <2>3. k = Front(f)
    BY <1>2, <2>1, <2>2 DEF Front
  <2>4. k \in Seq(Nat) /\ Len(k) = Limit /\ \A j \in 1..Limit : k[j] = f[j]
    BY <1>2, <2>1, <2>2
  <2>5. Last(k) = f[Limit]
    BY <1>2, <2>4 DEF Last
  <2>6. \A j \in 1..Limit : j \in 1..Len(f)
    BY <1>2, <2>1
  <2>7. Returned = k
    BY <1>1, <1>3, <2>3 DEF Returned
  <2>8. Limit \in 1..Limit
    BY <1>2
  <2> QED BY <1>1, <1>3, <2>1, <2>4, <2>5, <2>6, <2>7, <2>8
<1>4. CASE ~(Len(f) > Limit)
  <2>1. Returned = f
    BY <1>1, <1>4 DEF Returned
  <2> QED BY <1>1, <1>2, <1>4, <2>1
<1> QED BY <1>3, <1>4

-----------------------------------------------------------------------------
(* Types are kept. *)

\* Rows leave a listing.
LEMMA LeaveTypes ==
    ASSUME page \in {None} \cup Pages, NEW p, NEW ids, Leave(p, ids)
    PROVE  /\ page' \in {None} \cup Pages
           /\ page # None /\ page.project = p =>
                /\ page'.project = page.project /\ page'.cursor = page.cursor
                /\ page'.seen = page.seen /\ page'.done = page.done
                /\ page'.steady = page.steady \ ids
           /\ ~(page # None /\ page.project = p) => page' = page
<1>1. CASE page # None /\ page.project = p
  <2>1. page \in Pages /\ page' = [page EXCEPT !.steady = page.steady \ ids]
    BY <1>1 DEF Leave
  <2>2. page.steady \ ids \in SUBSET Nat
    BY <2>1 DEF Pages
  <2> QED BY <1>1, <2>1, <2>2 DEF Pages
<1>2. CASE ~(page # None /\ page.project = p)
  BY <1>2 DEF Leave
<1> QED BY <1>1, <1>2

\* A page is returned.
LEMMA ListPageTypes ==
    ASSUME obs \in [Projects -> Seq(Observations)], page \in {None} \cup Pages, ListPage
    PROVE  /\ page \in Pages /\ ~page.done /\ page' \in Pages
           /\ page'.project = page.project /\ page'.steady = page.steady
           /\ page'.seen = page.seen \o Returned
           /\ page'.done = ~(Len(Fetched) > Limit)
           /\ page'.cursor = IF Len(Fetched) > Limit
                             THEN <<obs[page.project][Last(Returned)].at, Last(Returned)>>
                             ELSE page.cursor
<1>1. page \in Pages /\ ~page.done
  BY DEF ListPage
<1>2. page.project \in Projects /\ page.seen \in Seq(Nat) /\ page.cursor \in {None} \cup (Nat \X Nat)
  BY <1>1 DEF Pages
<1>3. FetchedIs(page.project, page.cursor, Fetched)
  BY <1>2, Fetches
<1>4. PICK next : next = IF Len(Fetched) > Limit
                         THEN <<obs[page.project][Last(Returned)].at, Last(Returned)>>
                         ELSE page.cursor
  OBVIOUS
<1>5. PICK seen : seen = page.seen \o Returned
  OBVIOUS
<1>6. PICK done : done = ~(Len(Fetched) > Limit)
  OBVIOUS
<1>7. page' = [page EXCEPT !.seen = seen, !.done = done, !.cursor = next]
  BY <1>4, <1>5, <1>6 DEF ListPage, Returned
<1>8. seen \in Seq(Nat)
  <2>1. Returned \in Seq(Nat)
    BY <1>3, Returns
  <2> QED BY <1>2, <1>5, <2>1
<1>9. next \in {None} \cup (Nat \X Nat)
  <2>1. CASE Len(Fetched) > Limit
    <3>1. Limit \in 1..Len(Fetched) /\ Last(Returned) = Fetched[Limit]
      BY <1>3, <2>1, Returns, WorkspaceAssumption
    <3>2. Last(Returned) \in Live(page.project)
      BY <1>3, <3>1 DEF FetchedIs
    <3>3. Last(Returned) \in Nat /\ obs[page.project][Last(Returned)].at \in Nat
      BY <1>2, <3>2, RowTypes
    <3> QED BY <1>4, <2>1, <3>3
  <2>2. CASE ~(Len(Fetched) > Limit)
    BY <1>2, <1>4, <2>2
  <2> QED BY <2>1, <2>2
<1>10. done \in BOOLEAN
  BY <1>6
<1>11. /\ page' \in Pages
       /\ page'.project = page.project /\ page'.steady = page.steady
       /\ page'.seen = seen /\ page'.done = done /\ page'.cursor = next
  BY <1>1, <1>7, <1>8, <1>9, <1>10 DEF Pages
<1> QED BY <1>1, <1>4, <1>5, <1>6, <1>11

\* The contents of projects go.
LEMMA VanishTables ==
    ASSUME Tables, NEW ps, Vanish(ps)
    PROVE  Tables'
<1>1. <<>> \in Notes /\ <<>> \in Seq(Observations)
  BY NoNotes
<1> QED BY <1>1 DEF Vanish, Tables

\* The tables.
LEMMA TablesStep ==
    ASSUME Types, [Next]_vars
    PROVE  Tables'
<1> USE DEF Types, Tables, Rest
<1>1. CASE Tick
  BY <1>1 DEF Tick
<1>2. ASSUME NEW p \in Projects, NEW s \in SessionIds, StartSession(p, s)
      PROVE  Tables'
  <2>1. PICK new : new = [x \in {s} |-> [ended |-> FALSE, summary |-> None]]
    OBVIOUS
  <2>2. sessions[p] \in Notes /\ new \in Notes
    BY <2>1, NewNotes
  <2>3. Added(sessions[p], new) \in Notes
    BY <2>2, AddedNotes
  <2>4. sessions' = [sessions EXCEPT ![p] = Added(sessions[p], new)]
    BY <1>2, <2>1 DEF StartSession, UpsertSession
  <2> QED BY <1>2, <2>3, <2>4 DEF StartSession
<1>3. ASSUME NEW p \in Projects, NEW s \in SessionIds, NEW summary \in {None, "text"},
             EndSession(p, s, summary)
      PROVE  Tables'
  <2>1. sessions[p] \in Notes /\ s \in DOMAIN sessions[p] /\ sessions[p][s] \in Sessions
    BY <1>3, NotesAre DEF EndSession
  <2>2. PICK x \in Sessions : x = [ended |-> TRUE, summary |-> IF summary = None THEN sessions[p][s].summary ELSE summary]
    BY <2>1 DEF Sessions
  <2>3. [sessions[p] EXCEPT ![s] = x] \in Notes
    BY <2>1, ChangedNotes
  <2>4. sessions' = [sessions EXCEPT ![p] = [sessions[p] EXCEPT ![s] = x]]
    BY <1>3, <2>1, <2>2 DEF EndSession, SetEnded, Sessions
  <2> QED BY <1>3, <2>3, <2>4 DEF EndSession
<1>4. ASSUME NEW p \in Projects, NEW s \in SessionIds, SaveSessionSummary(p, s)
      PROVE  Tables'
  <2>1. sessions[p] \in Notes /\ s \in DOMAIN sessions[p] /\ sessions[p][s] \in Sessions
    BY <1>4, NotesAre DEF SaveSessionSummary
  <2>2. PICK x \in Sessions : x = [sessions[p][s] EXCEPT !.summary = "text"]
    BY <2>1 DEF Sessions
  <2>3. [sessions[p] EXCEPT ![s] = x] \in Notes
    BY <2>1, ChangedNotes
  <2>4. sessions' = [sessions EXCEPT ![p] = [sessions[p] EXCEPT ![s] = x]]
    BY <1>4, <2>1, <2>2 DEF SaveSessionSummary, SetSummary
  <2> QED BY <1>4, <2>3, <2>4 DEF SaveSessionSummary
<1>5. ASSUME NEW p \in Projects, NEW s \in SessionIds, CheckSession(p, s)
      PROVE  Tables'
  BY <1>5 DEF CheckSession
<1>6. CASE DeleteSession
  <2>1. PICK p \in Projects, s \in SessionIds : p = deleting[1] /\ s = deleting[2]
    BY <1>6 DEF DeleteSession
  <2>2. Without(sessions[p], s) \in Notes
    BY WithoutNotes
  <2>3. sessions' = sessions \/ sessions' = [sessions EXCEPT ![p] = Without(sessions[p], s)]
    BY <1>6, <2>1 DEF DeleteSession
  <2> QED BY <1>6, <2>2, <2>3 DEF DeleteSession
<1>7. ASSUME NEW p \in Projects, NEW s \in SessionIds, NEW o \in SyncIds, SaveObservation(p, o, s)
      PROVE  Tables'
  <2>1. PICK row : row = [sync |-> o, session |-> s, at |-> clock, status |-> "live"]
    OBVIOUS
  <2>2. row \in Observations
    BY <2>1 DEF Observations
  <2>3. <<row>> \in Seq(Observations)
    BY <2>2
  <2>4. obs[p] \in Seq(Observations)
    OBVIOUS
  <2>5. obs' = [obs EXCEPT ![p] = obs[p] \o <<row>>]
    <3>1. obs' = [obs EXCEPT ![p] = Append(obs[p], row)]
      BY <1>7, <2>1 DEF SaveObservation
    <3>2. Append(obs[p], row) = obs[p] \o <<row>>
      BY ONLY <2>2, <2>4
    <3> QED BY <3>1, <3>2
  <2>6. obs' \in [Projects -> Seq(Observations)]
    BY <2>3, <2>5, Appends
  <2> QED BY <1>7, <2>6 DEF SaveObservation
<1>8. ASSUME NEW p \in Projects, NEW i \in DOMAIN obs[p], NEW status \in {"deleted", "gone"},
             DeleteObservation(p, i, status)
      PROVE  Tables'
  <2>1. Mark(p, {i}, status) /\ (status = "gone" \/ {i} \subseteq Live(p)) /\ {i} \in SUBSET DOMAIN obs[p]
    BY <1>8 DEF DeleteObservation
  <2>2. obs' \in [Projects -> Seq(Observations)]
    BY <2>1, Marks
  <2> QED BY <1>8, <2>2 DEF DeleteObservation
<1>9. ASSUME NEW p \in Projects, NEW s \in SessionIds, NEW q \in PromptIds, SavePrompt(p, q, s)
      PROVE  Tables'
  <2>1. [sync |-> q, session |-> s] \in Prompts
    BY DEF Prompts
  <2> QED BY <1>9, <2>1 DEF SavePrompt, InsertPrompt
<1>10. ASSUME NEW p \in Projects, NEW q \in prompts[p], DeletePrompt(p, q)
       PROVE  Tables'
  BY <1>10 DEF DeletePrompt, RemovePrompt
<1>11. ASSUME NEW m \in Merges, MergeProjects(m[1], m[2])
       PROVE  Tables'
  <2>1. PICK from \in Projects, to \in Projects : from = m[1] /\ to = m[2]
    BY WorkspaceAssumption
  <2>2. MergeTarget(from, to)
    BY <1>11, <2>1 DEF MergeProjects
  <2>3. obs' \in [Projects -> Seq(Observations)]
    <3>1. PICK new \in Seq(Observations) : new = Copied(from, to)
      BY CopiedRows
    <3>2. obs' = [obs EXCEPT ![to] = obs[to] \o new]
      BY <2>2, <3>1 DEF MergeTarget
    <3> QED BY <3>2, Appends
  <2>4. Added(sessions[to], sessions[from]) \in Notes
    BY AddedNotes
  <2>5. sessions' = [sessions EXCEPT ![to] = Added(sessions[to], sessions[from])]
    BY <2>2 DEF MergeTarget
  <2>6. prompts' \in [Projects -> SUBSET Prompts]
    BY <2>2 DEF MergeTarget
  <2> QED BY <2>3, <2>4, <2>5, <2>6
<1>12. ASSUME NEW m \in merging, MergeSource(m)
       PROVE  Tables'
  <2>1. PICK p \in Projects : p = m[1]
    BY WorkspaceAssumption
  <2>2. Mark(p, Live(p), "deleted") /\ Live(p) \in SUBSET DOMAIN obs[p]
    BY <1>12, <2>1 DEF MergeSource, Live
  <2>3. obs' \in [Projects -> Seq(Observations)]
    BY <2>2, Marks
  <2> QED BY <1>12, <2>3 DEF MergeSource
<1>13. ASSUME NEW p \in Projects, SoftDeleteProject(p)
       PROVE  Tables'
  <2>1. Mark(p, Live(p), "deleted") /\ Live(p) \in SUBSET DOMAIN obs[p]
    BY <1>13 DEF SoftDeleteProject, Live
  <2>2. obs' \in [Projects -> Seq(Observations)]
    BY <2>1, Marks
  <2> QED BY <1>13, <2>2 DEF SoftDeleteProject
<1>14. ASSUME NEW p \in Projects, RemoveFiles(p) \/ Evict(p)
       PROVE  Tables'
  <2>1. Vanish({p}) \/ UNCHANGED <<sessions, obs, prompts>>
    BY <1>14 DEF RemoveFiles, Evict, VanishOne
  <2> QED BY <2>1, VanishTables
<1>15. CASE PruneList
  BY <1>15 DEF PruneList
<1>16. CASE Crash
  BY <1>16, VanishTables DEF Crash
<1>17. ASSUME NEW p \in Projects, ListBegin(p) \/ PruneSkips(p)
       PROVE  Tables'
  BY <1>17 DEF ListBegin, PruneSkips
<1>18. CASE ListPage
  BY <1>18 DEF ListPage
<1>19. CASE UNCHANGED vars
  BY <1>19 DEF vars
<1> QED
  BY <1>1, <1>2, <1>3, <1>4, <1>5, <1>6, <1>7, <1>8, <1>9, <1>10, <1>11, <1>12, <1>13, <1>14,
     <1>15, <1>16, <1>17, <1>18, <1>19 DEF Next, HardDeleteProject, PruneDelete

\* The rest.
LEMMA RestStep ==
    ASSUME Types, [Next]_vars
    PROVE  Rest'
<1> USE DEF Types, Tables, Rest, work
<1>a. clock' \in 0..MaxTime /\ calls' \in 0..MaxCalls
  <2>1. clock' = clock \/ (clock < MaxTime /\ clock' = clock + 1)
    BY DEF Next, vars, Tick, StartSession, EndSession, SaveSessionSummary, CheckSession, DeleteSession,
           SaveObservation, DeleteObservation, SavePrompt, DeletePrompt, MergeProjects, MergeTarget,
           MergeSource, SoftDeleteProject, HardDeleteProject, PruneList, PruneDelete, PruneSkips, Evict, RemoveFiles, VanishOne,
           Crash, ListBegin, ListPage
  <2>2. calls' = calls \/ (calls < MaxCalls /\ calls' = calls + 1)
    BY DEF Next, vars, Call, Tick, StartSession, EndSession, SaveSessionSummary, CheckSession,
           DeleteSession, SaveObservation, DeleteObservation, SavePrompt, DeletePrompt, MergeProjects,
           MergeSource, SoftDeleteProject, HardDeleteProject, PruneList, PruneDelete, PruneSkips, Evict,
           Crash, ListBegin, ListPage
  <2> QED BY <2>1, <2>2, WorkspaceAssumption
<1>b. deleting' \in {None} \cup (Projects \X SessionIds)
  <2>1. ASSUME NEW p \in Projects, NEW s \in SessionIds, CheckSession(p, s)
        PROVE  deleting' \in Projects \X SessionIds
    BY <2>1 DEF CheckSession
  <2>2. deleting' \in {deleting, None} \/ \E p \in Projects, s \in SessionIds : CheckSession(p, s)
    BY DEF Next, vars, Tick, StartSession, EndSession, SaveSessionSummary, DeleteSession,
           SaveObservation, DeleteObservation, SavePrompt, DeletePrompt, MergeProjects, MergeTarget,
           MergeSource, SoftDeleteProject, HardDeleteProject, PruneList, PruneDelete, PruneSkips, Evict, RemoveFiles, VanishOne,
           Crash, ListBegin, ListPage
  <2> QED BY <2>1, <2>2
<1>b2. pruning' \subseteq Projects
  <2>1. PruneList => pruning' \subseteq Projects
    BY DEF PruneList
  <2>2. pruning' \subseteq pruning \/ PruneList
    BY DEF Next, vars, Tick, StartSession, EndSession, SaveSessionSummary, CheckSession, DeleteSession,
           SaveObservation, DeleteObservation, SavePrompt, DeletePrompt, MergeProjects, MergeTarget,
           MergeSource, SoftDeleteProject, HardDeleteProject, PruneDelete, PruneSkips, Evict, RemoveFiles, VanishOne,
           Crash, ListBegin, ListPage
  <2> QED BY <2>1, <2>2
<1>u. unlinked' \subseteq Projects
  BY DEF Next, vars, Tick, StartSession, EndSession, SaveSessionSummary, CheckSession, DeleteSession,
         SaveObservation, DeleteObservation, SavePrompt, DeletePrompt, MergeProjects, MergeTarget,
         MergeSource, SoftDeleteProject, HardDeleteProject, PruneList, PruneDelete, PruneSkips, Evict,
         RemoveFiles, Crash, ListBegin, ListPage
<1>c. merging' \subseteq Merges
  <2>1. ASSUME NEW m \in Merges, MergeProjects(m[1], m[2])
        PROVE  merging' \subseteq Merges
    <3>1. m \in Projects \X Projects
      BY WorkspaceAssumption
    <3>2. <<m[1], m[2]>> = m
      BY ONLY <3>1
    <3> QED BY <2>1, <3>2 DEF MergeProjects, MergeTarget
  <2> QED
    BY <2>1
       DEF Next, vars, Tick, StartSession, EndSession, SaveSessionSummary, CheckSession, DeleteSession,
           SaveObservation, DeleteObservation, SavePrompt, DeletePrompt,
           MergeSource, SoftDeleteProject, HardDeleteProject, PruneList, PruneDelete, PruneSkips, Evict, RemoveFiles, VanishOne,
           Crash, ListBegin, ListPage
<1>d. saved' \subseteq SyncIds
  BY DEF Next, vars, Tick, StartSession, EndSession, SaveSessionSummary, CheckSession, DeleteSession,
         SaveObservation, DeleteObservation, SavePrompt, DeletePrompt, MergeProjects, MergeTarget,
         MergeSource, SoftDeleteProject, HardDeleteProject, PruneList, PruneDelete, PruneSkips, Evict, RemoveFiles, VanishOne,
         Crash, ListBegin, ListPage
<1>e. page' \in {None} \cup Pages
  <2>1. ASSUME NEW p, NEW ids, Leave(p, ids)
        PROVE  page' \in {None} \cup Pages
    BY <2>1, LeaveTypes
  <2>2. ASSUME NEW p \in Projects, ListBegin(p)
        PROVE  page' \in Pages
    <3>1. Live(p) \in SUBSET Nat /\ <<>> \in Seq(Nat)
      BY RowTypes
    <3> QED BY <2>2, <3>1 DEF ListBegin, Pages
  <2>3. CASE ListPage
    BY <2>3, ListPageTypes
  <2> QED
    BY <2>1, <2>2, <2>3
       DEF Next, vars, Tick, StartSession, EndSession, SaveSessionSummary, CheckSession, DeleteSession,
           SaveObservation, DeleteObservation, SavePrompt, DeletePrompt, MergeProjects, MergeTarget,
           MergeSource, SoftDeleteProject, HardDeleteProject, PruneList, PruneDelete, PruneSkips, Evict, RemoveFiles, VanishOne,
           Crash
<1> QED BY <1>a, <1>b, <1>b2, <1>u, <1>c, <1>d, <1>e

-----------------------------------------------------------------------------
(* What a step does to the rows: nothing, or one of seven things. *)

\* The step loses some of the sync_ids S and no others.
Loses(S) == Lost \subseteq Lost' /\ Lost' \subseteq Lost \cup S

\* The rows in unlinked files are lost.
Doomed == \A p \in unlinked : SyncsOf(p, Live(p)) \subseteq Lost

Quiet ==
  /\ UNCHANGED <<obs, saved, merging, unlinked>> /\ Lost' = Lost
  /\ page' \in {page, None} \/ (\E p \in Projects : ListBegin(p)) \/ ListPage

Saves(p, o) ==
  /\ Writable(p) /\ o \notin saved /\ saved' = saved \cup {o} /\ UNCHANGED <<merging, unlinked, page>>
  /\ Loses({o}) /\ (p \in unlinked => o \in Lost')
  /\ \E row \in Observations :
       row.sync = o /\ row.status = "live" /\ obs' = [obs EXCEPT ![p] = obs[p] \o <<row>>]

Deletes(p, ids, status) ==
  /\ Writable(p) /\ ids \subseteq DOMAIN obs[p]
  /\ ids \subseteq Stored(p) /\ (status = "gone" \/ ids \subseteq Live(p))
  /\ Mark(p, ids, status) /\ Leave(p, ids)
  /\ Lost' = Lost \cup SyncsOf(p, ids) /\ UNCHANGED <<saved, merging, unlinked>>

\* A merge commits in its target, and in its source.
Merged(m) ==
  /\ MergeTarget(m[1], m[2])
  /\ Loses(SyncsOf(m[1], Live(m[1])))
  /\ m[2] \in unlinked =>
       \A o \in SyncsOf(m[1], Live(m[1])) : o \in SyncsOf(m[2], Stored(m[2])) \/ o \in Lost'

Emptied(m) == MergeSource(m) /\ Lost' = Lost

\* The file of p is unlinked under those who have it open.
Unlinks(p) ==
  /\ UNCHANGED <<obs, sessions, prompts, saved, merging>> /\ unlinked' = unlinked \cup {p}
  /\ Lost' = Lost \cup SyncsOf(p, Live(p)) /\ Leave(p, Live(p))

\* The contents of the projects ps are gone, and every row in them was lost.
Empties(ps) ==
  /\ Vanish(ps) /\ UNCHANGED saved /\ unlinked' \subseteq unlinked
  /\ Loses(UNION {SyncsOf(p, Live(p)) : p \in ps})
  /\ \A p \in ps : SyncsOf(p, Live(p)) \subseteq Lost'
  /\ merging' \subseteq {m \in merging : m[1] \notin ps /\ m[2] \notin ps}
  /\ page' = None \/ \E p \in ps : ps = {p} /\ Leave(p, Live(p))

LEMMA LostGrows ==
    ASSUME dropped \subseteq dropped', stranded \subseteq stranded', pruned \subseteq pruned',
           NEW S, dropped' \cup stranded' \cup pruned' \subseteq dropped \cup stranded \cup pruned \cup S
    PROVE  Loses(S)
BY DEF Loses, Lost

LEMMA NothingLost == ASSUME UNCHANGED losses PROVE Lost' = Lost
BY DEF losses, Lost

LEMMA RowSteps ==
    ASSUME Types, Doomed, [Next]_vars
    PROVE  \/ Quiet
           \/ \E p \in Projects, o \in SyncIds : Saves(p, o)
           \/ \E p \in Projects, ids \in SUBSET Nat, status \in {"deleted", "gone"} :
                Deletes(p, ids, status)
           \/ \E m \in Merges : Merged(m)
           \/ \E m \in merging : Emptied(m)
           \/ \E p \in Projects : Unlinks(p)
           \/ \E ps \in SUBSET Projects : Empties(ps)
<1> USE DEF Types, Tables, Rest, work
<1>1. ASSUME NEW p \in Projects, NEW s \in SessionIds, NEW o \in SyncIds, SaveObservation(p, o, s)
      PROVE  Saves(p, o)
  <2>1. PICK row : row = [sync |-> o, session |-> s, at |-> clock, status |-> "live"]
    OBVIOUS
  <2>2. row \in Observations /\ row.sync = o /\ row.status = "live"
    BY <2>1 DEF Observations
  <2>3. obs[p] \in Seq(Observations)
    OBVIOUS
  <2>4. Append(obs[p], row) = obs[p] \o <<row>>
    BY ONLY <2>2, <2>3
  <2>5. obs' = [obs EXCEPT ![p] = obs[p] \o <<row>>]
    BY <1>1, <2>1, <2>4 DEF SaveObservation
  <2>6. Loses({o}) /\ (p \in unlinked => o \in Lost')
    <3>1. /\ dropped' = dropped /\ pruned' = pruned
          /\ stranded' = stranded \cup {x \in {o} : p \in unlinked}
      BY <1>1 DEF SaveObservation
    <3>2. Loses({o})
      BY <3>1, LostGrows
    <3> QED BY <3>1, <3>2 DEF Lost
  <2> QED BY <1>1, <2>2, <2>5, <2>6 DEF SaveObservation, Saves
<1>2. ASSUME NEW p \in Projects, NEW i \in DOMAIN obs[p], NEW status \in {"deleted", "gone"},
             DeleteObservation(p, i, status)
      PROVE  Deletes(p, {i}, status) /\ {i} \in SUBSET Nat
  <2>1. i \in Stored(p) /\ (status = "gone" \/ i \in Live(p)) /\ i \in Nat
    BY <1>2, RowTypes DEF DeleteObservation
  <2>2. Lost' = Lost \cup SyncsOf(p, {i})
    BY <1>2 DEF DeleteObservation, Lost
  <2> QED BY <1>2, <2>1, <2>2 DEF DeleteObservation, Deletes
<1>3. ASSUME NEW p \in Projects, SoftDeleteProject(p)
      PROVE  Deletes(p, Live(p), "deleted") /\ Live(p) \in SUBSET Nat
  <2>1. Live(p) \in SUBSET Stored(p) /\ Stored(p) \in SUBSET DOMAIN obs[p] /\ Stored(p) \in SUBSET Nat
    BY RowTypes
  <2>2. Lost' = Lost \cup SyncsOf(p, Live(p))
    BY <1>3 DEF SoftDeleteProject, Lost
  <2> QED BY <1>3, <2>1, <2>2 DEF SoftDeleteProject, Deletes
<1>4. CASE \/ Tick \/ DeleteSession \/ PruneList \/ ListPage \/ UNCHANGED vars
           \/ \E p \in Projects, s \in SessionIds :
                \/ StartSession(p, s) \/ SaveSessionSummary(p, s) \/ CheckSession(p, s)
                \/ \E summary \in {None, "text"} : EndSession(p, s, summary)
                \/ \E q \in PromptIds : SavePrompt(p, q, s)
           \/ \E p \in Projects : ListBegin(p) \/ PruneSkips(p) \/ \E q \in prompts[p] : DeletePrompt(p, q)
  <2>1. UNCHANGED <<obs, saved, merging, unlinked>> /\ UNCHANGED losses
    BY <1>4 DEF vars, losses, Tick, StartSession, EndSession, SaveSessionSummary, CheckSession,
                DeleteSession, SavePrompt, DeletePrompt, PruneList, PruneSkips, ListBegin, ListPage
  <2>2. page' = page \/ (\E p \in Projects : ListBegin(p)) \/ ListPage
    BY <1>4 DEF vars, Tick, StartSession, EndSession, SaveSessionSummary, CheckSession,
                DeleteSession, SavePrompt, DeletePrompt, PruneList, PruneSkips
  <2> QED BY <2>1, <2>2, NothingLost DEF Quiet
<1>5. ASSUME NEW m \in Merges, MergeProjects(m[1], m[2])
      PROVE  Merged(m)
  <2> DEFINE new == {o \in SyncsOf(m[1], Live(m[1])) :
                       m[2] \in unlinked /\ o \notin SyncsOf(m[2], Stored(m[2]))}
  <2>1. /\ MergeTarget(m[1], m[2]) /\ dropped' = dropped /\ pruned' = pruned
        /\ stranded' = stranded \cup new
    BY <1>5 DEF MergeProjects, MergeTarget
  <2>2. Loses(SyncsOf(m[1], Live(m[1])))
    BY <2>1, LostGrows
  <2>3. \A o \in new : o \in Lost'
    BY <2>1 DEF Lost
  <2> QED BY <2>1, <2>2, <2>3 DEF Merged
<1>6. ASSUME NEW m \in merging, MergeSource(m)
      PROVE  Emptied(m)
  BY <1>6, NothingLost DEF MergeSource, Emptied
<1>7. ASSUME NEW p \in Projects, RemoveFiles(p), Lost' = Lost \cup SyncsOf(p, Live(p))
      PROVE  Unlinks(p) \/ Empties({p})
  <2>1. CASE unlinked' = unlinked \cup {p} /\ UNCHANGED <<sessions, obs, prompts, merging>>
    BY <1>7, <2>1 DEF RemoveFiles, Unlinks
  <2>2. CASE ~InUse(p) /\ VanishOne(p) /\ UNCHANGED unlinked
    <3>1. Loses(UNION {SyncsOf(q, Live(q)) : q \in {p}})
      BY <1>7 DEF Loses
    <3>2. merging' \subseteq {m \in merging : m[1] \notin {p} /\ m[2] \notin {p}}
      BY <2>2 DEF VanishOne, InUse
    <3> QED BY <1>7, <2>2, <3>1, <3>2 DEF Empties, RemoveFiles, VanishOne
  <2> QED BY <1>7, <2>1, <2>2 DEF RemoveFiles
<1>8. ASSUME NEW p \in Projects, HardDeleteProject(p) \/ PruneDelete(p)
      PROVE  Unlinks(p) \/ Empties({p})
  <2>1. RemoveFiles(p) /\ stranded' = stranded
    BY <1>8 DEF HardDeleteProject, PruneDelete, RemoveFiles
  <2>2. Lost' = Lost \cup SyncsOf(p, Live(p))
    BY <1>8, <2>1 DEF HardDeleteProject, PruneDelete, Lost
  <2> QED BY <1>7, <2>1, <2>2
<1>9. ASSUME NEW p \in Projects, Evict(p)
      PROVE  Empties({p})
  <2>1. Lost' = Lost /\ p \in unlinked /\ SyncsOf(p, Live(p)) \subseteq Lost
    BY <1>9, NothingLost DEF Evict, Doomed
  <2>2. Loses(UNION {SyncsOf(q, Live(q)) : q \in {p}})
    BY <2>1 DEF Loses
  <2>3. merging' \subseteq {m \in merging : m[1] \notin {p} /\ m[2] \notin {p}}
    BY <1>9 DEF Evict, VanishOne, InUse
  <2> QED BY <1>9, <2>1, <2>2, <2>3 DEF Empties, Evict, VanishOne
<1>10. CASE Crash
  <2>1. Lost' = Lost /\ \A p \in unlinked : SyncsOf(p, Live(p)) \subseteq Lost
    BY <1>10, NothingLost DEF Crash, Doomed
  <2>2. Loses(UNION {SyncsOf(q, Live(q)) : q \in unlinked})
    BY <2>1 DEF Loses
  <2>3. Empties(unlinked) /\ unlinked \in SUBSET Projects
    BY <1>10, <2>1, <2>2 DEF Empties, Crash
  <2> QED BY <2>3
<1> HIDE DEF Types
<1>11. \A p \in Projects : {p} \in SUBSET Projects
  OBVIOUS
<1> QED BY <1>1, <1>2, <1>3, <1>4, <1>5, <1>6, <1>8, <1>9, <1>10, <1>11 DEF Next

-----------------------------------------------------------------------------
(* The rows of a project are told apart by their sync_ids. *)

Unique ==
  \A p \in Projects : \A i, j \in Stored(p) : obs[p][i].sync = obs[p][j].sync => i = j

\* A row that is stored was saved, and what was lost too.
Known ==
  /\ \A p \in Projects : \A i \in Stored(p) : obs[p][i].sync \in saved
  /\ Lost \subseteq saved

\* The rows that are left of those of q, as they were.
Fewer(q) ==
  /\ Stored(q)' \subseteq Stored(q) /\ Live(q)' \subseteq Live(q)
  /\ \A i \in Stored(q)' : SameRow(obs'[q][i], obs[q][i])

\* The rows of q and others.
More(q) ==
  /\ Stored(q) \subseteq Stored(q)' /\ Live(q) \subseteq Live(q)'
  /\ \A i \in Stored(q) : obs'[q][i] = obs[q][i]

LEMMA SameRows ==
    ASSUME NEW q, obs'[q] = obs[q]
    PROVE  Live(q)' = Live(q) /\ Stored(q)' = Stored(q) /\ Fewer(q) /\ More(q)
BY DEF Live, Stored, Fewer, More, SameRow

LEMMA FewerDeletes ==
    ASSUME Types, NEW p \in Projects, NEW ids, NEW status \in {"deleted", "gone"},
           Deletes(p, ids, status)
    PROVE  /\ \A q \in Projects : Fewer(q)
           /\ \A q \in Projects : q # p => obs'[q] = obs[q]
           /\ Live(p)' = Live(p) \ ids
<1>1. obs \in [Projects -> Seq(Observations)]
  BY DEF Types, Tables
<1>2. ids \in SUBSET DOMAIN obs[p] /\ (status = "gone" \/ ids \subseteq Live(p)) /\ Mark(p, ids, status)
  BY DEF Deletes
<1>3. /\ \A q \in Projects : q # p => obs'[q] = obs[q]
      /\ \A i \in DOMAIN obs[p] : SameRow(obs'[p][i], obs[p][i])
      /\ Live(p)' = Live(p) \ ids
      /\ Stored(p)' \subseteq Stored(p)
  BY <1>1, <1>2, Marks
<1>4. \A i \in Stored(p) : i \in DOMAIN obs[p]
  BY DEF Stored
<1>5. Fewer(p)
  BY <1>3, <1>4 DEF Fewer
<1> QED BY <1>3, <1>5, SameRows

LEMMA FewerSource ==
    ASSUME Types, NEW m \in Merges, Mark(m[1], Live(m[1]), "deleted")
    PROVE  /\ m[1] \in Projects /\ m[2] \in Projects /\ m[1] # m[2]
           /\ \A q \in Projects : Fewer(q)
           /\ \A q \in Projects : q # m[1] => obs'[q] = obs[q]
           /\ \A q \in Projects : Stored(q)' = Stored(q)
           /\ Live(m[1])' = {}
<1>1. obs \in [Projects -> Seq(Observations)]
  BY DEF Types, Tables
<1>2. PICK p \in Projects : p = m[1]
  BY WorkspaceAssumption
<1>3. Live(p) \in SUBSET DOMAIN obs[p] /\ Mark(p, Live(p), "deleted")
  BY <1>2 DEF Live
<1>4. /\ \A q \in Projects : q # p => obs'[q] = obs[q]
      /\ \A i \in DOMAIN obs[p] : SameRow(obs'[p][i], obs[p][i])
      /\ Live(p)' = {}
      /\ Stored(p)' = Stored(p)
  BY <1>1, <1>3, Marks
<1>5. \A i \in Stored(p) : i \in DOMAIN obs[p]
  BY DEF Stored
<1>6. Fewer(p)
  BY <1>4, <1>5 DEF Fewer
<1>7. \A q \in Projects : Fewer(q) /\ Stored(q)' = Stored(q)
  BY <1>4, <1>6, SameRows
<1>8. m[2] \in Projects /\ m[1] # m[2]
  BY WorkspaceAssumption
<1> QED BY <1>2, <1>4, <1>7, <1>8

LEMMA FewerFiles ==
    ASSUME Types, NEW ps, Vanish(ps)
    PROVE  /\ \A q \in Projects : Fewer(q)
           /\ \A q \in Projects : q \notin ps => obs'[q] = obs[q]
           /\ \A q \in Projects : q \in ps => Live(q)' = {} /\ Stored(q)' = {}
<1>1. obs \in [Projects -> Seq(Observations)]
  BY DEF Types, Tables
<1>2. \A q \in Projects : obs'[q] = IF q \in ps THEN <<>> ELSE obs[q]
  BY <1>1 DEF Vanish
<1>3. ASSUME NEW q \in Projects, q \in ps PROVE Live(q)' = {} /\ Stored(q)' = {}
  <2>1. DOMAIN obs'[q] = {}
    BY <1>2, <1>3
  <2> QED BY <2>1 DEF Live, Stored
<1>4. \A q \in Projects : q \in ps => Fewer(q)
  BY <1>3 DEF Fewer
<1> QED BY <1>2, <1>3, <1>4, SameRows

\* Rows are appended: the old ones stay, and every other one is new.
LEMMA MoreRows ==
    ASSUME Types, NEW p \in Projects, NEW new \in Seq(Observations),
           obs' = [obs EXCEPT ![p] = obs[p] \o new],
           \A k \in 1..Len(new) : new[k].status # "gone"
    PROVE  /\ \A q \in Projects : More(q)
           /\ \A q \in Projects : q # p => obs'[q] = obs[q]
           /\ \A i \in Stored(p)' :
                \/ i \in Stored(p) /\ obs'[p][i] = obs[p][i]
                \/ i - Len(obs[p]) \in 1..Len(new) /\ obs'[p][i] = new[i - Len(obs[p])]
           /\ \A k \in 1..Len(new) :
                /\ Len(obs[p]) + k \in Stored(p)' /\ obs'[p][Len(obs[p]) + k] = new[k]
                /\ new[k].status = "live" => Len(obs[p]) + k \in Live(p)'
           /\ Len(obs[p]) \in Nat
           /\ \A i \in Stored(p)' : i \in Nat
<1>1. obs \in [Projects -> Seq(Observations)]
  BY DEF Types, Tables
<1>2. PICK n : n = Len(obs[p])
  OBVIOUS
<1>3. /\ obs' \in [Projects -> Seq(Observations)]
      /\ \A q \in Projects : q # p => obs'[q] = obs[q]
      /\ \A i \in DOMAIN obs[p] : i \in DOMAIN obs'[p] /\ obs'[p][i] = obs[p][i]
      /\ \A i \in DOMAIN obs'[p] : i \in DOMAIN obs[p] \/ (i - n \in 1..Len(new) /\ obs'[p][i] = new[i - n])
      /\ \A k \in 1..Len(new) : n + k \in DOMAIN obs'[p] /\ obs'[p][n + k] = new[k]
  BY <1>1, <1>2, Appends
<1>4. More(p)
  BY <1>3 DEF More, Live, Stored
<1>5. \A i \in Stored(p)' : \/ i \in Stored(p) /\ obs'[p][i] = obs[p][i]
                            \/ i - n \in 1..Len(new) /\ obs'[p][i] = new[i - n]
  BY <1>3 DEF Stored
<1>6. \A k \in 1..Len(new) :
        /\ n + k \in Stored(p)' /\ obs'[p][n + k] = new[k]
        /\ new[k].status = "live" => n + k \in Live(p)'
  BY <1>3 DEF Stored, Live
<1>7. n \in Nat
  BY <1>1, <1>2, RowTypes
<1>8. \A i \in Stored(p)' : i \in Nat
  <2>1. DOMAIN obs'[p] \in SUBSET Nat
    <3>1. obs'[p] \in Seq(Observations)
      BY <1>3
    <3> QED BY <3>1
  <2> QED BY <2>1 DEF Stored
<1>9. \A q \in Projects : More(q)
  BY <1>3, <1>4, SameRows
<1> QED BY <1>2, <1>3, <1>5, <1>6, <1>7, <1>8, <1>9

\* A merge: the copied rows, each from a stored row of the source.
LEMMA MergeRows ==
    ASSUME Types, NEW m \in Merges, MergeTarget(m[1], m[2])
    PROVE  /\ m[1] \in Projects /\ m[2] \in Projects /\ m[1] # m[2]
           /\ \E new \in Seq(Observations) :
                /\ obs' = [obs EXCEPT ![m[2]] = obs[m[2]] \o new]
                /\ \A k \in 1..Len(new) : new[k].status # "gone"
                /\ \E at : CopiedFrom(m[1], m[2], new, at)
<1>1. obs \in [Projects -> Seq(Observations)]
  BY DEF Types, Tables
<1>2. PICK p \in Projects, t \in Projects : p = m[1] /\ t = m[2] /\ p # t
  BY WorkspaceAssumption
<1>3. PICK new : new = Copied(p, t)
  OBVIOUS
<1>4. new \in Seq(Observations) /\ \E at : CopiedFrom(p, t, new, at)
  BY <1>1, <1>3, CopiedRows
<1>5. obs' = [obs EXCEPT ![t] = obs[t] \o new]
  BY <1>2, <1>3 DEF MergeTarget
<1>6. \A k \in 1..Len(new) : new[k].status # "gone"
  <2>1. PICK at : CopiedFrom(p, t, new, at)
    BY <1>4
  <2>2. \A k \in 1..Len(new) : at[k] \in Stored(p) /\ new[k] = obs[p][at[k]]
    BY <2>1 DEF CopiedFrom
  <2>3. \A i \in Stored(p) : obs[p][i].status # "gone"
    BY DEF Stored
  <2> QED BY <2>2, <2>3
<1> QED BY <1>2, <1>4, <1>5, <1>6

LEMMA UniqueStep ==
    ASSUME Types, Doomed, Unique, Known, [Next]_vars
    PROVE  Unique'
<1>1. ASSUME \A q \in Projects : Fewer(q)
      PROVE  Unique'
  <2>1. ASSUME NEW q \in Projects, NEW i \in Stored(q)', NEW j \in Stored(q)',
               obs'[q][i].sync = obs'[q][j].sync
        PROVE  i = j
    <3>1. i \in Stored(q) /\ j \in Stored(q) /\ obs[q][i].sync = obs[q][j].sync
      BY <1>1, <2>1 DEF Fewer, SameRow
    <3> QED BY <3>1 DEF Unique
  <2> QED BY <2>1 DEF Unique
<1>2. ASSUME NEW p \in Projects, NEW new \in Seq(Observations),
             obs' = [obs EXCEPT ![p] = obs[p] \o new],
             \A k \in 1..Len(new) : new[k].status # "gone",
             \A k \in 1..Len(new) : \A i \in Stored(p) : obs[p][i].sync # new[k].sync,
             \A k, l \in 1..Len(new) : new[k].sync = new[l].sync => k = l
      PROVE  Unique'
  <2>1. /\ \A q \in Projects : q # p => obs'[q] = obs[q]
        /\ \A i \in Stored(p)' :
             \/ i \in Stored(p) /\ obs'[p][i] = obs[p][i]
             \/ i - Len(obs[p]) \in 1..Len(new) /\ obs'[p][i] = new[i - Len(obs[p])]
        /\ Len(obs[p]) \in Nat
        /\ \A i \in Stored(p)' : i \in Nat
    BY <1>2, MoreRows
  <2>2. ASSUME NEW i \in Stored(p)', NEW j \in Stored(p)', obs'[p][i].sync = obs'[p][j].sync
        PROVE  i = j
    <3>1. CASE i \in Stored(p) /\ obs'[p][i] = obs[p][i] /\ j \in Stored(p) /\ obs'[p][j] = obs[p][j]
      BY <2>2, <3>1 DEF Unique
    <3>2. CASE /\ i - Len(obs[p]) \in 1..Len(new) /\ obs'[p][i] = new[i - Len(obs[p])]
               /\ j - Len(obs[p]) \in 1..Len(new) /\ obs'[p][j] = new[j - Len(obs[p])]
      <4>1. i - Len(obs[p]) = j - Len(obs[p])
        BY <1>2, <2>2, <3>2
      <4> QED BY <2>1, <4>1
    <3>3. CASE \/ /\ i \in Stored(p) /\ obs'[p][i] = obs[p][i]
                  /\ j - Len(obs[p]) \in 1..Len(new) /\ obs'[p][j] = new[j - Len(obs[p])]
               \/ /\ j \in Stored(p) /\ obs'[p][j] = obs[p][j]
                  /\ i - Len(obs[p]) \in 1..Len(new) /\ obs'[p][i] = new[i - Len(obs[p])]
      BY <1>2, <2>2, <3>3
    <3> QED BY <2>1, <3>1, <3>2, <3>3
  <2>3. ASSUME NEW q \in Projects, NEW i \in Stored(q)', NEW j \in Stored(q)',
               obs'[q][i].sync = obs'[q][j].sync, q # p
        PROVE  i = j
    BY <2>1, <2>3, SameRows DEF Unique
  <2> QED BY <2>2, <2>3 DEF Unique
<1>3. CASE Quiet
  BY <1>1, <1>3, SameRows DEF Quiet
<1>4. ASSUME NEW p \in Projects, NEW o \in SyncIds, Saves(p, o)
      PROVE  Unique'
  <2>1. PICK row \in Observations :
          row.sync = o /\ row.status = "live" /\ obs' = [obs EXCEPT ![p] = obs[p] \o <<row>>]
    BY <1>4 DEF Saves
  <2>a. <<row>> \in Seq(Observations)
    BY ONLY <2>1
  <2>2. PICK new \in Seq(Observations) : new = <<row>>
    BY ONLY <2>a
  <2>3. Len(new) = 1 /\ \A k \in 1..Len(new) : k = 1 /\ new[k] = row
    BY <2>2
  <2>4. \A i \in Stored(p) : obs[p][i].sync # o
    BY <1>4 DEF Saves, Known
  <2>5. /\ \A k \in 1..Len(new) : new[k].status # "gone"
        /\ \A k \in 1..Len(new) : \A i \in Stored(p) : obs[p][i].sync # new[k].sync
        /\ \A k, l \in 1..Len(new) : new[k].sync = new[l].sync => k = l
    BY <2>1, <2>3, <2>4
  <2>6. obs' = [obs EXCEPT ![p] = obs[p] \o new]
    BY <2>1, <2>2
  <2> QED BY <1>2, <2>5, <2>6
<1>5. ASSUME NEW m \in Merges, Merged(m)
      PROVE  Unique'
  <2>1. PICK p \in Projects, t \in Projects : p = m[1] /\ t = m[2]
    BY WorkspaceAssumption
  <2>2. PICK new \in Seq(Observations) :
          /\ obs' = [obs EXCEPT ![t] = obs[t] \o new]
          /\ \A k \in 1..Len(new) : new[k].status # "gone"
          /\ \E at : CopiedFrom(p, t, new, at)
    BY <1>5, <2>1, MergeRows DEF Merged
  <2>3. PICK at : CopiedFrom(p, t, new, at)
    BY <2>2
  <2>4. /\ \A k \in 1..Len(new) : at[k] \in Stored(p) /\ new[k] = obs[p][at[k]]
        /\ \A k \in 1..Len(new) : obs[p][at[k]].sync \notin SyncsOf(t, Stored(t))
        /\ \A k, l \in 1..Len(new) : at[k] = at[l] => k = l
    BY <2>3 DEF CopiedFrom
  <2>5. \A k \in 1..Len(new) : \A i \in Stored(t) : obs[t][i].sync # new[k].sync
    BY <2>4 DEF SyncsOf
  <2>6. \A k, l \in 1..Len(new) : new[k].sync = new[l].sync => k = l
    BY <2>4 DEF Unique
  <2> QED BY <1>2, <2>2, <2>5, <2>6
<1>6. ASSUME NEW p \in Projects, NEW ids, NEW status \in {"deleted", "gone"}, Deletes(p, ids, status)
      PROVE  Unique'
  BY <1>1, <1>6, FewerDeletes
<1>7. ASSUME NEW m \in merging, Emptied(m)
      PROVE  Unique'
  <2>1. m \in Merges /\ Mark(m[1], Live(m[1]), "deleted")
    BY <1>7 DEF Emptied, MergeSource, Types, Rest
  <2> QED BY <1>1, <2>1, FewerSource
<1>8. ASSUME NEW p \in Projects, Unlinks(p)
      PROVE  Unique'
  BY <1>1, <1>8, SameRows DEF Unlinks
<1>9. ASSUME NEW ps \in SUBSET Projects, Empties(ps)
      PROVE  Unique'
  BY <1>1, <1>9, FewerFiles DEF Empties
<1> QED BY <1>3, <1>4, <1>5, <1>6, <1>7, <1>8, <1>9, RowSteps

LEMMA KnownStep ==
    ASSUME Types, Doomed, Known, [Next]_vars
    PROVE  Known'
<1>1. ASSUME \A q \in Projects : Fewer(q), UNCHANGED saved, Lost' \subseteq saved
      PROVE  Known'
  <2>1. ASSUME NEW q \in Projects, NEW i \in Stored(q)' PROVE obs'[q][i].sync \in saved'
    BY <1>1 DEF Fewer, SameRow, Known
  <2> QED BY <1>1, <2>1 DEF Known
<1>2. ASSUME NEW p \in Projects, NEW new \in Seq(Observations),
             obs' = [obs EXCEPT ![p] = obs[p] \o new],
             \A k \in 1..Len(new) : new[k].status # "gone" /\ new[k].sync \in saved',
             saved \subseteq saved', Lost' \subseteq saved'
      PROVE  Known'
  <2>1. /\ \A q \in Projects : q # p => obs'[q] = obs[q]
        /\ \A i \in Stored(p)' :
             \/ i \in Stored(p) /\ obs'[p][i] = obs[p][i]
             \/ i - Len(obs[p]) \in 1..Len(new) /\ obs'[p][i] = new[i - Len(obs[p])]
    BY <1>2, MoreRows
  <2>2. ASSUME NEW i \in Stored(p)' PROVE obs'[p][i].sync \in saved'
    BY <1>2, <2>1 DEF Known
  <2>3. ASSUME NEW q \in Projects, q # p, NEW i \in Stored(q)' PROVE obs'[q][i].sync \in saved'
    BY <1>2, <2>1, <2>3, SameRows DEF Known
  <2> QED BY <1>2, <2>2, <2>3 DEF Known
<1>3. CASE Quiet
  BY <1>1, <1>3, SameRows DEF Quiet, Known
<1>4. ASSUME NEW p \in Projects, NEW o \in SyncIds, Saves(p, o)
      PROVE  Known'
  <2>1. PICK row \in Observations :
          row.sync = o /\ row.status = "live" /\ obs' = [obs EXCEPT ![p] = obs[p] \o <<row>>]
    BY <1>4 DEF Saves
  <2>a. <<row>> \in Seq(Observations)
    BY ONLY <2>1
  <2>2. PICK new \in Seq(Observations) : new = <<row>>
    BY ONLY <2>a
  <2>3. Len(new) = 1 /\ \A k \in 1..Len(new) : k = 1 /\ new[k] = row
    BY <2>2
  <2>4. o \in saved' /\ saved \subseteq saved' /\ Lost' \subseteq saved'
    BY <1>4 DEF Saves, Loses, Known
  <2> QED BY <1>2, <2>1, <2>2, <2>3, <2>4
<1>5. ASSUME NEW m \in Merges, Merged(m)
      PROVE  Known'
  <2>1. PICK p \in Projects, t \in Projects : p = m[1] /\ t = m[2]
    BY WorkspaceAssumption
  <2>2. PICK new \in Seq(Observations) :
          /\ obs' = [obs EXCEPT ![t] = obs[t] \o new]
          /\ \A k \in 1..Len(new) : new[k].status # "gone"
          /\ \E at : CopiedFrom(p, t, new, at)
    BY <1>5, <2>1, MergeRows DEF Merged
  <2>3. PICK at : CopiedFrom(p, t, new, at)
    BY <2>2
  <2>4. \A k \in 1..Len(new) : at[k] \in Stored(p) /\ new[k] = obs[p][at[k]]
    BY <2>3 DEF CopiedFrom
  <2>5. saved' = saved /\ Lost' \subseteq saved
    <3>1. SyncsOf(p, Live(p)) \subseteq saved
      BY DEF SyncsOf, Known, Live, Stored
    <3> QED BY <1>5, <2>1, <3>1 DEF Merged, MergeTarget, Loses, Known
  <2>6. \A k \in 1..Len(new) : new[k].sync \in saved'
    BY <2>4, <2>5 DEF Known
  <2> QED BY <1>2, <2>2, <2>5, <2>6
<1>6. ASSUME NEW p \in Projects, NEW ids, NEW status \in {"deleted", "gone"}, Deletes(p, ids, status)
      PROVE  Known'
  <2>1. SyncsOf(p, ids) \subseteq saved
    BY <1>6 DEF Deletes, SyncsOf, Known
  <2>2. UNCHANGED saved /\ Lost' \subseteq saved
    BY <1>6, <2>1 DEF Deletes, Known
  <2> QED BY <1>1, <1>6, <2>2, FewerDeletes
<1>7. ASSUME NEW m \in merging, Emptied(m)
      PROVE  Known'
  <2>1. m \in Merges /\ Mark(m[1], Live(m[1]), "deleted") /\ UNCHANGED saved /\ Lost' = Lost
    BY <1>7 DEF Emptied, MergeSource, Types, Rest
  <2> QED BY <1>1, <2>1, FewerSource DEF Known
<1>8. \A p \in Projects : SyncsOf(p, Live(p)) \subseteq saved
  BY DEF SyncsOf, Known, Live, Stored
<1>9. ASSUME NEW p \in Projects, Unlinks(p)
      PROVE  Known'
  <2>1. UNCHANGED saved /\ Lost' \subseteq saved
    BY <1>8, <1>9 DEF Unlinks, Known
  <2> QED BY <1>1, <1>9, <2>1, SameRows DEF Unlinks
<1>10. ASSUME NEW ps \in SUBSET Projects, Empties(ps)
       PROVE  Known'
  <2>1. UNCHANGED saved /\ Lost' \subseteq saved
    BY <1>8, <1>10 DEF Empties, Loses, Known
  <2> QED BY <1>1, <1>10, <2>1, FewerFiles DEF Empties
<1> QED BY <1>3, <1>4, <1>5, <1>6, <1>7, <1>9, <1>10, RowSteps

\* The rows in unlinked files stay lost, and so does what is written to them.
LEMMA DoomedStep ==
    ASSUME Types, Doomed, [Next]_vars
    PROVE  Doomed'
<1> DEFINE At(p) == SyncsOf(p, Live(p)) \subseteq Lost
<1>1. ASSUME \A q \in Projects : Fewer(q), Lost \subseteq Lost', unlinked' \subseteq unlinked
      PROVE  Doomed'
  <2>1. ASSUME NEW q \in unlinked' PROVE At(q)'
    <3>1. q \in Projects /\ At(q)
      BY <1>1, <2>1 DEF Doomed, Types, Rest
    <3> QED BY <1>1, <3>1 DEF Fewer, SameRow, SyncsOf, Live, Stored
  <2> QED BY <2>1 DEF Doomed
<1>2. ASSUME NEW p \in Projects, NEW new \in Seq(Observations),
             obs' = [obs EXCEPT ![p] = obs[p] \o new], UNCHANGED unlinked, Lost \subseteq Lost',
             \A k \in 1..Len(new) : new[k].status # "gone",
             p \in unlinked => \A k \in 1..Len(new) : new[k].status = "live" => new[k].sync \in Lost'
      PROVE  Doomed'
  <2>1. /\ \A q \in Projects : q # p => obs'[q] = obs[q]
        /\ \A i \in Stored(p)' :
             \/ i \in Stored(p) /\ obs'[p][i] = obs[p][i]
             \/ i - Len(obs[p]) \in 1..Len(new) /\ obs'[p][i] = new[i - Len(obs[p])]
    BY <1>2, MoreRows
  <2>2. ASSUME p \in unlinked, NEW i \in Live(p)' PROVE obs'[p][i].sync \in Lost'
    <3>1. i \in Stored(p)' /\ obs'[p][i].status = "live"
      BY <2>2 DEF Live, Stored
    <3>2. CASE i \in Stored(p) /\ obs'[p][i] = obs[p][i]
      <4>1. i \in Live(p)
        BY <3>1, <3>2 DEF Live, Stored
      <4> QED BY <1>2, <2>2, <3>2, <4>1 DEF Doomed, SyncsOf
    <3>3. CASE i - Len(obs[p]) \in 1..Len(new) /\ obs'[p][i] = new[i - Len(obs[p])]
      BY <1>2, <2>2, <3>1, <3>3
    <3> QED BY <2>1, <3>1, <3>2, <3>3
  <2>3. ASSUME NEW q \in unlinked, q # p PROVE At(q)'
    <3>1. q \in Projects /\ At(q)
      BY <2>3 DEF Doomed, Types, Rest
    <3>2. Live(q)' = Live(q) /\ obs'[q] = obs[q]
      BY <2>1, <2>3, <3>1, SameRows
    <3> QED BY <1>2, <3>1, <3>2 DEF SyncsOf
  <2>4. p \in unlinked => At(p)'
    BY <2>2 DEF SyncsOf
  <2> HIDE DEF At
  <2>5. \A q \in unlinked' : At(q)'
    BY <1>2, <2>3, <2>4
  <2> USE DEF At
  <2> QED BY <2>5 DEF Doomed
<1>3. CASE Quiet
  BY <1>1, <1>3, SameRows DEF Quiet
<1>4. ASSUME NEW p \in Projects, NEW o \in SyncIds, Saves(p, o)
      PROVE  Doomed'
  <2>1. PICK row \in Observations :
          row.sync = o /\ row.status = "live" /\ obs' = [obs EXCEPT ![p] = obs[p] \o <<row>>]
    BY <1>4 DEF Saves
  <2>a. <<row>> \in Seq(Observations)
    BY ONLY <2>1
  <2>2. PICK new \in Seq(Observations) : new = <<row>>
    BY ONLY <2>a
  <2>3. Len(new) = 1 /\ \A k \in 1..Len(new) : k = 1 /\ new[k] = row
    BY <2>2
  <2>4. UNCHANGED unlinked /\ Lost \subseteq Lost' /\ (p \in unlinked => o \in Lost')
    BY <1>4 DEF Saves, Loses
  <2> QED BY <1>2, <2>1, <2>2, <2>3, <2>4
<1>5. ASSUME NEW m \in Merges, Merged(m)
      PROVE  Doomed'
  <2>1. PICK p \in Projects, t \in Projects : p = m[1] /\ t = m[2]
    BY WorkspaceAssumption
  <2>2. PICK new \in Seq(Observations) :
          /\ obs' = [obs EXCEPT ![t] = obs[t] \o new]
          /\ \A k \in 1..Len(new) : new[k].status # "gone"
          /\ \E at : CopiedFrom(p, t, new, at)
    BY <1>5, <2>1, MergeRows DEF Merged
  <2>3. PICK at : CopiedFrom(p, t, new, at)
    BY <2>2
  <2>4. /\ \A k \in 1..Len(new) : at[k] \in Stored(p) /\ new[k] = obs[p][at[k]]
        /\ \A k \in 1..Len(new) : obs[p][at[k]].sync \notin SyncsOf(t, Stored(t))
    BY <2>3 DEF CopiedFrom
  <2>5. /\ UNCHANGED unlinked /\ Lost \subseteq Lost'
        /\ t \in unlinked => \A o \in SyncsOf(p, Live(p)) : o \in SyncsOf(t, Stored(t)) \/ o \in Lost'
    BY <1>5, <2>1 DEF Merged, MergeTarget, Loses
  <2>6. \A k \in 1..Len(new) : new[k].status = "live" => new[k].sync \in SyncsOf(p, Live(p))
    BY <2>4 DEF SyncsOf, Live, Stored
  <2>7. t \in unlinked => \A k \in 1..Len(new) : new[k].status = "live" => new[k].sync \in Lost'
    BY <2>4, <2>5, <2>6
  <2> QED BY <1>2, <2>2, <2>5, <2>7
<1>6. ASSUME NEW p \in Projects, NEW ids, NEW status \in {"deleted", "gone"}, Deletes(p, ids, status)
      PROVE  Doomed'
  <2>1. Lost \subseteq Lost' /\ unlinked' \subseteq unlinked
    BY <1>6 DEF Deletes
  <2> QED BY <1>1, <1>6, <2>1, FewerDeletes
<1>7. ASSUME NEW m \in merging, Emptied(m)
      PROVE  Doomed'
  <2>1. /\ m \in Merges /\ Mark(m[1], Live(m[1]), "deleted")
        /\ Lost \subseteq Lost' /\ unlinked' \subseteq unlinked
    BY <1>7 DEF Emptied, MergeSource, Types, Rest
  <2> QED BY <1>1, <2>1, FewerSource
<1>8. ASSUME NEW p \in Projects, Unlinks(p)
      PROVE  Doomed'
  <2>1. \A q \in Projects : Live(q)' = Live(q) /\ obs'[q] = obs[q]
    BY <1>8, SameRows DEF Unlinks
  <2>2. Lost' = Lost \cup SyncsOf(p, Live(p)) /\ unlinked' = unlinked \cup {p} /\ unlinked \subseteq Projects
    BY <1>8 DEF Unlinks, Types, Rest
  <2>3. \A q \in unlinked' : SyncsOf(q, Live(q)) \subseteq Lost'
    BY <2>2 DEF Doomed
  <2> QED BY <2>1, <2>2, <2>3 DEF Doomed, SyncsOf
<1>9. ASSUME NEW ps \in SUBSET Projects, Empties(ps)
      PROVE  Doomed'
  <2>1. Lost \subseteq Lost' /\ unlinked' \subseteq unlinked
    BY <1>9 DEF Empties, Loses
  <2> QED BY <1>1, <1>9, <2>1, FewerFiles DEF Empties
<1> HIDE DEF At
<1> QED BY <1>3, <1>4, <1>5, <1>6, <1>7, <1>8, <1>9, RowSteps

-----------------------------------------------------------------------------
(* Where a row lives. *)

Living(q, o) == \E i \in Live(q) : obs[q][i].sync = o

\* While a merge is between its two commits, the target knows every live row of the
\* source.
Carried ==
  \A m \in merging : \A i \in Live(m[1]) : \E j \in Stored(m[2]) : obs[m[2]][j].sync = obs[m[1]][i].sync

\* No merge is between its commits on a project that can be written.
LEMMA LockedRows ==
    ASSUME NEW p, Writable(p), NEW m \in merging
    PROVE  m[1] # p /\ m[2] # p
BY DEF Writable, Locked

LEMMA CarriedStep ==
    ASSUME Types, Doomed, Carried, [Next]_vars
    PROVE  Carried'
<1> DEFINE At(m) ==
      \A i \in Live(m[1]) : \E j \in Stored(m[2]) : obs[m[2]][j].sync = obs[m[1]][i].sync
<1>1. ASSUME NEW p, Writable(p), \A q \in Projects : q # p => obs'[q] = obs[q], UNCHANGED merging
      PROVE  Carried'
  <2>1. ASSUME NEW m \in merging PROVE At(m)'
    <3>1. m[1] \in Projects /\ m[2] \in Projects /\ m[1] # p /\ m[2] # p
      BY <1>1, LockedRows, WorkspaceAssumption DEF Types, Rest
    <3>2. obs'[m[1]] = obs[m[1]] /\ obs'[m[2]] = obs[m[2]]
      BY <1>1, <3>1
    <3>3. Live(m[1])' = Live(m[1]) /\ Stored(m[2])' = Stored(m[2])
      BY <3>2, SameRows
    <3> QED BY <3>2, <3>3 DEF Carried
  <2> QED BY <1>1, <2>1 DEF Carried
<1>2. CASE Quiet
  BY <1>2 DEF Quiet, Carried, Live, Stored
<1>3. ASSUME NEW p \in Projects, NEW o \in SyncIds, Saves(p, o)
      PROVE  Carried'
  <2>1. obs \in [Projects -> Seq(Observations)]
    BY DEF Types, Tables
  <2>2. Writable(p) /\ UNCHANGED merging /\ \A q \in Projects : q # p => obs'[q] = obs[q]
    BY <1>3, <2>1 DEF Saves
  <2> QED BY <1>1, <2>2
<1>4. ASSUME NEW p \in Projects, NEW ids, NEW status \in {"deleted", "gone"}, Deletes(p, ids, status)
      PROVE  Carried'
  <2>1. Writable(p) /\ UNCHANGED merging
    BY <1>4 DEF Deletes
  <2> QED BY <1>1, <1>4, <2>1, FewerDeletes
<1>5. ASSUME NEW p \in Projects, Unlinks(p)
      PROVE  Carried'
  BY <1>5 DEF Unlinks, Carried, Live, Stored
<1>8. ASSUME NEW ps \in SUBSET Projects, Empties(ps)
      PROVE  Carried'
  <2>1. \A q \in Projects : q \notin ps => obs'[q] = obs[q]
    BY <1>8, FewerFiles DEF Empties
  <2>2. ASSUME NEW m \in merging' PROVE At(m)'
    <3>1. m \in merging /\ m[1] \in Projects \ ps /\ m[2] \in Projects \ ps
      BY <1>8, WorkspaceAssumption DEF Empties, Types, Rest
    <3>2. obs'[m[1]] = obs[m[1]] /\ obs'[m[2]] = obs[m[2]]
      BY <2>1, <3>1
    <3>3. Live(m[1])' = Live(m[1]) /\ Stored(m[2])' = Stored(m[2])
      BY <3>2, SameRows
    <3> QED BY <3>1, <3>2, <3>3 DEF Carried
  <2> QED BY <2>2 DEF Carried
<1>6. ASSUME NEW m \in Merges, Merged(m)
      PROVE  Carried'
  <2>1. PICK p \in Projects, t \in Projects : p = m[1] /\ t = m[2] /\ p # t
    BY WorkspaceAssumption
  <2>2. PICK new \in Seq(Observations) :
          /\ obs' = [obs EXCEPT ![t] = obs[t] \o new]
          /\ \A k \in 1..Len(new) : new[k].status # "gone"
          /\ \E at : CopiedFrom(p, t, new, at)
    BY <1>6, <2>1, MergeRows DEF Merged
  <2>3. PICK at : CopiedFrom(p, t, new, at)
    BY <2>2
  <2>4. /\ \A q \in Projects : More(q)
        /\ \A q \in Projects : q # t => obs'[q] = obs[q]
        /\ \A k \in 1..Len(new) :
             Len(obs[t]) + k \in Stored(t)' /\ obs'[t][Len(obs[t]) + k] = new[k]
    BY <2>2, MoreRows
  <2>5. Writable(p) /\ Writable(t) /\ merging' = merging \cup {<<p, t>>}
    BY <1>6, <2>1 DEF Merged, MergeTarget
  <2>6. obs'[p] = obs[p] /\ Live(p)' = Live(p)
    BY <2>1, <2>4, SameRows
  <2>7. ASSUME NEW n \in merging PROVE At(n)'
    <3>1. n[1] \in Projects /\ n[2] \in Projects /\ n[1] # t /\ n[2] # t
      BY <2>5, LockedRows, WorkspaceAssumption DEF Types, Rest
    <3>2. obs'[n[1]] = obs[n[1]] /\ obs'[n[2]] = obs[n[2]]
      BY <2>4, <3>1
    <3>3. Live(n[1])' = Live(n[1]) /\ Stored(n[2])' = Stored(n[2])
      BY <3>2, SameRows
    <3> QED BY <3>2, <3>3 DEF Carried
  <2>8. ASSUME NEW i \in Live(p)
        PROVE  \E j \in Stored(t)' : obs'[t][j].sync = obs[p][i].sync
    <3>1. i \in Stored(p)
      BY DEF Live, Stored
    <3>2. CASE obs[p][i].sync \in SyncsOf(t, Stored(t))
      <4>1. PICK j \in Stored(t) : obs[t][j].sync = obs[p][i].sync
        BY <3>2 DEF SyncsOf
      <4>2. j \in Stored(t)' /\ obs'[t][j] = obs[t][j]
        BY <2>4 DEF More
      <4> QED BY <4>1, <4>2
    <3>3. CASE obs[p][i].sync \notin SyncsOf(t, Stored(t))
      <4>1. PICK k \in 1..Len(new) : at[k] = i
        BY <2>3, <3>1, <3>3 DEF CopiedFrom
      <4>2. new[k] = obs[p][i]
        BY <2>3, <4>1 DEF CopiedFrom
      <4>3. Len(obs[t]) + k \in Stored(t)' /\ obs'[t][Len(obs[t]) + k] = new[k]
        BY <2>4
      <4> QED BY <4>2, <4>3
    <3> QED BY <3>2, <3>3
  <2>9. At(<<p, t>>)'
    <3>1. <<p, t>>[1] = p /\ <<p, t>>[2] = t
      OBVIOUS
    <3> QED BY <2>6, <2>8, <3>1
  <2> HIDE DEF At
  <2>10. \A n \in merging' : At(n)'
    BY <2>5, <2>7, <2>9
  <2> USE DEF At
  <2> QED BY <2>10 DEF Carried
<1>7. ASSUME NEW m \in merging, Emptied(m)
      PROVE  Carried'
  <2>1. m \in Merges /\ Mark(m[1], Live(m[1]), "deleted") /\ merging' \subseteq merging
    BY <1>7 DEF Emptied, MergeSource, Types, Rest
  <2>2. \A q \in Projects : Fewer(q) /\ Stored(q)' = Stored(q)
    BY <2>1, FewerSource
  <2>3. ASSUME NEW n \in merging PROVE At(n)'
    <3>1. PICK p \in Projects, t \in Projects : p = n[1] /\ t = n[2]
      BY WorkspaceAssumption DEF Types, Rest
    <3>2. ASSUME NEW i \in Live(p)'
          PROVE  \E j \in Stored(t)' : obs'[t][j].sync = obs'[p][i].sync
      <4>1. i \in Live(p) /\ obs'[p][i].sync = obs[p][i].sync
        BY <2>2, <3>2 DEF Fewer, SameRow, Live, Stored
      <4>2. PICK j \in Stored(t) : obs[t][j].sync = obs[p][i].sync
        BY <3>1, <4>1 DEF Carried
      <4>3. j \in Stored(t)' /\ obs'[t][j].sync = obs[t][j].sync
        BY <2>2 DEF Fewer, SameRow
      <4> QED BY <4>1, <4>2, <4>3
    <3> QED BY <3>1, <3>2
  <2> QED BY <2>1, <2>3 DEF Carried
<1> QED BY <1>2, <1>3, <1>4, <1>5, <1>6, <1>7, <1>8, RowSteps

-----------------------------------------------------------------------------
(* No row is lost. *)

\* A sync_id that was lost, or that lives where the rows of p end up.
Placed(down, p, o) == o \in Lost \/ \E q \in down[p] : Living(q, o)

Kept(down) ==
  \A p \in Projects : \A i \in Stored(p) : \A o : o = obs[p][i].sync => Placed(down, p, o)

LEMMA LostStays == ASSUME Types, Doomed, [Next]_vars PROVE Lost \subseteq Lost'
BY RowSteps DEF Quiet, Saves, Deletes, Merged, Emptied, Unlinks, Empties, Loses

\* Every step of the system leaves a sync_id placed that is.
LEMMA PlacedStep ==
    ASSUME Types, Doomed, Carried, [Next]_vars,
           NEW down \in [Projects -> SUBSET Projects], Settles(down), Kept(down),
           NEW p \in Projects, NEW o, Placed(down, p, o)
    PROVE  Placed(down, p, o)'
<1>1. CASE o \in Lost
  BY <1>1, LostStays DEF Placed
<1>2. ASSUME NEW q \in down[p], Living(q, o)
      PROVE  Placed(down, p, o)'
  <2>0. q \in Projects
    OBVIOUS
  <2>1. PICK i \in Live(q) : obs[q][i].sync = o
    BY <1>2 DEF Living
  <2>2. i \in Stored(q)
    BY DEF Live, Stored
  <2>3. ASSUME i \in Live(q)', obs'[q][i].sync = obs[q][i].sync
        PROVE  Placed(down, p, o)'
    BY <2>1, <2>3 DEF Placed, Living
  <2>4. ASSUME obs'[q] = obs[q]
        PROVE  Placed(down, p, o)'
    BY <2>3, <2>4, SameRows
  <2>5. ASSUME More(q)
        PROVE  Placed(down, p, o)'
    BY <2>2, <2>3, <2>5 DEF More
  <2>6. CASE Quiet
    BY <2>4, <2>6 DEF Quiet
  <2>7. ASSUME NEW r \in Projects, NEW x \in SyncIds, Saves(r, x)
        PROVE  Placed(down, p, o)'
    <3>1. PICK row \in Observations :
            row.sync = x /\ row.status = "live" /\ obs' = [obs EXCEPT ![r] = obs[r] \o <<row>>]
      BY <2>7 DEF Saves
    <3>a. <<row>> \in Seq(Observations)
      BY ONLY <3>1
    <3>2. PICK new \in Seq(Observations) : new = <<row>>
      BY ONLY <3>a
    <3>3. Len(new) = 1 /\ \A k \in 1..Len(new) : k = 1 /\ new[k] = row
      BY <3>2
    <3>4. \A k \in 1..Len(new) : new[k].status # "gone"
      BY <3>1, <3>3
    <3>5. obs' = [obs EXCEPT ![r] = obs[r] \o new]
      BY <3>1, <3>2
    <3>6. More(q)
      BY <2>0, <3>4, <3>5, MoreRows
    <3> QED BY <2>5, <3>6
  <2>8. ASSUME NEW r \in Projects, NEW ids, NEW status \in {"deleted", "gone"}, Deletes(r, ids, status)
        PROVE  Placed(down, p, o)'
    <3>1. /\ \A s \in Projects : Fewer(s)
          /\ \A s \in Projects : s # r => obs'[s] = obs[s]
          /\ Live(r)' = Live(r) \ ids
      BY <2>8, FewerDeletes
    <3>2. CASE q # r
      BY <2>0, <2>4, <3>1, <3>2
    <3>3. CASE q = r /\ i \notin ids
      <4>1. i \in Live(q)'
        BY <3>1, <3>3
      <4>2. obs'[q][i].sync = obs[q][i].sync
        BY <2>0, <3>1, <4>1 DEF Fewer, SameRow, Live, Stored
      <4> QED BY <2>3, <4>1, <4>2
    <3>4. CASE q = r /\ i \in ids
      <4>1. o \in SyncsOf(r, ids)
        BY <2>1, <3>4 DEF SyncsOf
      <4>2. o \in Lost'
        BY <2>8, <4>1 DEF Deletes
      <4> QED BY <4>2 DEF Placed
    <3> QED BY <3>2, <3>3, <3>4
  <2>9. ASSUME NEW m \in Merges, Merged(m)
        PROVE  Placed(down, p, o)'
    <3>1. PICK f \in Projects, t \in Projects : f = m[1] /\ t = m[2] /\ f # t
      BY WorkspaceAssumption
    <3>2. PICK new \in Seq(Observations) :
            /\ obs' = [obs EXCEPT ![t] = obs[t] \o new]
            /\ \A k \in 1..Len(new) : new[k].status # "gone"
      BY <2>9, <3>1, MergeRows DEF Merged
    <3>3. More(q)
      BY <2>0, <3>2, MoreRows
    <3> QED BY <2>5, <3>3
  <2>10. ASSUME NEW m \in merging, Emptied(m)
         PROVE  Placed(down, p, o)'
    <3>1. m \in Merges /\ Mark(m[1], Live(m[1]), "deleted") /\ Lost' = Lost
      BY <2>10 DEF Emptied, MergeSource, Types, Rest
    <3>2. PICK f \in Projects, t \in Projects : f = m[1] /\ t = m[2] /\ f # t
      BY <3>1, WorkspaceAssumption
    <3>3. \A s \in Projects : s # f => obs'[s] = obs[s]
      BY <3>1, <3>2, FewerSource
    <3>4. CASE q # f
      BY <2>0, <2>4, <3>3, <3>4
    <3>5. CASE q = f
      <4>1. PICK j \in Stored(t) : obs[t][j].sync = o
        BY <2>1, <3>2, <3>5 DEF Carried
      <4>2. Placed(down, t, o)
        BY <4>1 DEF Kept
      <4>3. CASE o \in Lost
        BY <3>1, <4>3 DEF Placed
      <4>4. ASSUME NEW s \in down[t], Living(s, o)
            PROVE  Placed(down, p, o)'
        <5>1. s \in Projects /\ s # f /\ s \in down[f] /\ down[f] \subseteq down[p]
          BY <3>1, <3>2, <3>5 DEF Settles
        <5>2. Live(s)' = Live(s) /\ obs'[s] = obs[s]
          BY <3>3, <5>1, SameRows
        <5>3. Living(s, o)'
          BY <4>4, <5>2 DEF Living
        <5> QED BY <5>1, <5>3 DEF Placed
      <4> QED BY <4>2, <4>3, <4>4 DEF Placed
    <3> QED BY <3>4, <3>5
  <2>11. ASSUME NEW r \in Projects, Unlinks(r)
         PROVE  Placed(down, p, o)'
    BY <2>4, <2>11 DEF Unlinks
  <2>12. ASSUME NEW ps \in SUBSET Projects, Empties(ps)
         PROVE  Placed(down, p, o)'
    <3>1. \A s \in Projects : s \notin ps => obs'[s] = obs[s]
      BY <2>12, FewerFiles DEF Empties
    <3>2. CASE q \notin ps
      BY <2>0, <2>4, <3>1, <3>2
    <3>3. CASE q \in ps
      <4>1. o \in SyncsOf(q, Live(q))
        BY <2>1 DEF SyncsOf
      <4>2. o \in Lost'
        BY <2>12, <3>3, <4>1 DEF Empties
      <4> QED BY <4>2 DEF Placed
    <3> QED BY <3>2, <3>3
  <2> QED BY <2>6, <2>7, <2>8, <2>9, <2>10, <2>11, <2>12, RowSteps
<1> QED BY <1>1, <1>2 DEF Placed

LEMMA KeptStep ==
    ASSUME Types, Doomed, Unique, Carried, [Next]_vars,
           NEW down \in [Projects -> SUBSET Projects], Settles(down), Kept(down)
    PROVE  Kept(down)'
<1>1. ASSUME \A q \in Projects : Fewer(q)
      PROVE  Kept(down)'
  <2>1. ASSUME NEW q \in Projects, NEW i \in Stored(q)', NEW o, o = obs'[q][i].sync
        PROVE  Placed(down, q, o)'
    <3>1. i \in Stored(q) /\ obs'[q][i].sync = obs[q][i].sync
      BY <1>1 DEF Fewer, SameRow
    <3>2. Placed(down, q, o)
      BY <2>1, <3>1 DEF Kept
    <3> QED BY <3>2, PlacedStep
  <2> QED BY <2>1 DEF Kept
<1>2. ASSUME NEW p \in Projects, NEW new \in Seq(Observations),
             obs' = [obs EXCEPT ![p] = obs[p] \o new],
             \A k \in 1..Len(new) : new[k].status # "gone",
             \A k \in 1..Len(new) : new[k].status = "live" \/ Placed(down, p, new[k].sync)
      PROVE  Kept(down)'
  <2>1. /\ \A q \in Projects : More(q)
        /\ \A q \in Projects : q # p => obs'[q] = obs[q]
        /\ \A i \in Stored(p)' :
             \/ i \in Stored(p) /\ obs'[p][i] = obs[p][i]
             \/ i - Len(obs[p]) \in 1..Len(new) /\ obs'[p][i] = new[i - Len(obs[p])]
    BY <1>2, MoreRows
  <2>2. ASSUME NEW q \in Projects, NEW i \in Stored(q), obs'[q][i] = obs[q][i],
               NEW o, o = obs'[q][i].sync
        PROVE  Placed(down, q, o)'
    <3>1. Placed(down, q, o)
      BY <2>2 DEF Kept
    <3> QED BY <3>1, PlacedStep
  <2>3. ASSUME NEW i \in Stored(p)', NEW k \in 1..Len(new), obs'[p][i] = new[k],
               NEW o, o = obs'[p][i].sync
        PROVE  Placed(down, p, o)'
    <3>1. CASE new[k].status = "live"
      <4>1. i \in Live(p)'
        BY <2>3, <3>1 DEF Live, Stored
      <4>2. p \in down[p]
        BY DEF Settles
      <4> QED BY <2>3, <4>1, <4>2 DEF Placed, Living
    <3>2. CASE Placed(down, p, new[k].sync)
      <4>1. Placed(down, p, o)
        BY <2>3, <3>2
      <4> QED BY <4>1, PlacedStep
    <3> QED BY <1>2, <3>1, <3>2
  <2>4. ASSUME NEW q \in Projects, q # p, NEW i \in Stored(q)', NEW o, o = obs'[q][i].sync
        PROVE  Placed(down, q, o)'
    <3>1. i \in Stored(q) /\ obs'[q][i] = obs[q][i]
      BY <2>1, <2>4, SameRows
    <3> QED BY <2>2, <2>4, <3>1
  <2>5. ASSUME NEW i \in Stored(p)', NEW o, o = obs'[p][i].sync
        PROVE  Placed(down, p, o)'
    BY <2>1, <2>2, <2>3, <2>5
  <2>6. ASSUME NEW q \in Projects, NEW i \in Stored(q)', NEW o, o = obs'[q][i].sync
        PROVE  Placed(down, q, o)'
    BY <2>4, <2>5, <2>6
  <2> QED BY <2>6 DEF Kept
<1>3. CASE Quiet
  BY <1>1, <1>3, SameRows DEF Quiet
<1>4. ASSUME NEW p \in Projects, NEW o \in SyncIds, Saves(p, o)
      PROVE  Kept(down)'
  <2>1. PICK row \in Observations :
          row.sync = o /\ row.status = "live" /\ obs' = [obs EXCEPT ![p] = obs[p] \o <<row>>]
    BY <1>4 DEF Saves
  <2>a. <<row>> \in Seq(Observations)
    BY ONLY <2>1
  <2>2. PICK new \in Seq(Observations) : new = <<row>>
    BY ONLY <2>a
  <2>3. Len(new) = 1 /\ \A k \in 1..Len(new) : k = 1 /\ new[k] = row
    BY <2>2
  <2>4. \A k \in 1..Len(new) : new[k].status = "live" /\ new[k].status # "gone"
    BY <2>1, <2>3
  <2>5. obs' = [obs EXCEPT ![p] = obs[p] \o new]
    BY <2>1, <2>2
  <2> QED BY <1>2, <2>4, <2>5
<1>5. ASSUME NEW m \in Merges, Merged(m)
      PROVE  Kept(down)'
  <2>1. PICK p \in Projects, t \in Projects : p = m[1] /\ t = m[2] /\ p # t
    BY WorkspaceAssumption
  <2>2. PICK new \in Seq(Observations) :
          /\ obs' = [obs EXCEPT ![t] = obs[t] \o new]
          /\ \A k \in 1..Len(new) : new[k].status # "gone"
          /\ \E at : CopiedFrom(p, t, new, at)
    BY <1>5, <2>1, MergeRows DEF Merged
  <2>3. PICK at : CopiedFrom(p, t, new, at)
    BY <2>2
  <2>4. \A k \in 1..Len(new) : at[k] \in Stored(p) /\ new[k] = obs[p][at[k]]
    BY <2>3 DEF CopiedFrom
  <2>5. ASSUME NEW k \in 1..Len(new)
        PROVE  new[k].status = "live" \/ Placed(down, t, new[k].sync)
    <3>1. PICK i \in Stored(p) : new[k] = obs[p][i]
      BY <2>4
    <3>2. Placed(down, p, obs[p][i].sync)
      BY DEF Kept
    <3>3. CASE obs[p][i].sync \in Lost
      BY <3>1, <3>3 DEF Placed
    <3>4. ASSUME NEW q \in down[p], Living(q, obs[p][i].sync)
          PROVE  new[k].status = "live" \/ Placed(down, t, new[k].sync)
      <4>1. q = p \/ q \in down[t]
        BY <2>1 DEF Settles
      <4>2. CASE q \in down[t]
        BY <3>1, <3>4, <4>2 DEF Placed
      <4>3. CASE q = p
        <5>1. PICK j \in Live(p) : obs[p][j].sync = obs[p][i].sync
          BY <3>4, <4>3 DEF Living
        <5>2. j \in Stored(p) /\ obs[p][j].status = "live"
          BY DEF Live, Stored
        <5>3. i = j
          BY <5>1, <5>2 DEF Unique
        <5> QED BY <3>1, <5>2, <5>3
      <4> QED BY <4>1, <4>2, <4>3
    <3> QED BY <3>2, <3>3, <3>4 DEF Placed
  <2> QED BY <1>2, <2>2, <2>5
<1>6. ASSUME NEW p \in Projects, NEW ids, NEW status \in {"deleted", "gone"}, Deletes(p, ids, status)
      PROVE  Kept(down)'
  BY <1>1, <1>6, FewerDeletes
<1>7. ASSUME NEW m \in merging, Emptied(m)
      PROVE  Kept(down)'
  <2>1. m \in Merges /\ Mark(m[1], Live(m[1]), "deleted")
    BY <1>7 DEF Emptied, MergeSource, Types, Rest
  <2> QED BY <1>1, <2>1, FewerSource
<1>8. ASSUME NEW p \in Projects, Unlinks(p)
      PROVE  Kept(down)'
  BY <1>1, <1>8, SameRows DEF Unlinks
<1>9. ASSUME NEW ps \in SUBSET Projects, Empties(ps)
      PROVE  Kept(down)'
  BY <1>1, <1>9, FewerFiles DEF Empties
<1> QED BY <1>3, <1>4, <1>5, <1>6, <1>7, <1>8, <1>9, RowSteps

LEMMA SomewhereStep ==
    ASSUME Types, Doomed, Carried, [Next]_vars, SavedIsSomewhere,
           NEW down \in [Projects -> SUBSET Projects], Settles(down), Kept(down)
    PROVE  SavedIsSomewhere'
<1>1. ASSUME NEW o \in saved' \ Lost'
      PROVE  \E q \in Projects : Living(q, o)'
  <2>1. CASE o \in saved
    <3>1. Lost \subseteq Lost'
      BY LostStays
    <3>2. PICK p \in Projects : Living(p, o)
      BY <2>1, <3>1 DEF SavedIsSomewhere, SyncsOf, Living
    <3>3. Placed(down, p, o)
      BY <3>2 DEF Placed, Settles
    <3>4. Placed(down, p, o)'
      BY <3>3, PlacedStep
    <3>5. PICK q \in down[p] : Living(q, o)'
      BY <3>4 DEF Placed
    <3> QED BY <3>5
  <2>2. CASE o \notin saved
    <3>1. PICK p \in Projects, x \in SyncIds : Saves(p, x)
      BY <2>2, RowSteps DEF Quiet, Deletes, Merged, MergeTarget, Emptied, MergeSource, Unlinks, Empties
    <3>2. PICK row \in Observations :
            row.sync = x /\ row.status = "live" /\ obs' = [obs EXCEPT ![p] = obs[p] \o <<row>>]
      BY <3>1 DEF Saves
    <3>a. <<row>> \in Seq(Observations)
      BY ONLY <3>2
    <3>3. PICK new \in Seq(Observations) : new = <<row>>
      BY ONLY <3>a
    <3>4. Len(new) = 1 /\ \A k \in 1..Len(new) : k = 1 /\ new[k] = row
      BY <3>3
    <3>5. \A k \in 1..Len(new) : new[k].status = "live" /\ new[k].status # "gone"
      BY <3>2, <3>4
    <3>6. obs' = [obs EXCEPT ![p] = obs[p] \o new]
      BY <3>2, <3>3
    <3>7. \A k \in 1..Len(new) :
            Len(obs[p]) + k \in Live(p)' /\ obs'[p][Len(obs[p]) + k] = new[k]
      BY <3>5, <3>6, MoreRows
    <3>8. Living(p, x)'
      <4>1. 1 \in 1..Len(new) /\ new[1].sync = x
        BY <3>2, <3>4
      <4> QED BY <3>7, <4>1 DEF Living
    <3>9. o = x
      BY <2>2, <3>1 DEF Saves
    <3> QED BY <3>8, <3>9
  <2> QED BY <2>1, <2>2
<1> QED BY <1>1 DEF SavedIsSomewhere, SyncsOf, Living

\* The rows of the projects: what holds whatever is merged into what.
RowsInv == Types /\ Doomed /\ Unique /\ Known /\ Carried

LEMMA RowsInductive == Spec => []RowsInv
<1>1. Init => RowsInv
  <2>1. Init => Types
    <3>1. <<>> \in Notes /\ <<>> \in Seq(Observations)
      BY NoNotes
    <3>2. MaxTime \in Nat /\ MaxCalls \in Nat
      BY WorkspaceAssumption
    <3> QED BY <3>1, <3>2 DEF Init, Types, Tables, Rest
  <2>2. Init => \A p \in Projects : Stored(p) = {}
    BY DEF Init, Stored
  <2>3. Init => Doomed /\ Unique /\ Known /\ Carried
    BY <2>2 DEF Init, Doomed, Unique, Known, Carried, Lost
  <2> QED BY <2>1, <2>3 DEF RowsInv
<1>2. RowsInv /\ [Next]_vars => RowsInv'
  BY TablesStep, RestStep, DoomedStep, UniqueStep, KnownStep, CarriedStep DEF RowsInv, Types
<1> QED BY <1>1, <1>2, PTL DEF Spec

\* An observation that was saved is live in some project, whatever saves, deletes, merges,
\* crashes between their two commits, evictions and hard deletes do, unless somebody deleted
\* it, it was written to a file that a hard delete had unlinked, or prune deleted its project,
\* which it had listed as empty; as long as no project is merged into one that comes back to
\* it, or into two that are merged with one another.
THEOREM SavedRowsAreSomewhere ==
    ASSUME NEW down \in [Projects -> SUBSET Projects], Settles(down)
    PROVE  Spec => []SavedIsSomewhere
<1> DEFINE Inv == Kept(down) /\ SavedIsSomewhere
<1>1. Init => Inv
  <2>1. Init => \A p \in Projects : Stored(p) = {}
    BY DEF Init, Stored
  <2>2. Init => saved = {}
    BY DEF Init
  <2> QED BY <2>1, <2>2 DEF Kept, SavedIsSomewhere
<1>2. RowsInv /\ Inv /\ [Next]_vars => Inv'
  BY KeptStep, SomewhereStep DEF RowsInv
<1>3. Inv => SavedIsSomewhere
  OBVIOUS
<1> QED BY <1>1, <1>2, <1>3, RowsInductive, PTL DEF Spec

-----------------------------------------------------------------------------
(* The references of the schema. *)

Refers ==
  \A p \in Projects :
    /\ \A i \in Stored(p) : obs[p][i].session \in DOMAIN sessions[p]
    /\ \A q \in prompts[p] : q.session \in DOMAIN sessions[p]

LEMMA RefersStep ==
    ASSUME Types, Doomed, Refers, [Next]_vars
    PROVE  Refers'
<1>0. /\ sessions \in [Projects -> Notes] /\ obs \in [Projects -> Seq(Observations)]
      /\ prompts \in [Projects -> SUBSET Prompts]
  BY DEF Types, Tables
<1>1. ASSUME \A q \in Projects : Fewer(q),
             \A q \in Projects : DOMAIN sessions[q] \subseteq DOMAIN sessions'[q],
             \A q \in Projects : prompts'[q] \subseteq prompts[q]
      PROVE  Refers'
  BY <1>1 DEF Refers, Fewer, SameRow
<1>2. ASSUME UNCHANGED obs, UNCHANGED prompts,
             \A q \in Projects : DOMAIN sessions[q] \subseteq DOMAIN sessions'[q]
      PROVE  Refers'
  BY <1>1, <1>2, SameRows
<1>3. ASSUME UNCHANGED sessions, UNCHANGED prompts, \A q \in Projects : Fewer(q)
      PROVE  Refers'
  BY <1>1, <1>3
<1>4. CASE \/ Tick \/ PruneList \/ ListPage \/ UNCHANGED vars
           \/ \E p \in Projects, s \in SessionIds : CheckSession(p, s)
           \/ \E p \in Projects : ListBegin(p) \/ PruneSkips(p)
  BY <1>2, <1>4 DEF vars, Tick, CheckSession, PruneList, PruneSkips, ListBegin, ListPage
<1>5. ASSUME NEW p \in Projects, NEW s \in SessionIds, StartSession(p, s)
      PROVE  Refers'
  <2>1. PICK new : new = [x \in {s} |-> [ended |-> FALSE, summary |-> None]]
    OBVIOUS
  <2>2. sessions[p] \in Notes /\ new \in Notes
    BY <1>0, <2>1, NewNotes
  <2>3. DOMAIN sessions[p] \subseteq DOMAIN Added(sessions[p], new)
    BY <2>2, AddedNotes
  <2>4. sessions' = [sessions EXCEPT ![p] = Added(sessions[p], new)]
    BY <1>5, <2>1 DEF StartSession, UpsertSession
  <2>5. \A q \in Projects : DOMAIN sessions[q] \subseteq DOMAIN sessions'[q]
    BY <1>0, <2>3, <2>4
  <2> QED BY <1>2, <1>5, <2>5 DEF StartSession
<1>6. ASSUME NEW p \in Projects, NEW s \in SessionIds, NEW summary \in {None, "text"},
             EndSession(p, s, summary)
      PROVE  Refers'
  <2>1. \A q \in Projects : DOMAIN sessions[q] \subseteq DOMAIN sessions'[q]
    BY <1>0, <1>6 DEF EndSession, SetEnded
  <2> QED BY <1>2, <1>6, <2>1 DEF EndSession
<1>7. ASSUME NEW p \in Projects, NEW s \in SessionIds, SaveSessionSummary(p, s)
      PROVE  Refers'
  <2>1. \A q \in Projects : DOMAIN sessions[q] \subseteq DOMAIN sessions'[q]
    BY <1>0, <1>7 DEF SaveSessionSummary, SetSummary
  <2> QED BY <1>2, <1>7, <2>1 DEF SaveSessionSummary
<1>8. CASE DeleteSession
  <2>1. PICK p \in Projects, s \in SessionIds : p = deleting[1] /\ s = deleting[2]
    BY <1>8 DEF DeleteSession, Types, Rest
  <2>2. UNCHANGED obs /\ UNCHANGED prompts
    BY <1>8 DEF DeleteSession
  <2>3. CASE Referenced(p, s)
    BY <1>2, <1>8, <2>1, <2>2, <2>3 DEF DeleteSession
  <2>4. CASE ~Referenced(p, s)
    <3>1. sessions' = [sessions EXCEPT ![p] = Without(sessions[p], s)]
      BY <1>8, <2>1, <2>4 DEF DeleteSession
    <3>2. DOMAIN sessions'[p] = DOMAIN sessions[p] \ {s}
      BY <1>0, <3>1, WithoutNotes
    <3>3. \A q \in Projects : q # p => sessions'[q] = sessions[q]
      BY <1>0, <3>1
    <3>4. \A q \in Projects : Stored(q)' = Stored(q) /\ obs'[q] = obs[q] /\ prompts'[q] = prompts[q]
      BY <2>2, SameRows
    <3>5. /\ \A i \in Stored(p) : obs[p][i].session # s
          /\ \A q \in prompts[p] : q.session # s
      BY <2>4 DEF Referenced
    <3>6. /\ \A i \in Stored(p)' : obs'[p][i].session \in DOMAIN sessions'[p]
          /\ \A q \in prompts'[p] : q.session \in DOMAIN sessions'[p]
      BY <3>2, <3>4, <3>5 DEF Refers
    <3>7. ASSUME NEW q \in Projects, q # p
          PROVE  /\ \A i \in Stored(q)' : obs'[q][i].session \in DOMAIN sessions'[q]
                 /\ \A r \in prompts'[q] : r.session \in DOMAIN sessions'[q]
      BY <3>3, <3>4, <3>7 DEF Refers
    <3> QED BY <3>6, <3>7 DEF Refers
  <2> QED BY <2>3, <2>4
\* Rows are appended whose sessions are there.
<1>9. ASSUME NEW p \in Projects, NEW new \in Seq(Observations),
             obs' = [obs EXCEPT ![p] = obs[p] \o new],
             \A k \in 1..Len(new) : new[k].status # "gone" /\ new[k].session \in DOMAIN sessions'[p],
             \A q \in Projects : DOMAIN sessions[q] \subseteq DOMAIN sessions'[q],
             \A q \in Projects : \A r \in prompts'[q] : r.session \in DOMAIN sessions'[q]
      PROVE  Refers'
  <2>0. \A k \in 1..Len(new) : new[k].status # "gone"
    BY <1>9
  <2>1. /\ \A q \in Projects : q # p => obs'[q] = obs[q]
        /\ \A i \in Stored(p)' :
             \/ i \in Stored(p) /\ obs'[p][i] = obs[p][i]
             \/ i - Len(obs[p]) \in 1..Len(new) /\ obs'[p][i] = new[i - Len(obs[p])]
    BY <1>9, <2>0, MoreRows
  <2>2. ASSUME NEW i \in Stored(p)' PROVE obs'[p][i].session \in DOMAIN sessions'[p]
    BY <1>9, <2>1 DEF Refers
  <2>3. ASSUME NEW q \in Projects, q # p, NEW i \in Stored(q)'
        PROVE  obs'[q][i].session \in DOMAIN sessions'[q]
    <3>1. i \in Stored(q) /\ obs'[q] = obs[q]
      BY <2>1, <2>3, SameRows
    <3> QED BY <1>9, <3>1 DEF Refers
  <2> QED BY <1>9, <2>2, <2>3 DEF Refers
<1>10. ASSUME NEW p \in Projects, NEW s \in SessionIds, NEW o \in SyncIds, SaveObservation(p, o, s)
       PROVE  Refers'
  <2>1. PICK row : row = [sync |-> o, session |-> s, at |-> clock, status |-> "live"]
    OBVIOUS
  <2>2. row \in Observations /\ row.session = s /\ row.status = "live"
    BY <2>1 DEF Observations, Types, Rest
  <2>3. <<row>> \in Seq(Observations)
    BY <2>2
  <2>4. PICK new \in Seq(Observations) : new = <<row>>
    BY ONLY <2>3
  <2>5. Len(new) = 1 /\ \A k \in 1..Len(new) : k = 1 /\ new[k] = row
    BY <2>4
  <2>6. obs' = [obs EXCEPT ![p] = obs[p] \o new]
    <3>1. obs' = [obs EXCEPT ![p] = Append(obs[p], row)]
      BY <1>10, <2>1 DEF SaveObservation
    <3>2. obs[p] \in Seq(Observations)
      BY <1>0
    <3>3. Append(obs[p], row) = obs[p] \o <<row>>
      BY ONLY <2>2, <3>2
    <3> QED BY <2>4, <3>1, <3>3
  <2>7. UNCHANGED sessions /\ UNCHANGED prompts /\ s \in DOMAIN sessions[p]
    BY <1>10 DEF SaveObservation
  <2>8. \A k \in 1..Len(new) : new[k].status # "gone" /\ new[k].session \in DOMAIN sessions'[p]
    BY <2>2, <2>5, <2>7
  <2>9. \A q \in Projects : \A r \in prompts'[q] : r.session \in DOMAIN sessions'[q]
    BY <2>7 DEF Refers
  <2> QED BY <1>9, <2>6, <2>7, <2>8, <2>9
<1>11. ASSUME NEW p \in Projects, NEW m, MergeProjects(p, m), <<p, m>> \in Merges
       PROVE  Refers'
  <2>1. m \in Projects /\ p # m
    BY <1>11, WorkspaceAssumption
  <2>2. PICK t \in Projects : t = m /\ p # t
    BY <2>1
  <2>3. MergeTarget(p, t)
    BY <1>11, <2>2 DEF MergeProjects
  <2>4. PICK new \in Seq(Observations) :
          /\ obs' = [obs EXCEPT ![t] = obs[t] \o new]
          /\ \A k \in 1..Len(new) : new[k].status # "gone"
          /\ \E at : CopiedFrom(p, t, new, at)
    <3>1. <<p, t>>[1] = p /\ <<p, t>>[2] = t /\ <<p, t>> \in Merges
      BY <1>11, <2>2
    <3> QED BY <2>3, <3>1, MergeRows
  <2>5. PICK at : CopiedFrom(p, t, new, at)
    BY <2>4
  <2>6. \A k \in 1..Len(new) : at[k] \in Stored(p) /\ new[k] = obs[p][at[k]]
    BY <2>5 DEF CopiedFrom
  <2>7. sessions' = [sessions EXCEPT ![t] = Added(sessions[t], sessions[p])]
    BY <2>3 DEF MergeTarget
  <2>8. DOMAIN sessions'[t] = DOMAIN sessions[t] \cup DOMAIN sessions[p]
    BY <1>0, <2>7, AddedNotes
  <2>9. \A q \in Projects : q # t => sessions'[q] = sessions[q]
    BY <1>0, <2>7
  <2>10. \A k \in 1..Len(new) : new[k].session \in DOMAIN sessions'[t]
    BY <2>6, <2>8 DEF Refers
  <2>11. prompts'[t] \subseteq prompts[t] \cup prompts[p]
         /\ \A q \in Projects : q # t => prompts'[q] = prompts[q]
    BY <1>0, <2>3 DEF MergeTarget
  <2>12. ASSUME NEW q \in Projects, NEW r \in prompts'[q] PROVE r.session \in DOMAIN sessions'[q]
    BY <2>8, <2>9, <2>11 DEF Refers
  <2>13. \A q \in Projects : DOMAIN sessions[q] \subseteq DOMAIN sessions'[q]
    BY <2>8, <2>9
  <2> QED BY <1>9, <2>4, <2>10, <2>12, <2>13
<1>12. ASSUME NEW p \in Projects, NEW i \in DOMAIN obs[p], NEW status \in {"deleted", "gone"},
              DeleteObservation(p, i, status)
       PROVE  Refers'
  <2>1. i \in Stored(p) /\ (status = "gone" \/ i \in Live(p))
    BY <1>0, <1>12, RowTypes DEF DeleteObservation
  <2>2. Deletes(p, {i}, status)
    BY <1>12, <2>1 DEF DeleteObservation, Deletes, work, Lost
  <2> QED BY <1>3, <1>12, <2>2, FewerDeletes DEF DeleteObservation
<1>13. ASSUME NEW p \in Projects, SoftDeleteProject(p)
       PROVE  Refers'
  <2>1. Live(p) \subseteq Stored(p) /\ Stored(p) \subseteq DOMAIN obs[p]
    BY <1>0, RowTypes
  <2>2. Deletes(p, Live(p), "deleted")
    BY <1>13, <2>1 DEF SoftDeleteProject, Deletes, work, Lost
  <2> QED BY <1>3, <1>13, <2>2, FewerDeletes DEF SoftDeleteProject
<1>14. ASSUME NEW p \in Projects, NEW s \in SessionIds, NEW q \in PromptIds, SavePrompt(p, q, s)
       PROVE  Refers'
  <2>1. UNCHANGED sessions /\ UNCHANGED obs /\ s \in DOMAIN sessions[p]
    BY <1>14 DEF SavePrompt
  <2>2. /\ prompts'[p] = prompts[p] \cup {[sync |-> q, session |-> s]}
        /\ \A r \in Projects : r # p => prompts'[r] = prompts[r]
    BY <1>0, <1>14 DEF SavePrompt, InsertPrompt
  <2>3. ASSUME NEW r \in Projects, NEW x \in prompts'[r] PROVE x.session \in DOMAIN sessions'[r]
    BY <2>1, <2>2 DEF Refers
  <2>4. ASSUME NEW r \in Projects, NEW i \in Stored(r)' PROVE obs'[r][i].session \in DOMAIN sessions'[r]
    BY <2>1, SameRows DEF Refers
  <2> QED BY <2>3, <2>4 DEF Refers
<1>15. ASSUME NEW p \in Projects, NEW q \in prompts[p], DeletePrompt(p, q)
       PROVE  Refers'
  <2>1. UNCHANGED sessions /\ UNCHANGED obs /\ \A r \in Projects : prompts'[r] \subseteq prompts[r]
    BY <1>0, <1>15 DEF DeletePrompt, RemovePrompt
  <2> QED BY <1>1, <2>1, SameRows
<1>16. ASSUME NEW m \in merging, MergeSource(m)
       PROVE  Refers'
  <2>1. m \in Merges /\ Mark(m[1], Live(m[1]), "deleted") /\ UNCHANGED sessions /\ UNCHANGED prompts
    BY <1>16 DEF MergeSource, Types, Rest
  <2> QED BY <1>3, <2>1, FewerSource
<1>17. ASSUME NEW ps, Vanish(ps)
       PROVE  Refers'
  <2>1. \A q \in Projects : q \in ps => Stored(q)' = {} /\ prompts'[q] = {}
    BY <1>0, <1>17, FewerFiles DEF Vanish
  <2>2. \A q \in Projects : q \notin ps =>
          obs'[q] = obs[q] /\ prompts'[q] = prompts[q] /\ sessions'[q] = sessions[q]
    BY <1>0, <1>17 DEF Vanish
  <2>3. ASSUME NEW q \in Projects, q \notin ps
        PROVE  /\ \A i \in Stored(q)' : obs'[q][i].session \in DOMAIN sessions'[q]
               /\ \A r \in prompts'[q] : r.session \in DOMAIN sessions'[q]
    BY <2>2, <2>3, SameRows DEF Refers
  <2> QED BY <2>1, <2>3 DEF Refers
<1>19. ASSUME NEW p \in Projects, RemoveFiles(p) \/ Evict(p)
       PROVE  Refers'
  <2>1. Vanish({p}) \/ (UNCHANGED sessions /\ UNCHANGED obs /\ UNCHANGED prompts)
    BY <1>19 DEF RemoveFiles, Evict, VanishOne
  <2> QED BY <1>3, <1>17, <2>1, SameRows
<1>20. CASE Crash
  BY <1>17, <1>20 DEF Crash
<1>18. ASSUME NEW m \in Merges, MergeProjects(m[1], m[2])
       PROVE  Refers'
  <2>1. m \in Projects \X Projects
    BY WorkspaceAssumption
  <2>2. <<m[1], m[2]>> = m /\ m[1] \in Projects
    BY ONLY <2>1
  <2> QED BY <1>11, <1>18, <2>2
<1> QED
  BY <1>4, <1>5, <1>6, <1>7, <1>8, <1>10, <1>12, <1>13, <1>14, <1>15, <1>16, <1>18, <1>19, <1>20
     DEF Next, HardDeleteProject, PruneDelete

\* The types, the references of the schema, and one row to a sync_id.
THEOREM WorkspaceTypeCorrect == Spec => []TypeOK
<1> DEFINE Inv == RowsInv /\ Refers
<1>1. Init => Refers
  <2>1. Init => \A p \in Projects : Stored(p) = {} /\ prompts[p] = {}
    BY DEF Init, Stored
  <2> QED BY <2>1 DEF Refers
<1>2. RowsInv /\ Refers /\ [Next]_vars => Refers'
  BY RefersStep DEF RowsInv
<1>3. RowsInv /\ Refers => TypeOK
  <2> SUFFICES ASSUME RowsInv, Refers PROVE TypeOK
    OBVIOUS
  <2>1. Types /\ Unique /\ Known
    BY DEF RowsInv
  <2>2. ASSUME NEW p \in Projects
        PROVE  /\ DOMAIN sessions[p] \subseteq SessionIds
               /\ \A s \in DOMAIN sessions[p] : sessions[p][s] \in Sessions
               /\ \A i \in DOMAIN obs[p] : obs[p][i] \in Observations
               /\ \A i \in Stored(p) : obs[p][i].session \in DOMAIN sessions[p]
               /\ \A q \in prompts[p] : q.sync \in PromptIds /\ q.session \in DOMAIN sessions[p]
    <3>1. PICK D \in SUBSET SessionIds : sessions[p] \in [D -> Sessions]
      BY <2>1, NotesAre DEF Types, Tables
    <3>2. \A i \in DOMAIN obs[p] : obs[p][i] \in Observations
      BY <2>1, RowTypes DEF Types, Tables
    <3>3. \A q \in prompts[p] : q.sync \in PromptIds
      BY <2>1 DEF Types, Tables, Prompts
    <3> QED BY <3>1, <3>2, <3>3 DEF Refers
  <2>3. ASSUME NEW p \in Projects
        PROVE  Cardinality(SyncsOf(p, Stored(p))) = Cardinality(Stored(p))
    <3> DEFINE f == [i \in Stored(p) |-> obs[p][i].sync]
               T == SyncsOf(p, Stored(p))
    <3>1. f \in [Stored(p) -> T] /\ \A z \in T : \E i \in Stored(p) : f[i] = z
      BY DEF SyncsOf
    <3>2. \A i, j \in Stored(p) : f[i] = f[j] => i = j
      BY <2>1 DEF Unique
    <3>3. IsFiniteSet(Stored(p))
      BY <2>1, RowTypes DEF Types, Tables
    <3> HIDE DEF f, T
    <3>4. Cardinality(Stored(p)) = Cardinality(T)
      BY <3>1, <3>2, <3>3, OneToOne
    <3> QED BY <3>4 DEF T
  <2> QED BY <2>1, <2>2, <2>3 DEF TypeOK, Types, Rest, Known, Lost
<1> QED BY <1>1, <1>2, <1>3, RowsInductive, PTL DEF Spec

-----------------------------------------------------------------------------
(* Listings. *)

OnceIn(s, i) == \E k \in 1..Len(s) : s[k] = i /\ \A l \in 1..Len(s) : s[l] = i => l = k
NeverIn(s, i) == \A k \in 1..Len(s) : s[k] # i

\* The steady rows of a listing are live; it has returned those up to its cursor, each
\* once, and none of the others.
PageInv ==
  page # None =>
    /\ page.steady \subseteq Live(page.project)
    /\ \A i \in page.steady :
         IF page.done \/ ~After(page.project, page.cursor, i)
         THEN OnceIn(page.seen, i) ELSE NeverIn(page.seen, i)

LEMMA InJoined ==
    ASSUME NEW s \in Seq(Nat), NEW t \in Seq(Nat), NEW i
    PROVE  /\ OnceIn(s, i) /\ NeverIn(t, i) => OnceIn(s \o t, i)
           /\ NeverIn(s, i) /\ OnceIn(t, i) => OnceIn(s \o t, i)
           /\ NeverIn(s, i) /\ NeverIn(t, i) => NeverIn(s \o t, i)
<1>1. PICK u : u = s \o t
  BY ONLY TRUE
<1>2. PICK m, n : m = Len(s) /\ n = Len(t)
  BY ONLY TRUE
<1>3. m \in Nat /\ n \in Nat /\ Len(u) = m + n
  BY <1>1, <1>2
<1>4. \A k \in 1..m : u[k] = s[k]
  BY <1>1, <1>2
<1>5. \A k \in 1..n : u[m + k] = t[k]
  BY <1>1, <1>2
<1>6. \A k \in 1..Len(u) : k \in 1..m \/ \E l \in 1..n : k = m + l
  <2> TAKE k \in 1..Len(u)
  <2>1. CASE k <= m
    BY <1>3, <2>1
  <2>2. CASE k > m
    <3>1. k - m \in 1..n /\ k = m + (k - m)
      BY <1>3, <2>2
    <3> QED BY <3>1
  <2> QED BY <1>3, <2>1, <2>2
<1>7. \A k \in 1..m : k \in 1..Len(u)
  BY <1>3
<1>8. \A k \in 1..n : m + k \in 1..Len(u)
  BY <1>3
<1>9. ASSUME NeverIn(s, i), NeverIn(t, i) PROVE NeverIn(u, i)
  <2>1. (\A k \in 1..m : s[k] # i) /\ \A k \in 1..n : t[k] # i
    BY <1>2, <1>9 DEF NeverIn
  <2>2. ASSUME NEW k \in 1..Len(u) PROVE u[k] # i
    <3>1. CASE k \in 1..m
      BY <1>4, <2>1, <3>1
    <3>2. CASE \E l \in 1..n : k = m + l
      BY <1>5, <2>1, <3>2
    <3> QED BY <1>6, <3>1, <3>2
  <2> QED BY <2>2 DEF NeverIn
<1>10. ASSUME OnceIn(s, i), NeverIn(t, i) PROVE OnceIn(u, i)
  <2>1. PICK k \in 1..m : s[k] = i /\ \A l \in 1..m : s[l] = i => l = k
    BY <1>2, <1>10 DEF OnceIn
  <2>2. u[k] = i /\ k \in 1..Len(u)
    BY <1>4, <1>7, <2>1
  <2>3. ASSUME NEW l \in 1..Len(u), u[l] = i PROVE l = k
    <3>1. \A j \in 1..n : t[j] # i
      BY <1>2, <1>10 DEF NeverIn
    <3>2. ~\E j \in 1..n : l = m + j
      BY <1>5, <2>3, <3>1
    <3>3. l \in 1..m
      BY <1>6, <3>2
    <3> QED BY <1>4, <2>1, <2>3, <3>3
  <2> QED BY <2>2, <2>3 DEF OnceIn
<1>11. ASSUME NeverIn(s, i), OnceIn(t, i) PROVE OnceIn(u, i)
  <2>1. PICK k \in 1..n : t[k] = i /\ \A l \in 1..n : t[l] = i => l = k
    BY <1>2, <1>11 DEF OnceIn
  <2>2. u[m + k] = i /\ m + k \in 1..Len(u)
    BY <1>5, <1>8, <2>1
  <2>3. ASSUME NEW l \in 1..Len(u), u[l] = i PROVE l = m + k
    <3>1. l \notin 1..m
      <4>1. \A j \in 1..m : s[j] # i
        BY <1>2, <1>11 DEF NeverIn
      <4> QED BY <1>4, <2>3, <4>1
    <3>2. PICK j \in 1..n : l = m + j
      BY <1>6, <3>1
    <3>3. t[j] = i
      BY <1>5, <2>3, <3>2
    <3> QED BY <2>1, <3>2, <3>3
  <2> QED BY <2>2, <2>3 DEF OnceIn
<1> QED BY <1>1, <1>9, <1>10, <1>11

\* Rows that are before the one at the cursor are not after it, and the other way round.
LEMMA AfterBefore ==
    ASSUME obs \in [Projects -> Seq(Observations)], NEW p \in Projects,
           NEW i \in Live(p), NEW l \in Live(p)
    PROVE  /\ After(p, <<obs[p][l].at, l>>, i) <=> Before(p, l, i)
           /\ i = l \/ Before(p, i, l) => ~Before(p, l, i)
           /\ \A c \in {None} \cup (Nat \X Nat) :
                ~After(p, c, i) /\ After(p, c, l) => ~Before(p, l, i)
           /\ \A j \in Live(p) : Before(p, l, j) /\ Before(p, j, i) => Before(p, l, i)
<1>1. \A j \in Live(p) : j \in Nat /\ obs[p][j].at \in Nat
  BY RowTypes
<1>2. <<obs[p][l].at, l>> \in Nat \X Nat
  BY <1>1
<1>3. <<obs[p][l].at, l>> # None
  BY <1>2, WorkspaceAssumption
<1>4. After(p, <<obs[p][l].at, l>>, i) <=> Before(p, l, i)
  BY <1>1, <1>3 DEF After, Before
<1>5. i = l \/ Before(p, i, l) => ~Before(p, l, i)
  BY <1>1 DEF Before
<1>6. ASSUME NEW c \in {None} \cup (Nat \X Nat), ~After(p, c, i), After(p, c, l)
      PROVE  ~Before(p, l, i)
  <2>1. c # None /\ c \in Nat \X Nat
    BY <1>6 DEF After
  <2>2. PICK a \in Nat, b \in Nat : c = <<a, b>>
    BY <2>1
  <2>3. c[1] = a /\ c[2] = b
    BY <2>2
  <2>4. obs[p][l].at < a \/ (obs[p][l].at = a /\ l < b)
    BY <1>6, <2>1, <2>3 DEF After
  <2>5. ~(obs[p][i].at < a \/ (obs[p][i].at = a /\ i < b))
    BY <1>6, <2>1, <2>3 DEF After
  <2> QED BY <1>1, <2>4, <2>5 DEF Before
<1>7. \A j \in Live(p) : Before(p, l, j) /\ Before(p, j, i) => Before(p, l, i)
  BY <1>1 DEF Before
<1> QED BY <1>4, <1>5, <1>6, <1>7

\* A page returns what its rows are: those up to the new cursor once, no other.
LEMMA PageReturned ==
    ASSUME Types, PageInv, ListPage, NEW i \in page.steady
    PROVE  IF page'.done \/ ~After(page.project, page'.cursor, i)
           THEN OnceIn(page'.seen, i) ELSE NeverIn(page'.seen, i)
<1>1. obs \in [Projects -> Seq(Observations)] /\ page \in {None} \cup Pages
  BY DEF Types, Tables, Rest
<1>2. /\ page \in Pages /\ ~page.done /\ page # None
      /\ page'.seen = page.seen \o Returned
      /\ page'.done = ~(Len(Fetched) > Limit)
      /\ page'.cursor = IF Len(Fetched) > Limit
                        THEN <<obs[page.project][Last(Returned)].at, Last(Returned)>>
                        ELSE page.cursor
  BY <1>1, ListPageTypes DEF ListPage
<1>3. PICK p \in Projects, c \in {None} \cup (Nat \X Nat) : p = page.project /\ c = page.cursor
  BY <1>2 DEF Pages
<1>4. PICK f \in Seq(Nat) : f = Fetched
  <2>1. FetchedIs(p, c, Fetched)
    BY <1>1, <1>3, Fetches
  <2> QED BY <2>1 DEF FetchedIs
<1>5. FetchedIs(p, c, f)
  BY <1>1, <1>3, <1>4, Fetches
<1>6. PICK r : r = Returned
  BY ONLY TRUE
<1>7. /\ r \in Seq(Nat)
      /\ Len(r) = IF Len(f) > Limit THEN Limit ELSE Len(f)
      /\ \A k \in 1..Len(r) : k \in 1..Len(f) /\ r[k] = f[k]
      /\ Len(f) > Limit =>
           Len(f) = Limit + 1 /\ Limit \in 1..Len(r) /\ Last(r) = f[Limit]
  BY <1>1, <1>4, <1>5, <1>6, Returns
<1>8. /\ \A k \in 1..Len(f) : f[k] \in Live(p) /\ After(p, c, f[k])
      /\ \A k, l \in 1..Len(f) : f[k] = f[l] => k = l
      /\ \A k, l \in 1..Len(f) : k < l => Before(p, f[k], f[l])
      /\ \A j \in Live(p) : After(p, c, j) =>
           (\E k \in 1..Len(f) : f[k] = j) \/ (Len(f) = Limit + 1 /\ Before(p, f[Limit + 1], j))
  BY <1>5 DEF FetchedIs
<1>9. i \in Live(p)
  BY <1>2, <1>3 DEF PageInv
<1>10. Limit \in Nat /\ Limit >= 1 /\ Len(f) \in Nat
  BY WorkspaceAssumption
\* The row at the new cursor.
<1>11. ASSUME Len(f) > Limit
       PROVE  /\ f[Limit] \in Live(p) /\ After(p, c, f[Limit])
              /\ Limit \in 1..Len(f) /\ Limit + 1 \in 1..Len(f)
              /\ After(p, page'.cursor, i) <=> Before(p, f[Limit], i)
  <2>1. Limit \in 1..Len(f) /\ Limit + 1 \in 1..Len(f)
    BY <1>7, <1>10, <1>11
  <2>2. f[Limit] \in Live(p) /\ After(p, c, f[Limit])
    BY <1>8, <2>1
  <2>3. page'.cursor = <<obs[p][f[Limit]].at, f[Limit]>>
    BY <1>2, <1>3, <1>4, <1>6, <1>7, <1>11
  <2> QED BY <1>1, <1>9, <2>1, <2>2, <2>3, AfterBefore
<1>12. CASE ~After(p, c, i)
  <2>1. OnceIn(page.seen, i)
    BY <1>2, <1>3, <1>12 DEF PageInv
  <2>2. NeverIn(r, i)
    BY <1>7, <1>8, <1>12 DEF NeverIn
  <2>3. OnceIn(page'.seen, i)
    BY <1>2, <1>6, <1>7, <2>1, <2>2, InJoined DEF Pages
  <2>4. page'.done \/ ~After(p, page'.cursor, i)
    <3>1. CASE Len(f) > Limit
      BY <1>1, <1>9, <1>11, <1>12, <3>1, AfterBefore
    <3>2. CASE ~(Len(f) > Limit)
      BY <1>2, <1>4, <3>2
    <3> QED BY <3>1, <3>2
  <2> QED BY <1>3, <2>3, <2>4
<1>13. CASE After(p, c, i)
  <2>1. NeverIn(page.seen, i)
    BY <1>2, <1>3, <1>13 DEF PageInv
  <2>2. ASSUME NEW k \in 1..Len(r), r[k] = i
        PROVE  OnceIn(page'.seen, i) /\ (page'.done \/ ~After(p, page'.cursor, i))
    <3>a. \A l \in 1..Len(r) : r[l] = i => l = k
      BY <1>7, <1>8, <2>2
    <3>1. OnceIn(r, i)
      BY <2>2, <3>a DEF OnceIn
    <3>2. OnceIn(page'.seen, i)
      BY <1>2, <1>6, <1>7, <2>1, <3>1, InJoined DEF Pages
    <3>3. CASE Len(f) > Limit
      <4>1. k <= Limit /\ k \in 1..Len(f) /\ f[k] = i
        BY <1>7, <1>10, <2>2, <3>3
      <4>2. f[Limit] = i \/ Before(p, i, f[Limit])
        BY <1>8, <1>10, <1>11, <3>3, <4>1
      <4> QED BY <1>1, <1>9, <1>11, <3>2, <3>3, <4>2, AfterBefore
    <3>4. CASE ~(Len(f) > Limit)
      BY <1>2, <1>4, <3>2, <3>4
    <3> QED BY <3>3, <3>4
  <2>3. ASSUME \A k \in 1..Len(r) : r[k] # i
        PROVE  NeverIn(page'.seen, i) /\ ~page'.done /\ After(p, page'.cursor, i)
    <3>1. NeverIn(page'.seen, i)
      <4>1. NeverIn(r, i)
        BY <2>3 DEF NeverIn
      <4> QED BY <1>2, <1>6, <1>7, <2>1, <4>1, InJoined DEF Pages
    <3>2. Len(f) > Limit
      <4>1. SUFFICES ASSUME ~(Len(f) > Limit) PROVE FALSE
        OBVIOUS
      <4>2. Len(r) = Len(f) /\ ~(Len(f) = Limit + 1)
        BY <1>7, <1>10, <4>1
      <4>3. PICK k \in 1..Len(f) : f[k] = i
        BY <1>8, <1>9, <1>13, <4>2
      <4> QED BY <1>7, <2>3, <4>2, <4>3
    <3>3. f[Limit + 1] = i \/ Before(p, f[Limit + 1], i)
      <4>1. CASE \E k \in 1..Len(f) : f[k] = i
        <5>1. PICK k \in 1..Len(f) : f[k] = i
          BY <4>1
        <5>2. k = Limit + 1
          <6>1. SUFFICES ASSUME k # Limit + 1 PROVE FALSE
            OBVIOUS
          <6>2. k \in 1..Len(r)
            BY <1>7, <1>10, <3>2, <6>1
          <6> QED BY <1>7, <2>3, <5>1, <6>2
        <5> QED BY <5>1, <5>2
      <4>2. CASE ~\E k \in 1..Len(f) : f[k] = i
        BY <1>8, <1>9, <1>13, <4>2
      <4> QED BY <4>1, <4>2
    <3>4. f[Limit + 1] \in Live(p) /\ Before(p, f[Limit], f[Limit + 1])
      BY <1>8, <1>10, <1>11, <3>2
    <3>5. Before(p, f[Limit], i)
      BY <1>1, <1>9, <1>11, <3>2, <3>3, <3>4, AfterBefore
    <3>6. After(p, page'.cursor, i)
      BY <1>11, <3>2, <3>5
    <3> QED BY <1>2, <1>4, <3>1, <3>2, <3>6
  <2> QED BY <1>3, <2>2, <2>3
<1> QED BY <1>12, <1>13

\* A step that changes nothing of a listing but takes rows from it.
LEMMA PageStays ==
    ASSUME page # None, page' # None, PageInv,
           page'.project = page.project, page'.cursor = page.cursor,
           page'.seen = page.seen, page'.done = page.done,
           page'.steady \subseteq page.steady,
           \A i \in page'.steady :
             i \in Live(page.project)' /\ obs'[page.project][i].at = obs[page.project][i].at
    PROVE  PageInv'
BY DEF PageInv, After, Live

LEMMA PageStep ==
    ASSUME Types, Doomed, PageInv, [Next]_vars
    PROVE  PageInv'
<1>0. obs \in [Projects -> Seq(Observations)] /\ page \in {None} \cup Pages
  BY DEF Types, Tables, Rest
<1>1. CASE page' = None
  BY <1>1 DEF PageInv
<1>2. ASSUME page' = page, \A q \in Projects : More(q), page # None
      PROVE  PageInv'
  <2>1. page.project \in Projects /\ page.steady \subseteq Live(page.project)
    BY <1>0, <1>2 DEF Pages, PageInv
  <2>2. PICK p \in Projects : p = page.project
    BY <2>1
  <2>3. \A i \in page.steady : i \in Live(p)' /\ obs'[p][i].at = obs[p][i].at
    BY <1>2, <2>1, <2>2 DEF More, Live, Stored
  <2> QED BY <1>2, <2>2, <2>3, PageStays
<1>3. ASSUME NEW p \in Projects, NEW ids, Leave(p, ids), \A q \in Projects : Fewer(q), page # None,
             \A q \in Projects : q # p => obs'[q] = obs[q], Live(p) \ ids \subseteq Live(p)'
      PROVE  PageInv'
  <2>1. PICK q \in Projects : q = page.project
    BY <1>0, <1>3 DEF Pages
  <2>2. page.steady \subseteq Live(q)
    BY <1>3, <2>1 DEF PageInv
  <2>3. CASE q # p
    <3>1. page' = page /\ obs'[q] = obs[q]
      BY <1>0, <1>3, <2>1, <2>3, LeaveTypes
    <3>2. Live(q)' = Live(q)
      BY <3>1, SameRows
    <3> QED BY <1>3, <2>1, <2>2, <3>1, <3>2, PageStays
  <2>4. CASE q = p
    <3>1. /\ page'.project = page.project /\ page'.cursor = page.cursor
          /\ page'.seen = page.seen /\ page'.done = page.done
          /\ page'.steady = page.steady \ ids
      BY <1>0, <1>3, <2>1, <2>4, LeaveTypes
    <3>2. \A i \in page'.steady : i \in Live(q)' /\ obs'[q][i].at = obs[q][i].at
      BY <1>3, <2>2, <2>4, <3>1 DEF Fewer, SameRow, Live, Stored
    <3>3. CASE page' # None
      BY <1>3, <2>1, <3>1, <3>2, <3>3, PageStays
    <3> QED BY <1>1, <3>3
  <2> QED BY <2>3, <2>4
<1>4. ASSUME NEW p \in Projects, ListBegin(p)
      PROVE  PageInv'
  <2>1. page' = [project |-> p, cursor |-> None, seen |-> <<>>, steady |-> Live(p), done |-> FALSE]
        /\ obs' = obs
    BY <1>4 DEF ListBegin
  <2>2. Live(p)' = Live(p)
    BY <2>1, SameRows
  <2>3. Len(<<>>) = 0 /\ \A i : NeverIn(<<>>, i)
    BY DEF NeverIn
  <2>4. /\ page'.project = p /\ page'.cursor = None /\ page'.seen = <<>>
        /\ page'.steady = Live(p) /\ page'.done = FALSE
    BY <2>1
  <2>5. \A i : After(p, None, i)'
    BY DEF After
  <2> QED BY <2>2, <2>3, <2>4, <2>5 DEF PageInv, After
<1>5. CASE ListPage
  <2>1. obs' = obs /\ page'.project = page.project /\ page'.steady = page.steady /\ page # None
    BY <1>0, <1>5, ListPageTypes DEF ListPage
  <2>2. page.steady \subseteq Live(page.project)
    BY <2>1 DEF PageInv
  <2>3. \A i \in page.steady :
          IF page'.done \/ ~After(page.project, page'.cursor, i)
          THEN OnceIn(page'.seen, i) ELSE NeverIn(page'.seen, i)
    BY <1>5, PageReturned
  <2> QED BY <2>1, <2>2, <2>3 DEF PageInv, After, Live
<1>6. CASE Quiet
  BY <1>1, <1>2, <1>4, <1>5, <1>6, SameRows DEF Quiet
<1>7. ASSUME NEW p \in Projects, NEW o \in SyncIds, Saves(p, o)
      PROVE  PageInv'
  <2>1. PICK row \in Observations :
          row.sync = o /\ row.status = "live" /\ obs' = [obs EXCEPT ![p] = obs[p] \o <<row>>]
    BY <1>7 DEF Saves
  <2>a. <<row>> \in Seq(Observations)
    BY ONLY <2>1
  <2>2. PICK new \in Seq(Observations) : new = <<row>>
    BY ONLY <2>a
  <2>3. Len(new) = 1 /\ \A k \in 1..Len(new) : k = 1 /\ new[k] = row
    BY <2>2
  <2>4. \A k \in 1..Len(new) : new[k].status # "gone"
    BY <2>1, <2>3
  <2>5. obs' = [obs EXCEPT ![p] = obs[p] \o new]
    BY <2>1, <2>2
  <2>6. \A q \in Projects : More(q)
    BY <2>4, <2>5, MoreRows
  <2> QED BY <1>1, <1>2, <1>7, <2>6 DEF Saves
<1>8. ASSUME NEW m \in Merges, Merged(m)
      PROVE  PageInv'
  <2>1. PICK p \in Projects, t \in Projects : p = m[1] /\ t = m[2] /\ p # t
    BY WorkspaceAssumption
  <2>2. PICK new \in Seq(Observations) :
          /\ obs' = [obs EXCEPT ![t] = obs[t] \o new]
          /\ \A k \in 1..Len(new) : new[k].status # "gone"
    BY <1>8, <2>1, MergeRows DEF Merged
  <2>3. \A q \in Projects : More(q)
    BY <2>2, MoreRows
  <2> QED BY <1>1, <1>2, <1>8, <2>3 DEF Merged, MergeTarget
<1>9. ASSUME NEW p \in Projects, NEW ids, NEW status \in {"deleted", "gone"}, Deletes(p, ids, status)
      PROVE  PageInv'
  <2>1. Leave(p, ids)
    BY <1>9 DEF Deletes
  <2>2. /\ \A q \in Projects : Fewer(q)
        /\ \A q \in Projects : q # p => obs'[q] = obs[q]
        /\ Live(p)' = Live(p) \ ids
    BY <1>9, FewerDeletes
  <2>3. CASE page = None
    BY <1>1, <2>1, <2>3 DEF Leave
  <2> QED BY <1>3, <2>1, <2>2, <2>3
<1>10. ASSUME NEW m \in merging, Emptied(m)
       PROVE  PageInv'
  <2>1. m \in Merges /\ Mark(m[1], Live(m[1]), "deleted") /\ Leave(m[1], Live(m[1]))
    BY <1>10 DEF Emptied, MergeSource, Types, Rest
  <2>2. /\ m[1] \in Projects
        /\ \A q \in Projects : Fewer(q)
        /\ \A q \in Projects : q # m[1] => obs'[q] = obs[q]
    BY <2>1, FewerSource
  <2>3. PICK p \in Projects : p = m[1]
    BY <2>2
  <2>4. Leave(p, Live(p)) /\ Live(p) \ Live(p) \subseteq Live(p)'
    BY <2>1, <2>3
  <2>5. CASE page = None
    BY <1>1, <2>4, <2>5 DEF Leave
  <2> QED BY <1>3, <2>2, <2>3, <2>4, <2>5
<1>11. ASSUME NEW p \in Projects, Unlinks(p)
       PROVE  PageInv'
  <2>1. /\ \A q \in Projects : Fewer(q) /\ Live(q)' = Live(q)
        /\ \A q \in Projects : q # p => obs'[q] = obs[q]
        /\ Leave(p, Live(p))
    BY <1>11, SameRows DEF Unlinks
  <2>2. CASE page = None
    BY <1>1, <2>1, <2>2 DEF Leave
  <2> QED BY <1>3, <2>1, <2>2
<1>12. ASSUME NEW ps \in SUBSET Projects, Empties(ps), page' # None
       PROVE  PageInv'
  <2>1. PICK p \in Projects : ps = {p} /\ Leave(p, Live(p))
    BY <1>12 DEF Empties
  <2>2. /\ \A q \in Projects : Fewer(q)
        /\ \A q \in Projects : q # p => obs'[q] = obs[q]
    BY <1>12, <2>1, FewerFiles DEF Empties
  <2>3. Live(p) \ Live(p) \subseteq Live(p)'
    OBVIOUS
  <2>4. CASE page = None
    BY <1>1, <2>1, <2>4 DEF Leave
  <2> QED BY <1>3, <2>1, <2>2, <2>3, <2>4
<1> QED BY <1>1, <1>6, <1>7, <1>8, <1>9, <1>10, <1>11, <1>12, RowSteps

\* Whatever is saved, merged in or deleted between its pages, a listing that is over
\* returned every row that was there from the first page to the last exactly once.
THEOREM ListingsAreExact == Spec => []PagesAreExact
<1>1. Init => PageInv
  BY DEF Init, PageInv
<1>2. RowsInv /\ PageInv /\ [Next]_vars => PageInv'
  BY PageStep DEF RowsInv
<1>3. RowsInv /\ PageInv => PagesAreExact
  <2> SUFFICES ASSUME RowsInv, PageInv, page # None, page.done, NEW i \in page.steady
               PROVE  Cardinality({k \in DOMAIN page.seen : page.seen[k] = i}) = 1
    BY DEF PagesAreExact
  <2>1. page \in Pages
    BY DEF RowsInv, Types, Rest
  <2>2. page.seen \in Seq(Nat)
    BY <2>1 DEF Pages
  <2>3. DOMAIN page.seen = 1..Len(page.seen)
    BY <2>2
  <2>4. OnceIn(page.seen, i)
    BY DEF PageInv
  <2>5. PICK k \in 1..Len(page.seen) :
          page.seen[k] = i /\ \A l \in 1..Len(page.seen) : page.seen[l] = i => l = k
    BY <2>4 DEF OnceIn
  <2>6. {l \in DOMAIN page.seen : page.seen[l] = i} = {k}
    BY <2>3, <2>5
  <2> QED BY <2>6, FS_Singleton
<1> QED BY <1>1, <1>2, <1>3, RowsInductive, PTL DEF Spec

------------------------------------------------------------------------------
(* The operators of Ranking: what comes out was in. *)

LEMMA TakeIn ==
    ASSUME NEW S, NEW s \in Seq(S), NEW n \in Nat
    PROVE  /\ Take(s, n) \in Seq(S) /\ Len(Take(s, n)) <= Len(s)
           /\ \A i \in 1..Len(Take(s, n)) : Take(s, n)[i] = s[i]
           /\ Len(Take(s, n)) < Len(s) => Len(Take(s, n)) = n
<1>1. PICK m : m = IF Len(s) < n THEN Len(s) ELSE n
  BY ONLY TRUE
<1>2. m \in Nat /\ m <= Len(s) /\ (m < Len(s) => m = n)
  BY <1>1
<1>3. Take(s, n) = SubSeq(s, 1, m)
  BY <1>1 DEF Take
<1>4. SubSeq(s, 1, m) \in Seq(S) /\ Len(SubSeq(s, 1, m)) = m
  BY <1>2
<1>5. \A i \in 1..m : SubSeq(s, 1, m)[i] = s[i]
  BY <1>2
<1> QED BY <1>2, <1>3, <1>4, <1>5

LEMMA ReverseIn == ASSUME NEW S, NEW s \in Seq(S) PROVE Reverse(s) \in Seq(S)
BY DEF Reverse

LEMMA PackIn ==
    ASSUME NEW S, NEW s \in Seq(S), NEW tokens, NEW budget
    PROVE  Pack(s, tokens, budget) \in Seq(S)
<1>1. IsFiniteSet(DOMAIN s)
  BY EntriesFinite
<1>2. Fitting(s, tokens, budget) \in SUBSET (DOMAIN s)
  BY DEF Fitting
<1>3. Cardinality(Fitting(s, tokens, budget)) \in Nat
  BY <1>1, <1>2, FS_Subset, FS_CardinalityType
<1> QED BY <1>3, TakeIn DEF Pack

LEMMA FuseIn ==
    ASSUME NEW S, NEW a \in Seq(S), NEW b \in Seq(S), NEW c \in Seq(S), NEW k, NEW depth
    PROVE  Fuse(<<a, b, c>>, k, depth) \in Seq(S)
<1>1. PICK lists : lists = <<a, b, c>>
  BY ONLY TRUE
<1> DEFINE found == UNION {ToSet(lists[l]) : l \in DOMAIN lists}
           f == [x \in found |-> <<-Score(x, lists, k, depth), Position(x, FlattenSeq(lists)), x>>]
           T == {f[x] : x \in found}
<1>2. DOMAIN lists = 1..3 /\ lists[1] = a /\ lists[2] = b /\ lists[3] = c
  BY <1>1
<1>3. found = ToSet(a) \cup ToSet(b) \cup ToSet(c)
  BY <1>2
<1>4. /\ IsFiniteSet(ToSet(a)) /\ IsFiniteSet(ToSet(b)) /\ IsFiniteSet(ToSet(c))
      /\ ToSet(a) \subseteq S /\ ToSet(b) \subseteq S /\ ToSet(c) \subseteq S
  BY EntriesFinite DEF ToSet
<1>5. IsFiniteSet(found) /\ found \subseteq S
  BY <1>3, <1>4, FS_Union
<1>6. Fuse(<<a, b, c>>, k, depth) = Keyed(T)
  BY <1>1 DEF Fuse
<1>7. IsFiniteSet(T)
  BY <1>5, ImageFinite
<1>8. ASSUME NEW e \in T PROVE e[3] \in S
  <2>1. PICK x \in found : e = f[x]
    OBVIOUS
  <2>2. f[x][3] = x
    BY ONLY x \in found
  <2> QED BY <1>5, <2>1, <2>2
<1> HIDE DEF T
<1> QED BY <1>6, <1>7, <1>8, KeyedIn

LEMMA AppendIn ==
    ASSUME NEW S, NEW s \in Seq(S), NEW x \in S
    PROVE  /\ Append(s, x) \in Seq(S) /\ Len(s) \in Nat
           /\ Len(Append(s, x)) = Len(s) + 1 /\ Append(s, x)[Len(s) + 1] = x
           /\ \A i \in 1..Len(s) : Append(s, x)[i] = s[i] /\ s[i] \in S
OBVIOUS

LEMMA RerankIn ==
    ASSUME NEW S, NEW s \in Seq(S), NEW text
    PROVE  Rerank(s, text) \in Seq(S)
<1>1. IsFiniteSet(DOMAIN s) /\ \A i \in DOMAIN s : s[i] \in S
  BY EntriesFinite
<1> DEFINE First(i) == \A j \in 1..(i - 1) : text[s[j].id] # text[s[i].id]
           f == [i \in DOMAIN s |-> <<IF First(i) THEN 0 ELSE 1, i, s[i]>>]
           T == {f[i] : i \in DOMAIN s}
<1>2. IsFiniteSet(T)
  <2>1. DOMAIN f = DOMAIN s
    OBVIOUS
  <2> HIDE DEF f
  <2> QED BY <1>1, <2>1, ImageFinite
<1>3. ASSUME NEW e \in T PROVE e[3] \in S
  <2>1. PICK i \in DOMAIN s : e = f[i]
    OBVIOUS
  <2>2. f[i][3] = s[i]
    BY ONLY i \in DOMAIN s
  <2> QED BY <1>1, <2>1, <2>2
<1>4. Rerank(s, text) = Keyed(T)
  BY DEF Rerank
<1> HIDE DEF T
<1> QED BY <1>2, <1>3, <1>4, KeyedIn

LEMMA MaxPerTypeIn ==
    ASSUME NEW S, NEW s \in Seq(S), NEW type, NEW max
    PROVE  MaxPerType(s, type, max) \in Seq(S)
<1>1. IsFiniteSet(DOMAIN s) /\ \A i \in DOMAIN s : s[i] \in S
  BY EntriesFinite
<1> DEFINE TypeOf(i) == type[s[i].id]
           Occurrence(i) == Cardinality({j \in 1..i : TypeOf(j) = TypeOf(i)})
           FirstOf(i) == Min({j \in DOMAIN s : TypeOf(j) = TypeOf(i)})
           within == {i \in DOMAIN s : Occurrence(i) <= max}
           f == [i \in within |-> <<Occurrence(i), FirstOf(i), s[i]>>]
           T == {f[i] : i \in within}
<1>2. within \in SUBSET (DOMAIN s)
  OBVIOUS
<1>3. IsFiniteSet(within)
  BY <1>1, <1>2, FS_Subset
<1>4. IsFiniteSet(T)
  <2>1. DOMAIN f = within
    OBVIOUS
  <2> HIDE DEF f, within
  <2> QED BY <1>3, <2>1, ImageFinite
<1>5. ASSUME NEW e \in T PROVE e[3] \in S
  <2>1. PICK i \in within : e = f[i]
    OBVIOUS
  <2>2. f[i][3] = s[i]
    BY ONLY i \in within
  <2> QED BY <1>1, <1>2, <2>1, <2>2
<1>6. MaxPerType(s, type, max) = IF max = 0 THEN s ELSE Keyed(T)
  BY DEF MaxPerType
<1> HIDE DEF T
<1> QED BY <1>4, <1>5, <1>6, KeyedIn

LEMMA MentioningIn ==
    ASSUME NEW entities, NEW mentions, IsFiniteSet(mentions)
    PROVE  Mentioning(entities, mentions) \in Seq({m[1] : m \in mentions})
<1> DEFINE S == {m[1] : m \in mentions}
           named == {m \in mentions : m[2] \in entities}
           Refs(o) == Cardinality({m \in named : m[1] = o})
           f == [m \in named |-> <<-Refs(m[1]), m[1], m[1]>>]
           T == {f[m] : m \in named}
<1>1. named \in SUBSET mentions
  OBVIOUS
<1>2. IsFiniteSet(named)
  BY <1>1, FS_Subset
<1>3. IsFiniteSet(T)
  BY <1>2, ImageFinite
<1>4. ASSUME NEW e \in T PROVE e[3] \in S
  <2>1. PICK m \in named : e = f[m]
    OBVIOUS
  <2>2. f[m][3] = m[1]
    BY ONLY m \in named
  <2> QED BY <1>1, <2>1, <2>2
<1>5. Mentioning(entities, mentions) = Keyed(T)
  BY DEF Mentioning
<1> HIDE DEF T
<1> QED BY <1>3, <1>4, <1>5, KeyedIn

LEMMA GreedyIn == \A ids, tokens, share : Greedy(ids, tokens, share) \subseteq DOMAIN ids
BY DEF Greedy

------------------------------------------------------------------------------
(* The tables, and the rows in hand. *)

TableOK ==
    /\ live \subseteq Rows /\ state \in [Rows -> States]
    /\ gone \cap live = {}
    /\ \A r \in away : r \in Rows /\ state[r] \in Withdrawn

Hit == [id : Rows, state : States \cup {Unset}]

\* A hit that was live at some moment of the request, and that shows its state if it
\* was withdrawn all the while.
Good == {h \in Hit : h.id \notin gone /\ (h.state \notin Withdrawn => h.id \notin away)}

LEMMA RowsAre == Rows \in SUBSET Nat /\ IsFiniteSet(Rows)
<1>1. IsFiniteSet(Rows) /\ Rows = 1..Cardinality(Rows)
  BY RetrievalAssumption
<1>2. Cardinality(Rows) \in Nat
  BY <1>1, FS_CardinalityType
<1> QED BY <1>1, <1>2

\* The live rows, and those of them a request looks at.
LEMMA LiveAre ==
    ASSUME TableOK, NEW S \in SUBSET live
    PROVE  S \in SUBSET Nat /\ S \in SUBSET Rows /\ IsFiniteSet(S)
<1>1. S \in SUBSET Rows
  BY DEF TableOK
<1> QED BY <1>1, RowsAre, FS_Subset

LEMMA ReadIs ==
    ASSUME TableOK, NEW ids \in Seq(Rows)
    PROVE  /\ Read(ids) \in Seq(Hit) /\ Len(Read(ids)) = Len(ids)
           /\ \A i \in 1..Len(ids) :
                Read(ids)[i].id = ids[i] /\ Read(ids)[i].state = state[ids[i]]
<1>1. DOMAIN ids = 1..Len(ids) /\ Len(ids) \in Nat /\ \A i \in 1..Len(ids) : ids[i] \in Rows
  OBVIOUS
<1>2. PICK hs : hs = Read(ids)
  BY ONLY TRUE
<1>3. hs = [i \in 1..Len(ids) |-> [id |-> ids[i], state |-> state[ids[i]]]]
  BY <1>1, <1>2 DEF Read
<1>4. ASSUME NEW i \in 1..Len(ids)
      PROVE  hs[i] \in Hit /\ hs[i].id = ids[i] /\ hs[i].state = state[ids[i]]
  <2>1. ids[i] \in Rows /\ state[ids[i]] \in States
    BY <1>1 DEF TableOK
  <2>2. hs[i] = [id |-> ids[i], state |-> state[ids[i]]]
    BY <1>3
  <2> QED BY <2>1, <2>2 DEF Hit
<1>5. hs \in Seq(Hit) /\ Len(hs) = Len(ids)
  <2>1. \A i \in 1..Len(ids) : hs[i] \in Hit
    BY <1>4
  <2> QED BY <1>1, <1>3, <2>1
<1> QED BY <1>2, <1>4, <1>5

\* Live rows that are read now are good.
LEMMA ReadGood ==
    ASSUME TableOK, NEW ids \in Seq(live)
    PROVE  Read(ids) \in Seq(Good)
<1>1. ids \in Seq(Rows) /\ \A i \in 1..Len(ids) : ids[i] \in live
  <2>1. \A i \in 1..Len(ids) : ids[i] \in live /\ ids[i] \in Rows
    BY DEF TableOK
  <2> QED BY <2>1
<1>2. PICK hs \in Seq(Hit) : hs = Read(ids)
  BY <1>1, ReadIs
<1>3. Len(hs) = Len(ids)
      /\ \A i \in 1..Len(ids) : hs[i].id = ids[i] /\ hs[i].state = state[ids[i]]
  BY <1>1, <1>2, ReadIs
<1>4. ASSUME NEW i \in 1..Len(hs) PROVE hs[i] \in Good
  <2>1. hs[i] \in Hit /\ hs[i].id \in live /\ hs[i].state = state[hs[i].id]
    BY <1>1, <1>3
  <2> QED BY <2>1 DEF Good, TableOK
<1>5. hs \in Seq(Good)
  BY <1>4
<1> QED BY <1>2, <1>5

\* What an index answers: rows, deleted ones included.
LEMMA IndexIn ==
    ASSUME NEW ranking \in Rankings, NEW project, NEW limit \in Nat
    PROVE  Index(ranking, project, limit) \in Seq(Rows)
<1>1. ranking \in Seq(Rows)
  BY RetrievalAssumption
<1>2. Sift(ranking, OfProject(project)) \in Seq(Rows)
  BY <1>1, SiftProperties
<1> QED BY <1>2, TakeIn DEF Index

\* A lane has live rows only.
LEMMA LanesLive ==
    ASSUME TableOK, NEW ranking \in Rankings, NEW limit \in Nat
    PROVE  Bm25(ranking, limit) \in Seq(live) /\ Dense(ranking, limit) \in Seq(live)
<1>1. Index(ranking, req.project, limit) \in Seq(Rows)
  BY IndexIn
<1>2. Dense(ranking, limit) \in Seq(live)
  <2>1. Dense(ranking, limit) \in Seq(Rows \cap live)
    BY <1>1, SiftIn DEF Dense
  <2> QED BY <2>1 DEF TableOK
<1>3. Bm25(ranking, limit) \in Seq(live)
  <2>1. PICK T : T = {r \in live \cap ToSet(Index(ranking, req.project, limit)) : Wanted(r)}
    BY ONLY TRUE
  <2>2. T \in SUBSET live
    BY <2>1
  <2>3. T \in SUBSET Nat /\ IsFiniteSet(T)
    BY <2>2, LiveAre
  <2>4. Ascending(T) \in Seq(T)
    BY <2>3, AscendingProperties
  <2>5. Reverse(Ascending(T)) \in Seq(T)
    BY <2>4, ReverseIn
  <2>6. Bm25(ranking, limit) \in Seq(T)
    BY <2>1, <2>5 DEF Bm25, NewestFirst
  <2> QED BY <2>2, <2>6
<1> QED BY <1>2, <1>3

\* The evidence window brings in live rows.
LEMMA BatchIn ==
    ASSUME TableOK, NEW h \in Good, NEW window
    PROVE  Batch(h, window) \in Seq(Good)
<1>1. Neighbors(h.id, window) \in Seq(live)
  <2>1. CASE h.id \notin Here
    BY <2>1 DEF Neighbors
  <2>2. CASE h.id \in Here
    <3>1. PICK T : T = {r \in Here : /\ r <= h.id + window /\ h.id <= r + window
                                     /\ Attr[r].session = Attr[h.id].session}
      BY ONLY TRUE
    <3>2. T \in SUBSET live
      BY <3>1 DEF Here
    <3>3. T \in SUBSET Nat /\ IsFiniteSet(T)
      BY <3>2, LiveAre
    <3>4. Ascending(T) \in Seq(T)
      BY <3>3, AscendingProperties
    <3>5. Neighbors(h.id, window) = Ascending(T)
      BY <2>2, <3>1 DEF Neighbors
    <3> QED BY <3>2, <3>4, <3>5
  <2> QED BY <2>1, <2>2
<1>2. Sift(Neighbors(h.id, window), Rows \ {h.id}) \in Seq(live)
  BY <1>1, SiftProperties
<1>3. Read(Sift(Neighbors(h.id, window), Rows \ {h.id})) \in Seq(Good)
  BY <1>2, ReadGood
<1>4. <<h>> \in Seq(Good)
  BY ONLY h \in Good
<1> QED BY <1>3, <1>4 DEF Batch

LEMMA ExpandedIn ==
    ASSUME TableOK, hits \in Seq(Good), NEW window
    PROVE  Expanded(window) \in Seq(Good)
<1>1. IsFiniteSet(DOMAIN hits) /\ \A i \in DOMAIN hits : hits[i] \in Good
  BY EntriesFinite
<1> DEFINE Spread(i) == LET batch == Batch(hits[i], window)
                        IN {<<i, j, batch[j]>> : j \in DOMAIN batch}
           places == UNION {Spread(i) : i \in DOMAIN hits}
           Precedes(p, q) == p[1] < q[1] \/ (p[1] = q[1] /\ p[2] < q[2])
           kept == {q \in places : \A p \in places : Precedes(p, q) => p[3].id # q[3].id}
<1>2. ASSUME NEW i \in DOMAIN hits
      PROVE  IsFiniteSet(Spread(i)) /\ \A q \in Spread(i) : q[3] \in Good
  <2>1. PICK batch \in Seq(Good) : batch = Batch(hits[i], window)
    BY <1>1, <1>2, BatchIn
  <2>2. IsFiniteSet(DOMAIN batch) /\ \A j \in DOMAIN batch : batch[j] \in Good
    BY EntriesFinite
  <2> DEFINE f == [j \in DOMAIN batch |-> <<i, j, batch[j]>>]
             T == {f[j] : j \in DOMAIN batch}
  <2>3. IsFiniteSet(T)
    <3>1. DOMAIN f = DOMAIN batch
      OBVIOUS
    <3> HIDE DEF f
    <3> QED BY <2>2, <3>1, ImageFinite
  <2>4. ASSUME NEW q \in T PROVE q[3] \in Good
    <3>1. PICK j \in DOMAIN batch : q = f[j]
      OBVIOUS
    <3>2. f[j][3] = batch[j]
      BY ONLY j \in DOMAIN batch
    <3> QED BY <2>2, <3>1, <3>2
  <2>5. Spread(i) = T
    BY <2>1
  <2> HIDE DEF T, Spread
  <2> QED BY <2>3, <2>4, <2>5
<1>3. IsFiniteSet(places) /\ \A q \in places : q[3] \in Good
  <2> HIDE DEF Spread
  <2> DEFINE g == [i \in DOMAIN hits |-> Spread(i)]
             P == {g[i] : i \in DOMAIN hits}
  <2>1. IsFiniteSet(P)
    <3>1. DOMAIN g = DOMAIN hits
      OBVIOUS
    <3> HIDE DEF g
    <3> QED BY <1>1, <3>1, ImageFinite
  <2>2. P = {Spread(i) : i \in DOMAIN hits}
    OBVIOUS
  <2>3. \A Q \in P : IsFiniteSet(Q)
    BY <1>2, <2>2
  <2>4. places = UNION P
    BY <2>2
  <2>5. IsFiniteSet(places)
    <3> HIDE DEF P, places
    <3> QED BY <2>1, <2>3, <2>4, FS_UNION
  <2>6. \A q \in places : q[3] \in Good
    BY <1>2
  <2> QED BY <2>5, <2>6
<1>4. Expanded(window) = Keyed(kept)
  BY DEF Expanded
<1>5. kept \in SUBSET places
  OBVIOUS
<1> HIDE DEF places, kept
<1>6. IsFiniteSet(kept) /\ \A q \in kept : q[3] \in Good
  BY <1>3, <1>5, FS_Subset
<1> QED BY <1>4, <1>6, KeyedIn

\* A hit that the request may show.
Shown == {h \in Good : Allows(h)}

\* The graph brings in live rows that the request may show.
LEMMA GraphRowsIn == ASSUME TableOK PROVE Read(GraphRows) \in Seq(Shown)
<1> DEFINE W == {r \in Here : Allows([state |-> state[r]])}
           walks == [s \in req.seeds |-> Walk(s, Hops, Edges, Degree, DegreeCap)]
           near == UNION {{w[1] : w \in walks[s]} : s \in req.seeds} \cup req.seeds
           cand == Sift(Mentioning(near, Mentions), W)
           taken == Greedy(cand, Tokens, req.share)
           Of(i) == -GraphScore(cand[i], req.seeds, walks, Hops, Mentions)
           f == [i \in taken |-> <<Of(i), i, cand[i]>>]
           T == {f[i] : i \in taken}
<1>1. GraphRows = Keyed(T)
  BY DEF GraphRows
<1>2. cand \in Seq(W)
  <2> HIDE DEF near, W
  <2>1. IsFiniteSet(Mentions)
    BY RetrievalAssumption
  <2>2. PICK E : E = {m[1] : m \in Mentions}
    BY ONLY TRUE
  <2>3. Mentioning(near, Mentions) \in Seq(E)
    BY <2>1, <2>2, MentioningIn
  <2>4. cand \in Seq(E \cap W)
    BY <2>3, SiftIn
  <2> HIDE DEF cand
  <2> QED BY <2>4
<1>3. IsFiniteSet(taken) /\ \A i \in taken : cand[i] \in W
  <2> HIDE DEF cand, W
  <2>1. IsFiniteSet(DOMAIN cand) /\ \A i \in DOMAIN cand : cand[i] \in W
    BY <1>2, EntriesFinite
  <2>2. taken \in SUBSET (DOMAIN cand)
    BY GreedyIn
  <2> QED BY <2>1, <2>2, FS_Subset
<1>4. IsFiniteSet(T)
  <2>1. DOMAIN f = taken
    OBVIOUS
  <2> HIDE DEF f, taken
  <2> QED BY <1>3, <2>1, ImageFinite
<1>5. ASSUME NEW e \in T PROVE e[3] \in W
  <2> HIDE DEF taken, cand, W, Of
  <2>1. PICK i \in taken : e = f[i]
    OBVIOUS
  <2>2. f[i][3] = cand[i]
    BY ONLY i \in taken
  <2> QED BY <1>3, <2>1, <2>2
<1> HIDE DEF T
<1>6. PICK ids \in Seq(W) : ids = GraphRows
  BY <1>1, <1>4, <1>5, KeyedIn
<1>7. W \in SUBSET live
  BY DEF Here
<1>8. ids \in Seq(live) /\ ids \in Seq(Rows)
      /\ DOMAIN ids = 1..Len(ids) /\ \A i \in 1..Len(ids) : ids[i] \in W
  <2>1. Len(ids) \in Nat /\ DOMAIN ids = 1..Len(ids) /\ \A i \in 1..Len(ids) : ids[i] \in W
    <3> HIDE DEF W
    <3> QED OBVIOUS
  <2>2. W \in SUBSET Rows
    BY <1>7, LiveAre
  <2> HIDE DEF W
  <2> QED BY <1>7, <2>1, <2>2
<1> HIDE DEF W
<1>9. PICK hs \in Seq(Good) : hs = Read(ids)
  BY <1>8, ReadGood
<1>10. Len(hs) = Len(ids)
       /\ \A i \in 1..Len(ids) : hs[i].id = ids[i] /\ hs[i].state = state[ids[i]]
  BY <1>8, <1>9, ReadIs
<1>11. ASSUME NEW i \in 1..Len(hs) PROVE hs[i] \in Shown
  <2>1. hs[i] \in Good /\ hs[i].state = state[ids[i]] /\ ids[i] \in W
    BY <1>8, <1>10
  <2>2. Allows([state |-> state[ids[i]]])
    BY <2>1 DEF W
  <2>3. Allows(hs[i])
    BY <2>1, <2>2 DEF Allows
  <2> QED BY <2>1, <2>3 DEF Shown
<1>12. hs \in Seq(Shown)
  BY <1>11
<1> QED BY <1>6, <1>9, <1>12

------------------------------------------------------------------------------
(* Fusion: rows in hand, or fetched now. *)

LEMMA IdsIn == ASSUME NEW list \in Seq(Hit) PROVE Ids(list) \in Seq(Rows)
<1>1. Len(list) \in Nat /\ DOMAIN list = 1..Len(list)
      /\ \A i \in 1..Len(list) : list[i] \in Hit
  OBVIOUS
<1>2. \A i \in 1..Len(list) : list[i].id \in Rows
  BY <1>1 DEF Hit
<1> HIDE DEF Hit
<1>3. Ids(list) = [i \in 1..Len(list) |-> list[i].id]
  BY <1>1 DEF Ids
<1> QED BY <1>1, <1>2, <1>3

LEMMA OrdersIn ==
    ASSUME NEW S, NEW list \in Seq(S), NEW order \in Orders(list)
    PROVE  order \in Seq(S)
<1>1. CASE req.decay
  <2>1. Len(list) \in Nat /\ DOMAIN list = 1..Len(list)
        /\ \A i \in 1..Len(list) : list[i] \in S
    OBVIOUS
  <2>2. order \in [DOMAIN list -> ToSet(list)]
    BY <1>1 DEF Orders
  <2>3. ToSet(list) \subseteq S
    BY <2>1 DEF ToSet
  <2>4. order \in [1..Len(list) -> S]
    BY <2>1, <2>2, <2>3
  <2> QED BY <2>1, <2>4
<1>2. CASE ~req.decay
  BY <1>2 DEF Orders
<1> QED BY <1>1, <1>2

LEMMA FetchIn ==
    ASSUME TableOK, NEW r \in Rows
    PROVE  /\ Fetch(<<r>>) \in Seq(Good)
           /\ Fetch(<<r>>) # <<>> => Fetch(<<r>>)[1] \in Good
<1>1. <<r>> \in Seq(Rows)
  BY ONLY r \in Rows
<1>2. Sift(<<r>>, live) \in Seq(Rows \cap live)
  BY <1>1, SiftIn
<1>3. Rows \cap live = live
  BY DEF TableOK
<1>4. PICK hs \in Seq(Good) : hs = Fetch(<<r>>)
  BY <1>2, <1>3, ReadGood DEF Fetch
<1>5. hs # <<>> => hs[1] \in Good
  OBVIOUS
<1> QED BY <1>4, <1>5

LEMMA FusedIn ==
    ASSUME TableOK, NEW a \in Seq(Good), NEW b \in Seq(Hit), NEW c \in Seq(Good),
           lanes[1] = a, lanes[2] = b, lanes[3] = c, req.limit \in Nat, FuseLanes
    PROVE  hits' \in Seq(Good)
<1> DEFINE fused == Fuse(Lists, K, Depth)
           inHand == ToSet(lanes[1]) \cup ToSet(DenseHits)
           Held(r) == \E o \in inHand : o.id = r
           T == {r \in ToSet(fused) : Held(r) \/ Fetch(<<r>>) # <<>>}
           kept == Sift(fused, T)
           Row(r) == IF Held(r) THEN CHOOSE o \in inHand : o.id = r ELSE Fetch(<<r>>)[1]
           list == [i \in DOMAIN kept |-> Row(kept[i])]
<1>1. lanes[1] = a /\ lanes[2] = b /\ lanes[3] = c
  OBVIOUS
<1>0. PICK d \in Seq(Good) : d = DenseHits
  BY SiftProperties DEF DenseHits
<1>2. Lists = <<Ids(a), Ids(d), Ids(b)>>
  BY <1>0, <1>1 DEF Lists
<1>3. Good \in SUBSET Hit
  BY DEF Good
<1>4. a \in Seq(Hit) /\ d \in Seq(Hit)
  BY <1>3
<1>5. fused \in Seq(Rows)
  BY <1>2, <1>4, IdsIn, FuseIn
<1>6. inHand \subseteq Good
  BY <1>0, <1>1, EntriesFinite DEF ToSet
<1>7. kept \in Seq(Rows \cap T)
  <2> HIDE DEF fused, T
  <2> QED BY <1>5, SiftIn
<1>8. ASSUME NEW r \in Rows \cap T PROVE Row(r) \in Good
  <2>1. Held(r) \/ Fetch(<<r>>) # <<>>
    BY <1>8
  <2>2. CASE Held(r)
    <3> HIDE DEF inHand
    <3>1. Row(r) = CHOOSE o \in inHand : o.id = r
      BY <2>2
    <3>2. (CHOOSE o \in inHand : o.id = r) \in inHand
      BY <2>2
    <3> QED BY <1>6, <3>1, <3>2
  <2>3. CASE ~Held(r)
    <3>1. Row(r) = Fetch(<<r>>)[1]
      BY <2>3
    <3> HIDE DEF Row, Held
    <3> QED BY <2>1, <2>3, <3>1, FetchIn
  <2> QED BY <2>2, <2>3
<1>9. list \in Seq(Good)
  <2> HIDE DEF Row, T, kept
  <2>1. Len(kept) \in Nat /\ DOMAIN kept = 1..Len(kept)
        /\ \A i \in 1..Len(kept) : kept[i] \in Rows \cap T
    BY <1>7
  <2>2. \A i \in 1..Len(kept) : Row(kept[i]) \in Good
    BY <1>8, <2>1
  <2>3. list = [i \in 1..Len(kept) |-> Row(kept[i])]
    BY <2>1
  <2> QED BY <2>1, <2>2, <2>3
<1>10. \/ \E order \in Orders(Take(lanes[1], req.limit)) : hits' = order
       \/ \E order \in Orders(list) : hits' = Take(order, req.limit)
  BY DEF FuseLanes
<1> HIDE DEF list
<1>11. CASE \E order \in Orders(Take(lanes[1], req.limit)) : hits' = order
  <2>1. Take(a, req.limit) \in Seq(Good)
    BY TakeIn
  <2>2. PICK order \in Orders(Take(a, req.limit)) : hits' = order
    BY <1>1, <1>11
  <2> QED BY <2>1, <2>2, OrdersIn
<1>12. CASE \E order \in Orders(list) : hits' = Take(order, req.limit)
  <2>1. PICK order \in Orders(list) : hits' = Take(order, req.limit)
    BY <1>12
  <2>2. order \in Seq(Good)
    BY <1>9, <2>1, OrdersIn
  <2> QED BY <2>1, <2>2, TakeIn
<1> QED BY <1>10, <1>11, <1>12

------------------------------------------------------------------------------
(* A timeline. *)

\* By time, and within a second by id, any two rows have an order.
LEMMA EarlierOrders ==
    ASSUME NEW a \in Rows, NEW b \in Rows, NEW c \in Rows
    PROVE  /\ ~Earlier(a, a)
           /\ a = b \/ Earlier(a, b) \/ Earlier(b, a)
           /\ Earlier(a, b) /\ Earlier(b, c) => Earlier(a, c)
<1>1. PICK ta, tb, tc \in Nat : ta = Attr[a].time /\ tb = Attr[b].time /\ tc = Attr[c].time
  BY RetrievalAssumption
<1>2. a \in Nat /\ b \in Nat /\ c \in Nat
  BY RowsAre
<1> QED BY <1>1, <1>2 DEF Earlier

\* The first rows of an order are shown without a gap.
LEMMA TakenUpTo ==
    ASSUME TableOK, NEW S \in SUBSET live, NEW R, StrictOrder(S, R), NEW n \in Nat
    PROVE  \E a \in Seq(Good) :
             /\ a = Read(Take(Listed(S, R), n))
             /\ \A i \in DOMAIN a : a[i].id \in S
             /\ \A i \in DOMAIN a, r \in S : <<r, a[i].id>> \in R => r \in IdsOf(a)
<1>1. IsFiniteSet(S)
  BY LiveAre
<1>2. PICK s \in Seq(S) : s = Listed(S, R)
  BY <1>1, ListedIn
<1>3. /\ Len(s) \in Nat
      /\ \A x \in S : \E k \in 1..Len(s) : s[k] = x
      /\ \A k, l \in 1..Len(s) : <<s[k], s[l]>> \in R => k < l
  <2>1. PICK m : m = Cardinality(S)
    BY ONLY TRUE
  <2>2. /\ m \in Nat /\ s \in [1..m -> S]
        /\ \A x \in S : \E k \in 1..m : s[k] = x
        /\ \A k, l \in 1..m : <<s[k], s[l]>> \in R => k < l
    <3>1. /\ m \in Nat /\ Listed(S, R) \in [1..m -> S]
          /\ \A x \in S : \E k \in 1..m : Listed(S, R)[k] = x
          /\ \A k, l \in 1..m : k < l <=> <<Listed(S, R)[k], Listed(S, R)[l]>> \in R
      BY <1>1, <2>1, ListedProperties
    <3> QED BY <1>2, <3>1
  <2>3. Len(s) = m
    BY <2>2
  <2> QED BY <2>2, <2>3
<1>4. PICK t : t = Take(s, n)
  BY ONLY TRUE
<1>5. /\ t \in Seq(S) /\ Len(t) \in Nat /\ Len(t) <= Len(s)
      /\ \A i \in 1..Len(t) : t[i] = s[i]
  <2>1. /\ Take(s, n) \in Seq(S) /\ Len(Take(s, n)) <= Len(s)
        /\ \A i \in 1..Len(Take(s, n)) : Take(s, n)[i] = s[i]
    BY TakeIn
  <2>2. t \in Seq(S) /\ Len(t) <= Len(s) /\ \A i \in 1..Len(t) : t[i] = s[i]
    BY <1>4, <2>1
  <2>3. Len(t) \in Nat
    BY <2>2
  <2> QED BY <2>2, <2>3
<1>6. t \in Seq(live) /\ t \in Seq(Rows)
  <2>1. S \in SUBSET Rows
    BY LiveAre
  <2> QED BY <1>5, <2>1
<1>7. PICK a \in Seq(Good) : a = Read(t)
  BY <1>6, ReadGood
<1>8. DOMAIN a = 1..Len(t) /\ \A i \in 1..Len(t) : a[i].id = t[i]
  <2>1. Len(a) = Len(t) /\ \A i \in 1..Len(t) : a[i].id = t[i]
    BY <1>6, <1>7, ReadIs
  <2>2. DOMAIN a = 1..Len(a)
    OBVIOUS
  <2> QED BY <2>1, <2>2
<1>9. \A i \in DOMAIN a : a[i].id \in S
  BY <1>5, <1>8
<1>10. ASSUME NEW i \in DOMAIN a, NEW r \in S, <<r, a[i].id>> \in R
       PROVE  r \in IdsOf(a)
  <2>1. i \in 1..Len(t) /\ i \in 1..Len(s) /\ a[i].id = s[i]
    <3>1. i \in 1..Len(t)
      BY <1>8
    <3>2. a[i].id = t[i] /\ t[i] = s[i]
      BY <1>5, <1>8, <3>1
    <3>3. i \in 1..Len(s)
      BY ONLY <1>3, <1>5, <3>1
    <3> QED BY <3>1, <3>2, <3>3
  <2>2. PICK k \in 1..Len(s) : s[k] = r
    BY <1>3
  <2>3. k < i
    BY <1>3, <1>10, <2>1, <2>2
  <2>4. k \in 1..Len(t)
    BY ONLY <1>5, <2>1, <2>3
  <2>5. k \in DOMAIN a /\ a[k].id = r
    BY <1>5, <1>8, <2>2, <2>4
  <2> QED BY <2>5 DEF IdsOf
<1> QED BY <1>2, <1>4, <1>7, <1>9, <1>10

------------------------------------------------------------------------------
(* The steps of a request. *)

\* The steps that a request of each kind takes, and what it has got so far.
StageOK ==
    /\ pc # "done" => more = <<>>
    /\ \/ pc = "idle" /\ hits = <<>>
       \/ /\ req \in Requests
          /\ \/ pc = req.kind \/ pc = "done"
             \/ pc \in {"facts", "dense", "fuse", "rerank"} /\ req.kind \in {"search", "context"}
             \/ pc = "expand" /\ req.kind \in Briefings
             \/ pc = "pack" /\ req.kind \in Briefings \cup {"search"}
             \/ pc = "graph" /\ req.kind = "context"
             \/ pc \in {"mirror", "globalDense", "globalFuse"} /\ req.kind = "global"
             \/ pc \in {"before", "after"} /\ req.kind = "timeline"

Lane == Seq(Hit)

LanesOK ==
    /\ pc \in {"facts", "dense", "fuse"} => lanes \in Seq(Lane) /\ lanes[1] \in Seq(Good)
    /\ pc = "facts" => Len(lanes) = 1
    /\ pc = "dense" => Len(lanes) = 2
    /\ pc = "fuse" => Len(lanes) = 3 /\ lanes[3] \in Seq(Good)

\* Rows of the mirror are excepted: it hears of no deletion.
HitsOK ==
    pc # "idle" /\ req.kind \notin {"mirror", "global"} =>
        hits \in Seq(Good) /\ more \in Seq(Good)

ShownOK ==
    pc \in {"graph", "done"} /\ req.kind \in Briefings =>
        hits \in Seq(Shown) /\ more \in Seq(Shown)

\* The rows a are earlier than the anchor, and no row between is left out.
UpTo(a, anchor) ==
    /\ \A i \in DOMAIN a : Earlier(a[i].id, anchor)
    /\ \A i \in DOMAIN a, r \in Here :
         Earlier(a[i].id, r) /\ Earlier(r, anchor) => r \in IdsOf(a)

TimelineOK ==
    /\ pc \in {"before", "after"} => Len(hits) = 1
    /\ pc = "after" => lanes[1] \in Seq(Good) /\ UpTo(lanes[1], hits[1].id)
    /\ TimelineHasNoGaps

ReadsInv == TableOK /\ StageOK /\ LanesOK /\ HitsOK /\ ShownOK /\ TimelineOK

LEMMA KindsAre ==
    ASSUME NEW q \in Requests
    PROVE  /\ q.kind \in {"context", "recent", "anchor", "search", "mirror", "global",
                          "fanout", "timeline"}
           /\ q.limit \in Nat /\ q.window \in Nat
BY RetrievalAssumption DEF Kinds, Briefings

LEMMA ReadsInvInit == ReadsInit => ReadsInv
<1> SUFFICES ASSUME ReadsInit PROVE ReadsInv
  OBVIOUS
<1>1. pc = "idle" /\ hits = <<>> /\ more = <<>>
  BY DEF ReadsInit
<1>2. TableOK
  <2>1. live \subseteq Rows /\ gone = {} /\ away = {}
    BY DEF ReadsInit
  <2>2. state \in [Rows -> States]
    BY DEF ReadsInit, States
  <2> QED BY <2>1, <2>2 DEF TableOK
<1>3. StageOK
  BY <1>1 DEF StageOK
<1>4. LanesOK /\ HitsOK /\ ShownOK /\ TimelineOK
  BY <1>1 DEF LanesOK, HitsOK, ShownOK, TimelineOK, TimelineHasNoGaps
<1> QED BY <1>2, <1>3, <1>4 DEF ReadsInv

\* A step of the request leaves the tables alone.
LEMMA TableStays ==
    ASSUME TableOK, UNCHANGED table
    PROVE  TableOK' /\ Good' = Good /\ live' = live
           /\ (req' = req => Shown' = Shown /\ Here' = Here)
<1>1. /\ live' = live /\ state' = state /\ gone' = gone /\ away' = away
  BY DEF table
<1>2. Good' = Good
  BY <1>1 DEF Good
<1>3. req' = req => Shown' = Shown /\ Here' = Here
  BY <1>1, <1>2 DEF Shown, Allows, Here
<1> QED BY <1>1, <1>2, <1>3 DEF TableOK

LEMMA BeginStep == ASSUME ReadsInv, NEW q \in Requests, Begin(q) PROVE ReadsInv'
<1>1. /\ pc = "idle" /\ pc' = q.kind /\ req' = q /\ hits' = hits /\ more' = more
      /\ live' = live /\ state' = state /\ gone' = Rows \ live
      /\ away' = {r \in Rows : state[r] \in Withdrawn}
  BY DEF Begin
<1>2. hits = <<>> /\ more = <<>>
  BY <1>1, KindsAre DEF ReadsInv, StageOK
<1>3. TableOK'
  BY <1>1 DEF ReadsInv, TableOK
<1>4. StageOK'
  BY <1>1, <1>2 DEF StageOK
<1>5. HitsOK'
  <2>1. hits' \in Seq(Good') /\ more' \in Seq(Good')
    BY <1>1, <1>2
  <2> QED BY <2>1 DEF HitsOK
<1>6. pc' \notin {"idle", "facts", "dense", "fuse", "graph", "done", "before", "after"}
  BY <1>1, KindsAre
<1>7. LanesOK' /\ ShownOK' /\ TimelineOK'
  BY <1>6 DEF LanesOK, ShownOK, TimelineOK, TimelineHasNoGaps
<1> QED BY <1>3, <1>4, <1>5, <1>7 DEF ReadsInv

\* The lane of an index read now.
LEMMA LaneRead ==
    ASSUME TableOK, NEW ranking \in Rankings, NEW limit \in Nat
    PROVE  Read(Bm25(ranking, limit)) \in Seq(Good) /\ Read(Dense(ranking, limit)) \in Seq(Good)
BY LanesLive, ReadGood

LEMMA SearchStep == ASSUME ReadsInv, Search PROVE ReadsInv'
<1>1. /\ TableOK' /\ Good' = Good /\ TableOK
      /\ pc \in {"search", "context"} /\ req' = req /\ more' = more
  BY TableStays DEF Search, ReadsInv
<1>2. req \in Requests /\ req.kind \in {"search", "context"} /\ more = <<>>
  BY <1>1, KindsAre DEF ReadsInv, StageOK
<1>3. hits \in Seq(Good) /\ more \in Seq(Good)
  BY <1>1, <1>2 DEF ReadsInv, HitsOK
<1>4. PICK ranking \in Rankings :
        \/ lanes' = <<Read(Bm25(ranking, Depth))>> /\ pc' = "facts" /\ hits' = hits
        \/ hits' = Read(Bm25(ranking, req.limit)) /\ pc' = "rerank"
  BY DEF Search
<1>5. req.limit \in Nat /\ Depth \in Nat
  BY <1>2, KindsAre, RetrievalAssumption
<1>6. StageOK'
  BY <1>1, <1>2, <1>4 DEF StageOK
<1>7. HitsOK'
  BY <1>1, <1>3, <1>4, <1>5, LaneRead DEF HitsOK
<1>8. LanesOK'
  <2>1. CASE lanes' = <<Read(Bm25(ranking, Depth))>> /\ pc' = "facts"
    <3>1. PICK a \in Seq(Good) : a = Read(Bm25(ranking, Depth))
      BY <1>1, <1>5, LaneRead
    <3>2. lanes' = <<a>>
      BY <2>1, <3>1
    <3>3. Lane' = Lane
      BY DEF Lane, Hit
    <3>4. a \in Seq(Hit)
      <4>1. Good \in SUBSET Hit
        BY DEF Good
      <4> QED BY <4>1
    <3>5. lanes' \in Seq(Lane) /\ lanes'[1] = a /\ Len(lanes') = 1
      <4>1. a \in Lane
        BY <3>4 DEF Lane
      <4>2. <<a>> \in Seq(Lane) /\ <<a>>[1] = a /\ Len(<<a>>) = 1
        BY ONLY <4>1
      <4> QED BY <3>2, <4>2
    <3> QED BY <1>1, <2>1, <3>3, <3>5 DEF LanesOK
  <2>2. CASE pc' = "rerank"
    BY <2>2 DEF LanesOK
  <2> QED BY <1>4, <2>1, <2>2
<1>9. ShownOK' /\ TimelineOK'
  BY <1>4 DEF ShownOK, TimelineOK, TimelineHasNoGaps
<1> QED BY <1>1, <1>6, <1>7, <1>8, <1>9 DEF ReadsInv

LEMMA FactsStep == ASSUME ReadsInv, Facts PROVE ReadsInv'
<1>1. /\ TableOK' /\ Good' = Good /\ TableOK
      /\ pc = "facts" /\ pc' = "dense" /\ UNCHANGED <<req, hits, more>>
  BY TableStays DEF Facts, ReadsInv
<1>2. req \in Requests /\ req.kind \in {"search", "context"} /\ more = <<>>
  BY <1>1, KindsAre DEF ReadsInv, StageOK
<1>3. lanes \in Seq(Lane) /\ Len(lanes) = 1 /\ lanes[1] \in Seq(Good)
  BY <1>1 DEF ReadsInv, LanesOK
<1>4. PICK b \in Seq(Hit) : lanes' = Append(lanes, b)
  <2>1. PICK ranking \in Rankings :
          lanes' = Append(lanes, [i \in DOMAIN Index(ranking, req.project, Depth) |->
                                   [id |-> Index(ranking, req.project, Depth)[i], state |-> Unset]])
    BY DEF Facts
  <2>2. PICK parents \in Seq(Rows) : parents = Index(ranking, req.project, Depth)
    BY IndexIn, RetrievalAssumption
  <2>3. PICK b : b = [i \in 1..Len(parents) |-> [id |-> parents[i], state |-> Unset]]
    BY ONLY TRUE
  <2>4. Len(parents) \in Nat /\ DOMAIN parents = 1..Len(parents)
        /\ \A i \in 1..Len(parents) : [id |-> parents[i], state |-> Unset] \in Hit
    BY DEF Hit
  <2>5. b \in Seq(Hit)
    BY <2>3, <2>4
  <2>6. lanes' = Append(lanes, b)
    BY <2>1, <2>2, <2>3, <2>4
  <2> QED BY <2>5, <2>6
<1>5. /\ lanes' \in Seq(Lane) /\ Len(lanes') = 2 /\ lanes'[1] = lanes[1]
  <2>1. 1 \in 1..Len(lanes)
    BY ONLY <1>3
  <2>2. /\ lanes' \in Seq(Lane) /\ Len(lanes') = Len(lanes) + 1
        /\ \A i \in 1..Len(lanes) : lanes'[i] = lanes[i]
    <3>1. lanes \in Seq(Lane) /\ b \in Lane
      BY <1>3 DEF Lane
    <3> QED BY <1>4, <3>1, AppendIn
  <2> QED BY <1>3, <2>1, <2>2
<1>6. LanesOK'
  <2>1. Lane' = Lane
    BY DEF Lane, Hit
  <2> QED BY <1>1, <1>3, <1>5, <2>1 DEF LanesOK
<1>7. StageOK'
  BY <1>1, <1>2 DEF StageOK
<1>8. HitsOK'
  <2>1. hits \in Seq(Good) /\ more \in Seq(Good)
    BY <1>1, <1>2 DEF ReadsInv, HitsOK
  <2>2. hits' \in Seq(Good') /\ more' \in Seq(Good')
    BY <1>1, <2>1
  <2> QED BY <2>2 DEF HitsOK
<1>9. ShownOK' /\ TimelineOK'
  BY <1>1 DEF ShownOK, TimelineOK, TimelineHasNoGaps
<1> QED BY <1>1, <1>6, <1>7, <1>8, <1>9 DEF ReadsInv

LEMMA DenseLaneStep == ASSUME ReadsInv, DenseLane PROVE ReadsInv'
<1>1. /\ TableOK' /\ Good' = Good /\ TableOK
      /\ pc = "dense" /\ pc' = "fuse" /\ UNCHANGED <<req, hits, more>>
  BY TableStays DEF DenseLane, ReadsInv
<1>2. req \in Requests /\ req.kind \in {"search", "context"} /\ more = <<>>
  BY <1>1, KindsAre DEF ReadsInv, StageOK
<1>3. lanes \in Seq(Lane) /\ Len(lanes) = 2 /\ lanes[1] \in Seq(Good)
  BY <1>1 DEF ReadsInv, LanesOK
<1>4. PICK c \in Seq(Good) : lanes' = Append(lanes, c)
  <2>1. PICK ranking \in Rankings : lanes' = Append(lanes, Read(Dense(ranking, Depth)))
    BY DEF DenseLane
  <2> QED BY <1>1, <2>1, LaneRead, RetrievalAssumption
<1>5. lanes' \in Seq(Lane) /\ Len(lanes') = 3 /\ lanes'[1] = lanes[1] /\ lanes'[3] = c
  <2>1. c \in Seq(Hit)
    <3>1. Good \in SUBSET Hit
      BY DEF Good
    <3> QED BY <3>1
  <2>2. 1 \in 1..Len(lanes)
    BY ONLY <1>3
  <2>3. /\ lanes' \in Seq(Lane) /\ Len(lanes') = Len(lanes) + 1
        /\ lanes'[Len(lanes) + 1] = c
        /\ \A i \in 1..Len(lanes) : lanes'[i] = lanes[i]
    <3>1. lanes \in Seq(Lane) /\ c \in Lane
      BY <1>3, <2>1 DEF Lane
    <3> QED BY <1>4, <3>1, AppendIn
  <2> QED BY <1>3, <2>2, <2>3
<1>6. LanesOK'
  <2>1. Lane' = Lane
    BY DEF Lane, Hit
  <2> QED BY <1>1, <1>3, <1>5, <2>1 DEF LanesOK
<1>7. StageOK'
  BY <1>1, <1>2 DEF StageOK
<1>8. HitsOK'
  <2>1. hits \in Seq(Good) /\ more \in Seq(Good)
    BY <1>1, <1>2 DEF ReadsInv, HitsOK
  <2>2. hits' \in Seq(Good') /\ more' \in Seq(Good')
    BY <1>1, <2>1
  <2> QED BY <2>2 DEF HitsOK
<1>9. ShownOK' /\ TimelineOK'
  BY <1>1 DEF ShownOK, TimelineOK, TimelineHasNoGaps
<1> QED BY <1>1, <1>6, <1>7, <1>8, <1>9 DEF ReadsInv

LEMMA FuseLanesStep == ASSUME ReadsInv, FuseLanes PROVE ReadsInv'
<1>1. /\ TableOK' /\ Good' = Good /\ TableOK
      /\ pc = "fuse" /\ pc' = "rerank" /\ UNCHANGED <<req, lanes, more>>
  BY TableStays DEF FuseLanes, ReadsInv
<1>2. req \in Requests /\ req.kind \in {"search", "context"} /\ more = <<>>
  BY <1>1, KindsAre DEF ReadsInv, StageOK
<1>3. lanes[1] \in Seq(Good) /\ lanes[2] \in Seq(Hit) /\ lanes[3] \in Seq(Good)
  <2>1. lanes \in Seq(Lane) /\ lanes[1] \in Seq(Good) /\ Len(lanes) = 3
        /\ lanes[3] \in Seq(Good)
    BY <1>1 DEF ReadsInv, LanesOK
  <2>2. 2 \in 1..Len(lanes)
    BY ONLY <2>1
  <2>3. \A i \in 1..Len(lanes) : lanes[i] \in Lane
    BY <2>1, EntriesFinite
  <2> QED BY <2>1, <2>2, <2>3 DEF Lane
<1>4. req.limit \in Nat
  BY <1>2, KindsAre
<1>5. hits' \in Seq(Good)
  BY <1>1, <1>3, <1>4, FusedIn
<1>6. HitsOK'
  BY <1>1, <1>2, <1>5 DEF HitsOK
<1>7. StageOK'
  BY <1>1, <1>2 DEF StageOK
<1>8. LanesOK' /\ ShownOK' /\ TimelineOK'
  BY <1>1 DEF LanesOK, ShownOK, TimelineOK, TimelineHasNoGaps
<1> QED BY <1>1, <1>6, <1>7, <1>8 DEF ReadsInv

LEMMA RerankHitsStep == ASSUME ReadsInv, RerankHits PROVE ReadsInv'
<1>1. /\ TableOK' /\ Good' = Good
      /\ pc = "rerank" /\ UNCHANGED <<req, lanes, more>>
      /\ hits' = IF req.rerank THEN Rerank(hits, Text) ELSE hits
      /\ pc' = IF req.kind = "search" THEN "pack" ELSE "expand"
  BY TableStays DEF RerankHits, ReadsInv
<1>2. req \in Requests /\ req.kind \in {"search", "context"} /\ more = <<>>
  BY <1>1, KindsAre DEF ReadsInv, StageOK
<1>3. hits \in Seq(Good) /\ more \in Seq(Good)
  BY <1>1, <1>2 DEF ReadsInv, HitsOK
<1>4. hits' \in Seq(Good)
  <2>1. Rerank(hits, Text) \in Seq(Good)
    BY <1>3, RerankIn
  <2> QED BY <1>1, <1>3, <2>1
<1>5. HitsOK'
  BY <1>1, <1>3, <1>4 DEF HitsOK
<1>6. StageOK'
  BY <1>1, <1>2 DEF StageOK, Briefings
<1>7. LanesOK' /\ ShownOK' /\ TimelineOK'
  BY <1>1 DEF LanesOK, ShownOK, TimelineOK, TimelineHasNoGaps
<1> QED BY <1>1, <1>5, <1>6, <1>7 DEF ReadsInv

LEMMA RecentStep == ASSUME ReadsInv, Recent PROVE ReadsInv'
<1>1. /\ TableOK' /\ Good' = Good /\ TableOK
      /\ pc = "recent" /\ pc' = "expand" /\ UNCHANGED <<req, lanes, more>>
      /\ hits' = Read(Take(NewestFirst(Here), req.limit))
  BY TableStays DEF Recent, ReadsInv
<1>2. req \in Requests /\ req.kind = "recent" /\ more = <<>> /\ req.limit \in Nat
  BY <1>1, KindsAre DEF ReadsInv, StageOK
<1>3. hits' \in Seq(Good)
  <2>1. Here \in SUBSET live
    BY DEF Here
  <2>2. Here \in SUBSET Nat /\ IsFiniteSet(Here)
    BY <1>1, <2>1, LiveAre
  <2>3. Ascending(Here) \in Seq(Here)
    BY <2>2, AscendingProperties
  <2>4. NewestFirst(Here) \in Seq(Here)
    BY <2>3, ReverseIn DEF NewestFirst
  <2>5. Take(NewestFirst(Here), req.limit) \in Seq(Here)
    BY <1>2, <2>4, TakeIn
  <2>6. Take(NewestFirst(Here), req.limit) \in Seq(live)
    BY <2>1, <2>5
  <2> QED BY <1>1, <2>6, ReadGood
<1>4. more' \in Seq(Good)
  BY <1>1, <1>2
<1>5. HitsOK'
  BY <1>1, <1>3, <1>4 DEF HitsOK
<1>6. StageOK'
  BY <1>1, <1>2 DEF StageOK, Briefings
<1>7. LanesOK' /\ ShownOK' /\ TimelineOK'
  BY <1>1 DEF LanesOK, ShownOK, TimelineOK, TimelineHasNoGaps
<1> QED BY <1>1, <1>5, <1>6, <1>7 DEF ReadsInv

LEMMA ByAnchorStep == ASSUME ReadsInv, ByAnchor PROVE ReadsInv'
<1>1. /\ TableOK' /\ Good' = Good /\ TableOK
      /\ pc = "anchor" /\ pc' = "expand" /\ UNCHANGED <<req, lanes, more>>
  BY TableStays DEF ByAnchor, ReadsInv
<1>2. req \in Requests /\ req.kind = "anchor" /\ more = <<>> /\ req.limit \in Nat
  BY <1>1, KindsAre DEF ReadsInv, StageOK
<1>3. hits' \in Seq(Good)
  <2>1. PICK ranking \in Rankings : hits' = Read(Take(Sift(ranking, Here), req.limit))
    BY DEF ByAnchor
  <2>2. ranking \in Seq(Rows)
    BY RetrievalAssumption
  <2>3. Sift(ranking, Here) \in Seq(Rows \cap Here)
    BY <2>2, SiftIn
  <2>4. Rows \cap Here \in SUBSET live
    BY DEF Here
  <2>5. Take(Sift(ranking, Here), req.limit) \in Seq(Rows \cap Here)
    BY <1>2, <2>3, TakeIn
  <2>6. Take(Sift(ranking, Here), req.limit) \in Seq(live)
    BY <2>4, <2>5
  <2> QED BY <1>1, <2>1, <2>6, ReadGood
<1>4. more' \in Seq(Good)
  BY <1>1, <1>2
<1>5. HitsOK'
  BY <1>1, <1>3, <1>4 DEF HitsOK
<1>6. StageOK'
  BY <1>1, <1>2 DEF StageOK, Briefings
<1>7. LanesOK' /\ ShownOK' /\ TimelineOK'
  BY <1>1 DEF LanesOK, ShownOK, TimelineOK, TimelineHasNoGaps
<1> QED BY <1>1, <1>5, <1>6, <1>7 DEF ReadsInv

LEMMA ExpandStep == ASSUME ReadsInv, Expand PROVE ReadsInv'
<1>1. /\ TableOK' /\ Good' = Good /\ TableOK
      /\ pc = "expand" /\ pc' = "pack" /\ UNCHANGED <<req, lanes, more>>
      /\ hits' = Take(IF req.window = 0 THEN hits ELSE Expanded(req.window), req.limit)
  BY TableStays DEF Expand, ReadsInv
<1>2. req \in Requests /\ req.kind \in Briefings /\ more = <<>> /\ req.limit \in Nat
  BY <1>1, KindsAre DEF ReadsInv, StageOK
<1>3. hits \in Seq(Good) /\ more \in Seq(Good)
  BY <1>1, <1>2 DEF ReadsInv, HitsOK, Briefings
<1>4. hits' \in Seq(Good)
  BY <1>1, <1>2, <1>3, ExpandedIn, TakeIn
<1>5. HitsOK'
  BY <1>1, <1>3, <1>4 DEF HitsOK
<1>6. StageOK'
  BY <1>1, <1>2 DEF StageOK, Briefings
<1>7. LanesOK' /\ ShownOK' /\ TimelineOK'
  BY <1>1 DEF LanesOK, ShownOK, TimelineOK, TimelineHasNoGaps
<1> QED BY <1>1, <1>5, <1>6, <1>7 DEF ReadsInv

LEMMA PackHitsStep == ASSUME ReadsInv, PackHits PROVE ReadsInv'
<1>1. /\ TableOK' /\ Good' = Good /\ Shown' = Shown
      /\ pc = "pack" /\ pc' = (IF req.kind = "context" /\ req.share > 0 THEN "graph" ELSE "done")
      /\ UNCHANGED <<req, lanes, more>>
  BY TableStays DEF PackHits, ReadsInv
<1>2. req \in Requests /\ req.kind \in Briefings \cup {"search"} /\ more = <<>>
  BY <1>1, KindsAre DEF ReadsInv, StageOK, Briefings
<1>3. hits \in Seq(Good)
  BY <1>1, <1>2 DEF ReadsInv, HitsOK, Briefings
<1> DEFINE quota == MaxPerType(hits, Type, req.perType)
           allowed == Sift(quota, {h \in ToSet(quota) : Allows(h)})
           shown == IF req.kind = "search" THEN quota ELSE allowed
<1>4. quota \in Seq(Good)
  BY <1>3, MaxPerTypeIn
<1>5. allowed \in Seq(Shown)
  <2> HIDE DEF quota
  <2>1. PICK T : T = {h \in ToSet(quota) : Allows(h)}
    BY ONLY TRUE
  <2>2. Sift(quota, T) \in Seq(Good \cap T)
    BY <1>4, SiftIn
  <2>3. Good \cap T \in SUBSET Shown
    BY <2>1 DEF Shown
  <2>4. Sift(quota, T) \in Seq(Shown)
    BY <2>2, <2>3
  <2> QED BY <2>1, <2>4
<1>6. hits' = Pack(shown, Tokens, req.budget)
  BY DEF PackHits
<1> HIDE DEF quota, allowed
<1>7. hits' \in Seq(Good) /\ (req.kind # "search" => hits' \in Seq(Shown))
  <2>1. CASE req.kind = "search"
    BY <1>4, <1>6, <2>1, PackIn
  <2>2. CASE req.kind # "search"
    <3>1. hits' \in Seq(Shown)
      BY <1>5, <1>6, <2>2, PackIn
    <3>2. Shown \in SUBSET Good
      BY DEF Shown
    <3> QED BY <3>1, <3>2
  <2> QED BY <2>1, <2>2
<1>8. more' \in Seq(Good) /\ more' \in Seq(Shown)
  BY <1>1, <1>2
<1>9. HitsOK'
  BY <1>1, <1>7, <1>8 DEF HitsOK
<1>10. StageOK'
  BY <1>1, <1>2 DEF StageOK, Briefings
<1>11. ShownOK'
  BY <1>1, <1>7, <1>8 DEF ShownOK, Briefings
<1>12. LanesOK' /\ TimelineOK'
  BY <1>1, <1>2 DEF LanesOK, TimelineOK, TimelineHasNoGaps, Briefings
<1> QED BY <1>1, <1>9, <1>10, <1>11, <1>12 DEF ReadsInv

LEMMA GraphStep == ASSUME ReadsInv, Graph PROVE ReadsInv'
<1>1. /\ TableOK' /\ Good' = Good /\ Shown' = Shown /\ TableOK
      /\ pc = "graph" /\ pc' = "done" /\ UNCHANGED <<req, lanes, hits>>
      /\ more' = Read(GraphRows)
  BY TableStays DEF Graph, ReadsInv
<1>2. req \in Requests /\ req.kind = "context"
  BY <1>1, KindsAre DEF ReadsInv, StageOK
<1>3. hits \in Seq(Good) /\ hits \in Seq(Shown)
  BY <1>1, <1>2 DEF ReadsInv, HitsOK, ShownOK, Briefings
<1>4. more' \in Seq(Shown) /\ more' \in Seq(Good)
  <2>1. more' \in Seq(Shown)
    BY <1>1, GraphRowsIn
  <2>2. Shown \in SUBSET Good
    BY DEF Shown
  <2> QED BY <2>1, <2>2
<1>5. HitsOK' /\ ShownOK'
  BY <1>1, <1>3, <1>4 DEF HitsOK, ShownOK
<1>6. StageOK'
  BY <1>1, <1>2 DEF StageOK
<1>7. LanesOK' /\ TimelineOK'
  BY <1>1, <1>2 DEF LanesOK, TimelineOK, TimelineHasNoGaps
<1> QED BY <1>1, <1>5, <1>6, <1>7 DEF ReadsInv

\* What others do to the rows leaves the rows in hand good.
LEMMA GoodGrows ==
    ASSUME ReadsInv, TableOK', Good \in SUBSET Good', Shown \in SUBSET Shown',
           Here' \in SUBSET Here, UNCHANGED <<pc, req, lanes, hits, more>>
    PROVE  ReadsInv'
<1>1. StageOK'
  BY DEF ReadsInv, StageOK
<1>2. LanesOK'
  <2>1. Lane' = Lane
    BY DEF Lane, Hit
  <2>2. Seq(Good) \in SUBSET Seq(Good')
    OBVIOUS
  <2> QED BY <2>1, <2>2 DEF ReadsInv, LanesOK
<1>3. HitsOK'
  <2>1. Seq(Good) \in SUBSET Seq(Good')
    OBVIOUS
  <2> QED BY <2>1 DEF ReadsInv, HitsOK
<1>4. ShownOK'
  <2>1. Seq(Shown) \in SUBSET Seq(Shown')
    OBVIOUS
  <2> QED BY <2>1 DEF ReadsInv, ShownOK
<1>5. TimelineHasNoGaps'
  BY DEF ReadsInv, TimelineOK, TimelineHasNoGaps
<1>6. ASSUME NEW a, NEW anchor, UpTo(a, anchor) PROVE UpTo(a, anchor)'
  BY <1>6 DEF UpTo, Earlier
<1>7. TimelineOK'
  <2>1. pc' \in {"before", "after"} => Len(hits') = 1
    BY DEF ReadsInv, TimelineOK
  <2>2. ASSUME pc' = "after" PROVE lanes'[1] \in Seq(Good') /\ UpTo(lanes[1], hits[1].id)'
    <3>1. lanes[1] \in Seq(Good) /\ UpTo(lanes[1], hits[1].id)
      BY <2>2 DEF ReadsInv, TimelineOK
    <3>2. lanes[1] \in Seq(Good')
      BY <3>1
    <3>3. PICK a, h : a = lanes[1] /\ h = hits[1].id
      BY ONLY TRUE
    <3>4. UpTo(a, h)'
      BY <1>6, <3>1, <3>3
    <3>5. UpTo(lanes[1], hits[1].id)'
      BY <3>3, <3>4 DEF UpTo
    <3> QED BY <3>2, <3>5
  <2> QED BY <1>5, <2>1, <2>2 DEF TimelineOK
<1> QED BY <1>1, <1>2, <1>3, <1>4, <1>7 DEF ReadsInv

LEMMA SoftDeleteStep == ASSUME ReadsInv, NEW r \in Rows, SoftDelete(r) PROVE ReadsInv'
<1>1. /\ live' = live \ {r} /\ UNCHANGED <<state, pc, req, lanes, hits, more, gone, away>>
  BY DEF SoftDelete
<1>2. TableOK'
  BY <1>1 DEF ReadsInv, TableOK
<1>3. Good' = Good /\ Shown' = Shown
  <2>1. Good' = Good
    BY <1>1 DEF Good
  <2> QED BY <1>1, <2>1 DEF Shown, Allows
<1>4. Here' \in SUBSET Here
  BY <1>1 DEF Here
<1> QED BY <1>1, <1>2, <1>3, <1>4, GoodGrows

LEMMA SetStateStep ==
    ASSUME ReadsInv, NEW r \in Rows, NEW s \in States, SetState(r, s) PROVE ReadsInv'
<1>1. /\ state' = [state EXCEPT ![r] = s]
      /\ away' = (IF s \in Withdrawn THEN away ELSE away \ {r})
      /\ UNCHANGED <<live, pc, req, lanes, hits, more, gone>>
  BY DEF SetState
<1>2. TableOK'
  <2>1. state \in [Rows -> States] /\ live \subseteq Rows /\ gone \cap live = {}
        /\ \A x \in away : x \in Rows /\ state[x] \in Withdrawn
    BY DEF ReadsInv, TableOK
  <2>2. state' \in [Rows -> States] /\ \A x \in Rows : state'[x] = IF x = r THEN s ELSE state[x]
    BY <1>1, <2>1
  <2>3. \A x \in away' : x \in Rows /\ state'[x] \in Withdrawn
    BY <1>1, <2>1, <2>2
  <2> QED BY <1>1, <2>1, <2>2, <2>3 DEF TableOK
<1>3. Good \in SUBSET Good' /\ Shown \in SUBSET Shown'
  <2>1. away' \in SUBSET away
    BY <1>1
  <2>2. Good \in SUBSET Good'
    BY <1>1, <2>1 DEF Good
  <2> QED BY <1>1, <2>2 DEF Shown, Allows
<1>4. Here' \in SUBSET Here
  BY <1>1 DEF Here
<1> QED BY <1>1, <1>2, <1>3, <1>4, GoodGrows

LEMMA ReadsStutter == ASSUME ReadsInv, UNCHANGED readsVars PROVE ReadsInv'
<1>1. UNCHANGED <<live, state, pc, req, lanes, hits, more, gone, away>>
  BY DEF readsVars
<1>2. TableOK'
  BY <1>1 DEF ReadsInv, TableOK
<1>3. Good' = Good /\ Shown' = Shown
  <2>1. Good' = Good
    BY <1>1 DEF Good
  <2> QED BY <1>1, <2>1 DEF Shown, Allows
<1>4. Here' \in SUBSET Here
  BY <1>1 DEF Here
<1> QED BY <1>1, <1>2, <1>3, <1>4, GoodGrows

\* The searches of all projects that go by the mirror.
LEMMA GlobalSteps ==
    ASSUME ReadsInv, Mirror \/ GlobalKeys \/ GlobalDense \/ GlobalFuse
    PROVE  ReadsInv'
<1>1. /\ TableOK' /\ req' = req /\ more' = more
      /\ pc \in {"mirror", "global", "globalDense", "globalFuse"}
      /\ pc' \in {"mirror", "globalDense", "globalFuse", "done"}
  BY TableStays DEF ReadsInv, Mirror, GlobalKeys, GlobalDense, GlobalFuse
<1>2. pc' = "mirror" => pc = "global"
  BY DEF Mirror, GlobalKeys, GlobalDense, GlobalFuse
<1>3. pc' \in {"globalDense", "globalFuse"} => pc \in {"global", "globalDense"}
  BY DEF Mirror, GlobalKeys, GlobalDense, GlobalFuse
<1>4. req \in Requests /\ req.kind \in {"mirror", "global"} /\ more = <<>>
      /\ (pc # "mirror" => req.kind = "global")
  BY <1>1, KindsAre DEF ReadsInv, StageOK
<1>5. StageOK'
  BY <1>1, <1>2, <1>3, <1>4 DEF StageOK
<1>6. HitsOK'
  BY <1>1, <1>4 DEF HitsOK
<1>7. LanesOK' /\ ShownOK' /\ TimelineOK'
  BY <1>1, <1>4 DEF LanesOK, ShownOK, TimelineOK, TimelineHasNoGaps, Briefings
<1> QED BY <1>1, <1>5, <1>6, <1>7 DEF ReadsInv

LEMMA FanOutStep == ASSUME ReadsInv, FanOut PROVE ReadsInv'
<1>1. /\ TableOK' /\ Good' = Good /\ TableOK
      /\ pc = "fanout" /\ pc' = "done" /\ UNCHANGED <<req, lanes, more>>
  BY TableStays DEF FanOut, ReadsInv
<1>2. req \in Requests /\ req.kind = "fanout" /\ more = <<>> /\ req.limit \in Nat
  BY <1>1, KindsAre DEF ReadsInv, StageOK
<1>3. hits' \in Seq(Good)
  <2>1. PICK ranking \in Rankings :
          LET found == {r \in live : \E i \in DOMAIN ProjectList :
                          Contains(Index(ranking, ProjectList[i], req.limit), r)}
          IN \E order \in {s \in [1..Cardinality(found) -> found] : IsInjective(s)} :
               hits' = Read(Take(order, req.limit))
    BY DEF FanOut
  <2>2. PICK found : found = {r \in live : \E i \in DOMAIN ProjectList :
                                Contains(Index(ranking, ProjectList[i], req.limit), r)}
    BY ONLY TRUE
  <2>3. PICK order \in [1..Cardinality(found) -> found] : hits' = Read(Take(order, req.limit))
    BY <2>1, <2>2
  <2>4. found \in SUBSET live
    BY <2>2
  <2>5. Cardinality(found) \in Nat
    BY <1>1, <2>4, LiveAre, FS_CardinalityType
  <2>6. order \in Seq(found)
    BY ONLY <2>3, <2>5, order \in [1..Cardinality(found) -> found]
  <2>7. Take(order, req.limit) \in Seq(found)
    BY <1>2, <2>6, TakeIn
  <2>8. Take(order, req.limit) \in Seq(live)
    BY <2>4, <2>7
  <2> QED BY <1>1, <2>3, <2>8, ReadGood
<1>4. more' \in Seq(Good)
  BY <1>1, <1>2
<1>5. HitsOK'
  BY <1>1, <1>3, <1>4 DEF HitsOK
<1>6. StageOK'
  BY <1>1, <1>2 DEF StageOK
<1>7. LanesOK' /\ ShownOK' /\ TimelineOK'
  BY <1>1, <1>2 DEF LanesOK, ShownOK, TimelineOK, TimelineHasNoGaps, Briefings
<1> QED BY <1>1, <1>5, <1>6, <1>7 DEF ReadsInv

------------------------------------------------------------------------------
(* The steps of a timeline. *)

LEMMA TimeOrders ==
    ASSUME NEW S \in SUBSET Rows
    PROVE  /\ StrictOrder(S, {e \in S \X S : Earlier(e[1], e[2])})
           /\ StrictOrder(S, {e \in S \X S : Earlier(e[2], e[1])})
           /\ \A x, y \in S : /\ <<x, y>> \in {e \in S \X S : Earlier(e[1], e[2])} <=> Earlier(x, y)
                              /\ <<x, y>> \in {e \in S \X S : Earlier(e[2], e[1])} <=> Earlier(y, x)
<1>1. PICK R, Q : /\ R = {e \in S \X S : Earlier(e[1], e[2])}
                  /\ Q = {e \in S \X S : Earlier(e[2], e[1])}
  BY ONLY TRUE
<1>2. \A x, y \in S : (<<x, y>> \in R <=> Earlier(x, y)) /\ (<<x, y>> \in Q <=> Earlier(y, x))
  BY <1>1
<1>3. \A x, y, z \in S : /\ ~Earlier(x, x) /\ (x = y \/ Earlier(x, y) \/ Earlier(y, x))
                         /\ Earlier(x, y) /\ Earlier(y, z) => Earlier(x, z)
  BY EarlierOrders
<1>4. StrictOrder(S, R) /\ StrictOrder(S, Q)
  BY <1>2, <1>3 DEF StrictOrder
<1> QED BY <1>1, <1>2, <1>4

LEMMA TimelineStep == ASSUME ReadsInv, Timeline PROVE ReadsInv'
<1>1. /\ TableOK' /\ Good' = Good /\ TableOK
      /\ pc = "timeline" /\ UNCHANGED <<req, lanes, more>>
  BY TableStays DEF Timeline, ReadsInv
<1>2. req \in Requests /\ req.kind = "timeline" /\ more = <<>>
  BY <1>1, KindsAre DEF ReadsInv, StageOK
<1>3. PICK anchor \in Rows :
        /\ hits' = Fetch(<<anchor>>)
        /\ pc' = IF anchor \in live THEN "before" ELSE "done"
  BY DEF Timeline, OfProject
<1>4. hits' \in Seq(Good)
  BY <1>1, <1>3, FetchIn
<1>5. PICK kept, at : /\ kept \in Seq(Rows) /\ kept = Sift(<<anchor>>, live)
                      /\ SiftedFrom(<<anchor>>, live, kept, at)
  <2>1. <<anchor>> \in Seq(Rows)
    BY ONLY anchor \in Rows
  <2> QED BY <2>1, SiftProperties
<1>6. /\ Len(kept) \in Nat /\ \A k \in 1..Len(kept) : kept[k] = anchor
      /\ anchor \in live => Len(kept) = 1
  <2>1. DOMAIN <<anchor>> = {1} /\ <<anchor>>[1] = anchor
    BY ONLY TRUE
  <2>2. /\ \A k \in 1..Len(kept) : at[k] = 1
        /\ \A k, l \in 1..Len(kept) : at[k] = at[l] => k = l
        /\ anchor \in live => \E k \in 1..Len(kept) : TRUE
        /\ \A k \in 1..Len(kept) : kept[k] = <<anchor>>[at[k]]
    BY <1>5, <2>1 DEF SiftedFrom
  <2>3. PICK n \in Nat : n = Len(kept)
    BY <1>5
  <2>4. n = 0 \/ n = 1
    <3>1. ~(1 \in 1..n /\ 2 \in 1..n)
      BY <2>2, <2>3
    <3> QED BY ONLY n \in Nat, <3>1
  <2>5. anchor \in live => Len(kept) # 0
    BY <2>2
  <2> QED BY <2>1, <2>2, <2>3, <2>4, <2>5
<1>7. Len(hits') = Len(kept) /\ \A k \in 1..Len(kept) : hits'[k].id = anchor
  BY <1>1, <1>3, <1>5, <1>6, ReadIs DEF Fetch
<1>8. HitsOK'
  <2>1. more' \in Seq(Good)
    BY <1>1, <1>2
  <2> QED BY <1>1, <1>4, <2>1 DEF HitsOK
<1>9. StageOK'
  BY <1>1, <1>2, <1>3 DEF StageOK
<1>10. LanesOK' /\ ShownOK'
  BY <1>1, <1>2, <1>3 DEF LanesOK, ShownOK, Briefings
<1>11. TimelineOK'
  <2>1. pc' # "after" /\ (pc' = "before" => Len(hits') = 1)
    BY <1>3, <1>6, <1>7
  <2>2. TimelineHasNoGaps'
    <3>1. DOMAIN hits' = 1..Len(kept)
      BY <1>4, <1>7
    <3>2. \A i \in DOMAIN hits' : hits'[i].id = anchor
      BY <1>7, <3>1
    <3>3. ASSUME NEW r \in Here' PROVE ~(Earlier(anchor, r) /\ Earlier(r, anchor))
      <4>1. r \in Rows /\ anchor \in Rows
        BY DEF Here, OfProject
      <4> QED BY <4>1, EarlierOrders
    <3> QED BY <3>2, <3>3 DEF TimelineHasNoGaps, Earlier
  <2> QED BY <1>3, <2>1, <2>2 DEF TimelineOK
<1> QED BY <1>1, <1>8, <1>9, <1>10, <1>11 DEF ReadsInv

LEMMA TimelineBeforeStep == ASSUME ReadsInv, TimelineBefore PROVE ReadsInv'
<1>1. /\ TableOK' /\ Good' = Good /\ Here' = Here /\ TableOK
      /\ pc = "before" /\ pc' = "after" /\ UNCHANGED <<req, hits, more>>
  BY TableStays DEF TimelineBefore, ReadsInv
<1>2. req \in Requests /\ req.kind = "timeline" /\ more = <<>> /\ req.window \in Nat
  BY <1>1, KindsAre DEF ReadsInv, StageOK
<1>3. hits \in Seq(Good) /\ more \in Seq(Good) /\ Len(hits) = 1
  BY <1>1, <1>2 DEF ReadsInv, HitsOK, TimelineOK
<1>4. PICK anchor : anchor = hits[1].id
  BY ONLY TRUE
<1>5. PICK older : older = {r \in Here : Earlier(r, anchor)}
  BY ONLY TRUE
<1>6. older \in SUBSET live /\ older \in SUBSET Rows /\ anchor \in Rows
  <2>1. hits[1] \in Good
    BY ONLY <1>3
  <2> QED BY <1>1, <1>4, <1>5, <2>1 DEF Here, TableOK, Good, Hit
<1>7. PICK R : R = {e \in older \X older : Earlier(e[2], e[1])}
  BY ONLY TRUE
<1>8. StrictOrder(older, R) /\ \A x, y \in older : <<x, y>> \in R <=> Earlier(y, x)
  BY <1>6, <1>7, TimeOrders
<1>9. PICK a \in Seq(Good) :
        /\ a = Read(Take(Listed(older, R), req.window))
        /\ \A i \in DOMAIN a : a[i].id \in older
        /\ \A i \in DOMAIN a, r \in older : <<r, a[i].id>> \in R => r \in IdsOf(a)
  BY <1>1, <1>2, <1>6, <1>8, TakenUpTo
<1>10. lanes' = <<a>>
  BY <1>4, <1>5, <1>7, <1>9 DEF TimelineBefore
<1>11. lanes'[1] = a
  BY <1>10
<1>12. UpTo(a, anchor)
  <2>1. \A i \in DOMAIN a : Earlier(a[i].id, anchor)
    BY <1>5, <1>9
  <2>2. ASSUME NEW i \in DOMAIN a, NEW r \in Here, Earlier(a[i].id, r), Earlier(r, anchor)
        PROVE  r \in IdsOf(a)
    <3>1. r \in older
      BY <1>5, <2>2
    <3> QED BY <1>8, <1>9, <2>2, <3>1
  <2> QED BY <2>1, <2>2 DEF UpTo
<1>13. TimelineOK'
  <2>1. UpTo(a, anchor)'
    BY <1>1, <1>12 DEF UpTo, Earlier
  <2>2. lanes'[1] \in Seq(Good')
    BY <1>1, <1>11
  <2>3. UpTo(lanes[1], hits[1].id)'
    BY <1>1, <1>4, <1>11, <2>1 DEF UpTo
  <2> QED BY <1>1, <1>3, <2>2, <2>3 DEF TimelineOK, TimelineHasNoGaps
<1>14. HitsOK'
  BY <1>1, <1>3 DEF HitsOK
<1>15. StageOK'
  BY <1>1, <1>2 DEF StageOK
<1>16. LanesOK' /\ ShownOK'
  BY <1>1 DEF LanesOK, ShownOK
<1> QED BY <1>1, <1>13, <1>14, <1>15, <1>16 DEF ReadsInv

\* The list s of S has the entries of a, of h and of b, and no others.
ListsAll(S, s, a, h, b) ==
    /\ s \in Seq(S) /\ DOMAIN s = 1..Len(s) /\ \A i \in DOMAIN s : s[i] \in S
    /\ \A i \in DOMAIN s : \/ \E j \in DOMAIN a : s[i] = a[j]
                          \/ s[i] = h[1]
                          \/ \E j \in DOMAIN b : s[i] = b[j]
    /\ \A j \in DOMAIN a : \E i \in DOMAIN s : s[i] = a[j]
    /\ \E i \in DOMAIN s : s[i] = h[1]
    /\ \A j \in DOMAIN b : \E i \in DOMAIN s : s[i] = b[j]

LEMMA AnswerIn ==
    ASSUME NEW S, NEW a \in Seq(S), NEW h \in Seq(S), NEW b \in Seq(S), Len(h) = 1
    PROVE  ListsAll(S, Reverse(a) \o h \o b, a, h, b)
<1> PICK s : s = Reverse(a) \o h \o b
  BY ONLY TRUE
<1>1. PICK m, n \in Nat : /\ m = Len(a) /\ n = Len(b)
                          /\ DOMAIN a = 1..m /\ DOMAIN b = 1..n
                          /\ \A i \in 1..m : a[i] \in S
  OBVIOUS
<1>2. PICK q \in Seq(S) : q = Reverse(a)
  BY ReverseIn
<1>3. Len(q) = m /\ \A i \in 1..m : q[i] = a[m - i + 1]
  BY <1>1, <1>2 DEF Reverse
<1>4. /\ s \in Seq(S) /\ Len(s) = m + 1 + n
      /\ \A i \in 1..m : s[i] = q[i]
      /\ s[m + 1] = h[1]
      /\ \A j \in 1..n : s[m + 1 + j] = b[j]
  <2>1. PICK t \in Seq(S) : t = q \o h
    BY ConcatProperties
  <2>2. /\ Len(t) = Len(q) + Len(h)
        /\ \A i \in 1..(Len(q) + Len(h)) :
             t[i] = IF i <= Len(q) THEN q[i] ELSE h[i - Len(q)]
    BY <2>1, ConcatProperties
  <2>3. /\ Len(t) = m + 1
        /\ \A i \in 1..(m + 1) : t[i] = IF i <= m THEN q[i] ELSE h[i - m]
    BY <1>3, <2>2
  <2>4. s = t \o b
    BY <1>2, <2>1
  <2>5. /\ s \in Seq(S) /\ Len(s) = Len(t) + Len(b)
        /\ \A i \in 1..(Len(t) + Len(b)) :
             s[i] = IF i <= Len(t) THEN t[i] ELSE b[i - Len(t)]
    BY <2>4, ConcatProperties
  <2>6. /\ s \in Seq(S) /\ Len(s) = m + 1 + n
        /\ \A i \in 1..(m + 1 + n) : s[i] = IF i <= m + 1 THEN t[i] ELSE b[i - (m + 1)]
    BY <1>1, <2>3, <2>5
  <2>7. \A i \in 1..m : s[i] = q[i]
    BY <2>3, <2>6
  <2>8. s[m + 1] = h[1]
    <3>1. m + 1 \in 1..(m + 1) /\ m + 1 \in 1..(m + 1 + n) /\ (m + 1) - m = 1 /\ ~(m + 1 <= m)
      OBVIOUS
    <3>2. t[m + 1] = h[(m + 1) - m]
      BY <2>3, <3>1
    <3>3. s[m + 1] = t[m + 1]
      BY <2>6, <3>1
    <3> QED BY <3>1, <3>2, <3>3
  <2>9. ASSUME NEW j \in 1..n PROVE s[m + 1 + j] = b[j]
    <3>1. m + 1 + j \in 1..(m + 1 + n) /\ ~(m + 1 + j <= m + 1) /\ (m + 1 + j) - (m + 1) = j
      OBVIOUS
    <3> QED BY <2>6, <3>1
  <2> QED BY <2>6, <2>7, <2>8, <2>9
<1>5. DOMAIN s = 1..(m + 1 + n) /\ DOMAIN s = 1..Len(s) /\ \A i \in DOMAIN s : s[i] \in S
  <2>1. DOMAIN s = 1..Len(s) /\ \A i \in DOMAIN s : s[i] \in S
    BY <1>4, EntriesFinite
  <2> QED BY <1>4, <2>1
<1>6. ASSUME NEW i \in DOMAIN s
      PROVE  \/ \E j \in DOMAIN a : s[i] = a[j]
             \/ s[i] = h[1]
             \/ \E j \in DOMAIN b : s[i] = b[j]
  <2>1. CASE i \in 1..m
    <3>1. m - i + 1 \in 1..m
      BY <2>1
    <3>2. s[i] = a[m - i + 1]
      BY <1>3, <1>4, <2>1
    <3> QED BY <1>1, <3>1, <3>2
  <2>2. CASE i = m + 1
    BY <1>4, <2>2
  <2>3. CASE i \in (m + 2)..(m + 1 + n)
    <3>1. i - (m + 1) \in 1..n /\ m + 1 + (i - (m + 1)) = i
      BY <2>3
    <3>2. s[i] = b[i - (m + 1)]
      BY <1>4, <3>1
    <3> QED BY <1>1, <3>1, <3>2
  <2>4. i \in 1..(m + 1 + n)
    BY <1>5
  <2>5. i \in 1..m \/ i = m + 1 \/ i \in (m + 2)..(m + 1 + n)
    BY ONLY m \in Nat, n \in Nat, <2>4
  <2> QED BY <2>1, <2>2, <2>3, <2>5
<1>7. ASSUME NEW j \in DOMAIN a PROVE \E i \in DOMAIN s : s[i] = a[j]
  <2>1. m - j + 1 \in 1..m /\ m - (m - j + 1) + 1 = j
    BY <1>1
  <2>2. m - j + 1 \in DOMAIN s
    BY <1>5, <2>1
  <2>3. s[m - j + 1] = a[j]
    BY <1>3, <1>4, <2>1
  <2> QED BY <2>2, <2>3
<1>8. m + 1 \in DOMAIN s
  BY <1>5
<1>9. ASSUME NEW j \in DOMAIN b PROVE m + 1 + j \in DOMAIN s /\ s[m + 1 + j] = b[j]
  BY <1>1, <1>4, <1>5
<1> QED BY <1>4, <1>5, <1>6, <1>7, <1>8, <1>9 DEF ListsAll

LEMMA TimelineAfterStep == ASSUME ReadsInv, TimelineAfter PROVE ReadsInv'
<1>1. /\ TableOK' /\ Good' = Good /\ Here' = Here /\ TableOK
      /\ pc = "after" /\ pc' = "done" /\ UNCHANGED <<req, lanes, more>>
  BY TableStays DEF TimelineAfter, ReadsInv
<1>2. req \in Requests /\ req.kind = "timeline" /\ more = <<>> /\ req.window \in Nat
  BY <1>1, KindsAre DEF ReadsInv, StageOK
<1>3. /\ hits \in Seq(Good) /\ Len(hits) = 1
      /\ lanes[1] \in Seq(Good) /\ UpTo(lanes[1], hits[1].id)
  BY <1>1, <1>2 DEF ReadsInv, HitsOK, TimelineOK
<1>4. PICK anchor, a : anchor = hits[1].id /\ a = lanes[1]
  BY ONLY TRUE
<1>5. PICK newer : newer = {r \in Here : Earlier(anchor, r)}
  BY ONLY TRUE
<1>6. newer \in SUBSET live /\ newer \in SUBSET Rows /\ anchor \in Rows
  <2>1. hits[1] \in Good
    <3>1. hits \in Seq(Good) /\ Len(hits) = 1
      BY <1>3
    <3>2. 1 \in 1..Len(hits)
      BY ONLY <3>1
    <3> QED BY <3>1, <3>2, EntriesFinite
  <2> QED BY <1>1, <1>4, <1>5, <2>1 DEF Here, TableOK, Good, Hit
<1>7. PICK R : R = {e \in newer \X newer : Earlier(e[1], e[2])}
  BY ONLY TRUE
<1>8. StrictOrder(newer, R) /\ \A x, y \in newer : <<x, y>> \in R <=> Earlier(x, y)
  BY <1>6, <1>7, TimeOrders
<1>9. PICK b \in Seq(Good) :
        /\ b = Read(Take(Listed(newer, R), req.window))
        /\ \A i \in DOMAIN b : b[i].id \in newer
        /\ \A i \in DOMAIN b, r \in newer : <<r, b[i].id>> \in R => r \in IdsOf(b)
  BY <1>1, <1>2, <1>6, <1>8, TakenUpTo
<1>10. PICK s : s = hits'
  BY ONLY TRUE
<1>11. s = Reverse(a) \o hits \o b
  BY <1>4, <1>5, <1>7, <1>9, <1>10 DEF TimelineAfter
<1>12. a \in Seq(Good) /\ UpTo(a, anchor)
  BY <1>3, <1>4
<1>13. /\ s \in Seq(Good) /\ \A i \in DOMAIN s : s[i] \in Good
       /\ \A i \in DOMAIN s : \/ \E j \in DOMAIN a : s[i] = a[j]
                              \/ s[i] = hits[1]
                              \/ \E j \in DOMAIN b : s[i] = b[j]
       /\ \A j \in DOMAIN a : \E i \in DOMAIN s : s[i] = a[j]
       /\ \E i \in DOMAIN s : s[i] = hits[1]
       /\ \A j \in DOMAIN b : \E i \in DOMAIN s : s[i] = b[j]
  <2>1. hits \in Seq(Good) /\ Len(hits) = 1 /\ a \in Seq(Good) /\ b \in Seq(Good)
    BY <1>3, <1>12
  <2>2. ListsAll(Good, s, a, hits, b)
    BY <1>11, <2>1, AnswerIn
  <2> QED BY <2>2 DEF ListsAll
<1>14. ASSUME NEW i \in DOMAIN s, NEW j \in DOMAIN s, NEW r \in Here,
              Earlier(s[i].id, r), Earlier(r, s[j].id)
       PROVE  r \in IdsOf(s)
  <2>1. PICK x, y \in Rows : x = s[i].id /\ y = s[j].id
    BY <1>13 DEF Good, Hit
  <2>2. r \in Rows
    BY <1>1 DEF Here, OfProject
  <2>3. Earlier(x, r) /\ Earlier(r, y)
    BY <1>14, <2>1
  <2>4. CASE r = anchor
    BY <1>4, <1>13, <2>4 DEF IdsOf
  <2>5. CASE Earlier(r, anchor)
    <3>1. x # anchor
      BY <1>6, <2>1, <2>2, <2>3, <2>5, EarlierOrders
    <3>2. x \notin newer
      <4>1. Earlier(anchor, x) => Earlier(anchor, anchor)
        BY <1>6, <2>1, <2>2, <2>3, <2>5, EarlierOrders
      <4> QED BY <1>5, <1>6, <4>1, EarlierOrders
    <3>3. PICK k \in DOMAIN a : s[i] = a[k]
      BY <1>4, <1>9, <1>13, <2>1, <3>1, <3>2
    <3>4. r \in IdsOf(a)
      BY <1>12, <2>1, <2>3, <2>5, <3>3 DEF UpTo
    <3> QED BY <1>13, <3>4 DEF IdsOf
  <2>6. CASE Earlier(anchor, r)
    <3>1. r \in newer
      BY <1>5, <2>6
    <3>2. y # anchor
      BY <1>6, <2>1, <2>2, <2>3, <2>6, EarlierOrders
    <3>3. ~Earlier(y, anchor)
      <4>1. Earlier(y, anchor) => Earlier(y, r)
        BY <1>6, <2>1, <2>2, <2>3, <2>6, EarlierOrders
      <4>2. Earlier(y, r) => Earlier(r, r)
        BY <2>1, <2>2, <2>3, EarlierOrders
      <4> QED BY <2>2, <4>1, <4>2, EarlierOrders
    <3>4. \A k \in DOMAIN a : Earlier(a[k].id, anchor)
      BY <1>12 DEF UpTo
    <3>5. PICK k \in DOMAIN b : s[j] = b[k]
      BY <1>4, <1>13, <2>1, <3>2, <3>3, <3>4
    <3>6. y \in newer /\ <<r, y>> \in R
      BY <1>8, <1>9, <2>1, <2>3, <3>1, <3>5
    <3>7. r \in IdsOf(b)
      BY <1>9, <2>1, <3>1, <3>5, <3>6
    <3> QED BY <1>13, <3>7 DEF IdsOf
  <2> QED BY <1>6, <2>2, <2>4, <2>5, <2>6, EarlierOrders
<1>15. TimelineHasNoGaps'
  <2>1. ASSUME NEW i \in DOMAIN s, NEW j \in DOMAIN s, NEW r \in Here,
               Earlier(s[i].id, r), Earlier(r, s[j].id)
        PROVE  r \in IdsOf(s)
    BY <1>14, <2>1
  <2> QED BY <1>1, <1>10, <2>1 DEF TimelineHasNoGaps, IdsOf, Earlier
<1>16. TimelineOK'
  BY <1>1, <1>15 DEF TimelineOK
<1>17. HitsOK'
  <2>1. more' \in Seq(Good)
    BY <1>1, <1>2
  <2> QED BY <1>1, <1>10, <1>13, <2>1 DEF HitsOK
<1>18. StageOK'
  BY <1>1, <1>2 DEF StageOK
<1>19. LanesOK' /\ ShownOK'
  BY <1>1, <1>2 DEF LanesOK, ShownOK, Briefings
<1> QED BY <1>1, <1>16, <1>17, <1>18, <1>19 DEF ReadsInv

------------------------------------------------------------------------------
(* Every request. *)

LEMMA ReadsInvStep == ReadsInv /\ [ReadsNext]_readsVars => ReadsInv'
<1> SUFFICES ASSUME ReadsInv, [ReadsNext]_readsVars PROVE ReadsInv'
  OBVIOUS
<1>1. CASE \E q \in Requests : Begin(q)
  BY <1>1, BeginStep
<1>2. CASE Search \/ Facts \/ DenseLane \/ FuseLanes \/ RerankHits
  BY <1>2, SearchStep, FactsStep, DenseLaneStep, FuseLanesStep, RerankHitsStep
<1>3. CASE Recent \/ ByAnchor \/ Expand \/ PackHits \/ Graph
  BY <1>3, RecentStep, ByAnchorStep, ExpandStep, PackHitsStep, GraphStep
<1>4. CASE \E r \in Rows : SoftDelete(r) \/ \E s \in States : SetState(r, s)
  BY <1>4, SoftDeleteStep, SetStateStep
<1>5. CASE Mirror \/ GlobalKeys \/ GlobalDense \/ GlobalFuse \/ FanOut
  BY <1>5, GlobalSteps, FanOutStep
<1>6. CASE Timeline \/ TimelineBefore \/ TimelineAfter
  BY <1>6, TimelineStep, TimelineBeforeStep, TimelineAfterStep
<1>7. CASE UNCHANGED readsVars
  BY <1>7, ReadsStutter
<1> QED BY <1>1, <1>2, <1>3, <1>4, <1>5, <1>6, <1>7 DEF ReadsNext, RetrievalNext

LEMMA ReadsInvHolds == ReadsSpec => []ReadsInv
<1> QED BY ReadsInvInit, ReadsInvStep, PTL DEF ReadsSpec

\* No search, briefing or timeline serves a row that was deleted before the request
\* came in, whichever lane, neighbor or entity led to it (read.rs, service.rs).
THEOREM DeletedAreNotServed == ReadsSpec => []DeletedStayHidden
<1>1. ReadsInv => DeletedStayHidden
  <2> SUFFICES ASSUME ReadsInv, pc = "done", req.kind \notin {"mirror", "global"}
               PROVE  (IdsOf(hits) \cup IdsOf(more)) \cap gone = {}
    BY DEF DeletedStayHidden
  <2>1. hits \in Seq(Good) /\ more \in Seq(Good)
    BY DEF ReadsInv, HitsOK
  <2>2. (\A i \in DOMAIN hits : hits[i] \in Good) /\ \A i \in DOMAIN more : more[i] \in Good
    BY <2>1, EntriesFinite
  <2> QED BY <2>2 DEF IdsOf, Good
<1> QED BY <1>1, ReadsInvHolds, PTL

\* No briefing that hides withdrawn rows shows one that was withdrawn all the while
\* (finalize_context_hits and graph_expansion of service.rs).
THEOREM WithdrawnAreNotServed == ReadsSpec => []WithdrawnStayAway
<1>1. ReadsInv => WithdrawnStayAway
  <2> SUFFICES ASSUME ReadsInv, pc = "done", req.kind \in Briefings, ~req.stale
               PROVE  (IdsOf(hits) \cup IdsOf(more)) \cap away = {}
    BY DEF WithdrawnStayAway
  <2>1. hits \in Seq(Shown) /\ more \in Seq(Shown)
    BY DEF ReadsInv, ShownOK
  <2>2. (\A i \in DOMAIN hits : hits[i] \in Shown) /\ \A i \in DOMAIN more : more[i] \in Shown
    BY <2>1, EntriesFinite
  <2> QED BY <2>2 DEF IdsOf, Good, Shown, Allows
<1> QED BY <1>1, ReadsInvHolds, PTL

\* A timeline, read in three queries, skips no row between two that it shows
\* (timeline of read.rs).
THEOREM TimelinesHaveNoGaps == ReadsSpec => []TimelineHasNoGaps
<1>1. ReadsInv => TimelineHasNoGaps
  BY DEF ReadsInv, TimelineOK
<1> QED BY <1>1, ReadsInvHolds, PTL
==============================================================================
