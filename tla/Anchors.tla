------------------------------- MODULE Anchors -------------------------------
(***************************************************************************)
(* Code anchors: observations tied to places in a git repository, stamped  *)
(* with HEAD when they are saved (service.rs stamp_observation_anchors,    *)
(* anchor.rs) and checked against a later HEAD by VerifyAnchors            *)
(* (verify.rs, verify_worker.rs).  Both read git first and write later,    *)
(* while commits and checkouts move HEAD.                                  *)
(*                                                                         *)
(* Commits do not change; a tree gives every path a file or Absent.  A     *)
(* file is the anchored slice, whether the symbol still occurs, and the    *)
(* rest.  A digest is the slice itself.                                    *)
(***************************************************************************)
EXTENDS Naturals, Sequences, FiniteSets, SequencesExt

CONSTANTS
  Obs, Paths,
  Files,        \* records [slice, symbol, rest]
  Absent, None,
  MaxCommits, MaxSaves, MaxVerifies   \* bounds

ASSUME AnchorsAssumption ==
  /\ \A f \in Files : /\ DOMAIN f = {"slice", "symbol", "rest"} /\ f.symbol \in BOOLEAN
                      /\ f.slice # None   \* a digest is never no digest
  /\ Absent \notin Files

VARIABLES
  repo,      \* the commits, each a tree
  head,      \* the commit HEAD names
  anchors,   \* observation_anchors
  state,     \* verify_state and verified_commit of each observation
  basis,     \* the anchors the state was derived from, the commit, and what git did not tell
  save,      \* a save that is stamping its anchors
  verify,    \* a VerifyAnchors request
  saves, verifies

anchorsVars == <<repo, head, anchors, state, basis, save, verify, saves, verifies>>

Trees == [Paths -> Files \cup {Absent}]
Places == [path : Paths, symbol : BOOLEAN]   \* an anchor with or without a symbol

NoSave == [pc |-> "idle", obs |-> None, places |-> {}, commit |-> 0]
NoVerify == [pc |-> "idle", commit |-> 0, read |-> {}]

AnchorsInit ==
  /\ repo \in {<<t>> : t \in Trees} /\ head = 1
  /\ anchors = {}
  /\ state = [o \in Obs |-> [is |-> "unanchored", commit |-> 0]]
  /\ basis = [o \in Obs |-> [of |-> {}, at |-> 0, guessed |-> FALSE, unshown |-> {}]]
  /\ save = NoSave /\ verify = NoVerify /\ saves = 0 /\ verifies = 0

-----------------------------------------------------------------------------
(* The repository, which others change. *)

CommitTree(t) ==
  /\ Len(repo) < MaxCommits
  /\ repo' = Append(repo, t) /\ head' = Len(repo) + 1
  /\ UNCHANGED <<anchors, state, basis, save, verify, saves, verifies>>

Checkout(c) ==
  /\ c \in DOMAIN repo \ {head}
  /\ head' = c
  /\ UNCHANGED <<repo, anchors, state, basis, save, verify, saves, verifies>>

-----------------------------------------------------------------------------
(* Saves. *)

(* The row is stored; HEAD is read next. *)
StampBegin(o, ps) ==
  /\ save.pc = "idle" /\ saves < MaxSaves
  /\ saves' = saves + 1
  /\ save' = [pc |-> "stamp", obs |-> o, places |-> ps, commit |-> head]
  /\ UNCHANGED <<repo, head, anchors, state, basis, verify, verifies>>

(* file_at_commit and digest_slice; no digest for a file that is not there *)
(* or that git cannot show.                                                *)
Digests(c, path) ==
  {None} \cup (IF repo[c][path] = Absent THEN {} ELSE {repo[c][path].slice})

(* INSERT OR REPLACE under UNIQUE(observation_id, path, symbol): NULLs are *)
(* distinct, so an anchor without a symbol never replaces another one.     *)
InsertAnchors(new) ==
  {a \in anchors : \A b \in new :
     ~(a.symbol /\ b.symbol /\ a.obs = b.obs /\ a.path = b.path)} \cup new

(* What is stored for a place: HEAD as it was read and a digest of that commit. *)
Anchored(commit, digest) ==
  {[obs |-> save.obs, path |-> p.path, symbol |-> p.symbol, commit |-> commit, digest |-> digest[p]]
     : p \in save.places}

DigestsRead ==
  {d \in [save.places -> UNION {Digests(save.commit, p.path) : p \in save.places}] :
     \A p \in save.places : d[p] \in Digests(save.commit, p.path)}

(* Without a repository the anchors are stored bare. *)
Bare == Anchored(0, [p \in save.places |-> None])

\* Mutant: the commit is the HEAD of the write, the digests are of the read.
StampWriteLaterHead ==
  /\ save.pc = "stamp"
  /\ \E digest \in DigestsRead :
       LET new == Anchored(head, digest)
       IN /\ anchors' = InsertAnchors(new)
          /\ basis' = [basis EXCEPT ![save.obs] = [of |-> new, at |-> head, guessed |-> FALSE, unshown |-> {}]]
  /\ state' = [state EXCEPT ![save.obs] = [is |-> "verified", commit |-> head]]
  /\ save' = NoSave
  /\ UNCHANGED <<repo, head, verify, saves, verifies>>

(* One request: the anchors and the state of the row. *)
StampWrite ==
  /\ save.pc = "stamp"
  /\ \E digest \in DigestsRead :
       LET new == Anchored(save.commit, digest)
       IN /\ anchors' = InsertAnchors(new)
          /\ basis' = [basis EXCEPT ![save.obs] = [of |-> new, at |-> save.commit, guessed |-> FALSE, unshown |-> {}]]
  /\ state' = [state EXCEPT ![save.obs] = [is |-> "verified", commit |-> save.commit]]
  /\ save' = NoSave
  /\ UNCHANGED <<repo, head, verify, saves, verifies>>

StampNoRepo ==
  /\ save.pc = "stamp"
  /\ anchors' = InsertAnchors(Bare)
  /\ basis' = [basis EXCEPT ![save.obs] = [of |-> Bare, at |-> 0, guessed |-> FALSE, unshown |-> {}]]
  /\ state' = [state EXCEPT ![save.obs] = [is |-> "unanchored", commit |-> 0]]
  /\ save' = NoSave
  /\ UNCHANGED <<repo, head, verify, saves, verifies>>

(* HEAD cannot be read, the client leaves, or the request fails: a Custom  *)
(* closure runs in autocommit mode, so some anchors may be stored.         *)
StampFails ==
  /\ save.pc = "stamp"
  /\ \E new \in {Bare} \cup {Anchored(save.commit, d) : d \in DigestsRead} :
       \E stored \in SUBSET new : anchors' = InsertAnchors(stored)
  /\ save' = NoSave
  /\ UNCHANGED <<repo, head, state, basis, verify, saves, verifies>>

-----------------------------------------------------------------------------
(* verify_anchors, a function of what was read; diff says for which        *)
(* commits git diff works, shown for which anchors git show does.          *)

Rank(s) ==
  CASE s = "unanchored" -> 0 [] s = "verified" -> 1 [] s = "stale" -> 2
    [] s = "invalidated" -> 3 [] s = "unprovable" -> 4

(* git diff --name-only; a failure reads as no change. *)
Changed(from, to, path, diff) == from \in diff /\ repo[from][path] # repo[to][path]

(* The file of an anchor is only asked for when the diff names it. *)
Asked(a, to, diff) == a.commit \notin {0, to} /\ Changed(a.commit, to, a.path, diff)

\* Mutant: a changed file makes its anchors stale, whatever changed in it.
VerifyOneByFile(a, to, diff, shown) ==
  CASE a.commit = 0 -> "unanchored"
    [] Asked(a, to, diff) -> "stale"
    [] OTHER -> "verified"

(* verify_one; a git show that fails or takes too long proves nothing. *)
VerifyOne(a, to, diff, shown) ==
  LET file == repo[to][a.path]
  IN CASE a.commit = 0 -> "unanchored"
       [] a.commit # 0 /\ ~Asked(a, to, diff) -> "verified"
       [] OTHER ->
            CASE a \notin shown \/ file = Absent -> "unprovable"
              [] a \in shown /\ file # Absent /\ a.symbol /\ ~file.symbol -> "invalidated"
              [] a \in shown /\ file # Absent /\ ~(a.symbol /\ ~file.symbol) ->
                   IF a.digest # None /\ file.slice = a.digest THEN "verified" ELSE "stale"

(* An observation takes the worst state of its anchors. *)
Verdict(o, read, to, diff, shown) ==
  LET states == {VerifyOne(a, to, diff, shown) : a \in {b \in read : b.obs = o}}
  IN CHOOSE s \in states : \A t \in states : Rank(t) <= Rank(s)

Verified(read) == {o \in Obs : \E a \in read : a.obs = o}

VerifyHead ==
  /\ verify.pc = "idle" /\ verifies < MaxVerifies
  /\ verifies' = verifies + 1
  /\ verify' = [NoVerify EXCEPT !.pc = "read", !.commit = head]
  /\ UNCHANGED <<repo, head, anchors, state, basis, save, saves>>

(* The anchors of one observation, or all. *)
VerifyRead ==
  /\ verify.pc = "read"
  /\ \E of \in {Obs} \cup {{o} : o \in Obs} :
       LET read == {a \in anchors : a.obs \in of}
       IN verify' = IF read = {} THEN NoVerify ELSE [verify EXCEPT !.pc = "apply", !.read = read]
  /\ UNCHANGED <<repo, head, anchors, state, basis, save, saves, verifies>>

(* set_verify_state; verified_commit only if verified. *)
NewState(o, read, to, diff, shown) ==
  LET s == Verdict(o, read, to, diff, shown) IN [is |-> s, commit |-> IF s = "verified" THEN to ELSE 0]

(* apply_verdicts_with_head sends one request to the write thread and then *)
(* waits for it with blocking_recv, which panics on a runtime thread: the  *)
(* daemon aborts, with the request carried out, or not, or for some        *)
(* observations only (autocommit), and a save under way goes with it.      *)
VerifyApply ==
  /\ verify.pc = "apply"
  /\ \E diff \in SUBSET {a.commit : a \in verify.read}, shown \in SUBSET verify.read,
        done \in SUBSET Verified(verify.read) :
       /\ state' = [o \in Obs |-> IF o \in done THEN NewState(o, verify.read, verify.commit, diff, shown)
                                  ELSE state[o]]
       /\ basis' = [o \in Obs |->
            IF o \notin done THEN basis[o]
            ELSE LET of == {a \in verify.read : a.obs = o}
                 IN [of |-> of, at |-> verify.commit,
                     guessed |-> \E a \in of : a.commit \notin diff \cup {0, verify.commit},
                     unshown |-> {a \in of : Asked(a, verify.commit, diff) /\ a \notin shown}]]
  /\ verify' = NoVerify /\ save' = NoSave
  /\ UNCHANGED <<repo, head, anchors, saves, verifies>>

AnchorsNext ==
  \/ \E t \in Trees : CommitTree(t)
  \/ \E c \in 1..MaxCommits : Checkout(c)
  \/ \E o \in Obs, ps \in SUBSET Places \ {{}} : StampBegin(o, ps)
  \/ StampWrite \/ StampNoRepo \/ StampFails
  \/ VerifyHead \/ VerifyRead \/ VerifyApply

AnchorsSpec == AnchorsInit /\ [][AnchorsNext]_anchorsVars

-----------------------------------------------------------------------------
(* The state has its type; an anchor with a symbol is unique in its place. *)
AnchorsTypeOK ==
  /\ \A c \in DOMAIN repo : repo[c] \in Trees
  /\ head \in DOMAIN repo
  /\ \A a \in anchors : a.obs \in Obs /\ a.path \in Paths /\ a.commit \in 0..Len(repo)
  /\ \A a, b \in anchors :
       a.symbol /\ b.symbol /\ a.obs = b.obs /\ a.path = b.path => a = b
  /\ \A o \in Obs : state[o].commit \in 0..Len(repo)
  /\ save.pc \in {"idle", "stamp"} /\ verify.pc \in {"idle", "read", "apply"}

(* What an anchor says still stands at a commit: its file is what it was   *)
(* when the anchor was stamped, or the slice is and the symbol occurs.     *)
Stands(a, c) ==
  \/ repo[c][a.path] = repo[a.commit][a.path]
  \/ /\ repo[c][a.path] # Absent
     /\ repo[c][a.path].slice = a.digest
     /\ a.symbol => repo[c][a.path].symbol

Stamped(o) == {a \in basis[o].of : a.commit # 0}

(* The digest is that of the commit the anchor names. *)
Honest(a) == a.digest \in Digests(a.commit, a.path)

(* An observation that counts as verified at a commit was stamped there or *)
(* compared with it, and every one of the anchors that were looked at      *)
(* is true of the commit it names and stands in this one, however          *)
(* HEAD, saves and verifications interleave - unless git diff had failed.  *)
VerifiedIsEarned ==
  \A o \in Obs :
    state[o].is = "verified" =>
      /\ state[o].commit = basis[o].at
      /\ \A a \in Stamped(o) :
           Honest(a) /\ (basis[o].guessed \/ Stands(a, state[o].commit))

(* An observation withdrawn from briefings has an anchor that no longer    *)
(* stands in the commit it was compared with - or one whose file, changed  *)
(* since it was stamped, git show failed to give: then the anchor may well *)
(* stand (a finding).                                                      *)
WithdrawnIsEarned ==
  \A o \in Obs :
    state[o].is \in {"stale", "invalidated", "unprovable"} =>
      /\ state[o].commit = 0
      /\ \E a \in Stamped(o) : ~Stands(a, basis[o].at) \/ a \in basis[o].unshown
=============================================================================
