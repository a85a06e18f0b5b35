------------------------------- MODULE Registry -------------------------------
(***************************************************************************)
(* The project registry (memlayer-storage/src/registry.rs) shared by all    *)
(* RPC handlers and workers. get_or_open takes the registry's mutex twice,   *)
(* for the lookup and for the insert; in between it reads or creates the     *)
(* project's config.json and spawns a write thread, and nothing keeps other  *)
(* openers of the same project out. A Sender lives in the cached state and   *)
(* in every handler that uses it, and a write thread lives as long as one    *)
(* Sender does.                                                              *)
(*                                                                          *)
(* A thread slot stands for a ProjectState with its write thread. The text   *)
(* of a config.json is the display name it claims, Empty after a truncation, *)
(* or Garbage when two writes of different length overlap; repo_path is left  *)
(* out. What is written through a ProjectState is the subject of WriteThread. *)
(*                                                                          *)
(* An operator whose comment starts with "Mutant" is a slip the properties    *)
(* must catch; no action uses it.                                           *)
(***************************************************************************)
EXTENDS Naturals, Sequences, FiniteSets, Functions, SequencesExt

CONSTANTS
    Openers,    \* concurrent handlers and workers
    Names,      \* display names
    Projects,   \* normalized names
    KeyOf,      \* project_name::normalize
    Capacity,   \* project_lru_capacity
    Lingering,  \* bound on the write threads about to exit
    MaxDeletes, \* bound on the hard deletes
    None, Empty, Garbage

ASSUME RegistryAssumption ==
    /\ KeyOf \in [Names -> Projects]
    /\ Capacity \in Nat \ {0} /\ Lingering \in Nat /\ MaxDeletes \in Nat
    /\ IsFiniteSet(Openers)
    /\ None \notin Names \cup Projects /\ {Empty, Garbage} \cap (Names \cup {None}) = {}

\* Bound on the threads alive at a time: the cached ones, one for each opener, and
\* Lingering that are about to exit.
Slots == 1..(Capacity + Cardinality(Openers) + Lingering)

VARIABLES
    config,   \* projects/<key>/config.json
    temp,     \* projects/<key>/config.tmp, which atomic_write fills and renames
    fd,       \* the path under which the file an opener is about to write is found
    cache,    \* the map: the slot of each cached project, or 0
    lru,
    thread,   \* each slot: the display name of its ProjectState, or None
    pc, name, \* of each opener: where it is and what it opens
    holds,    \* the slot whose Arc<ProjectState> the opener holds, or 0
    deleting, \* the project whose database hard_delete_project has just removed
    deletes

disk == <<config, temp, fd, deleting, deletes>>
vars == <<disk, cache, lru, thread, pc, name, holds>>

Cached == {k \in Projects : cache[k] # 0}
Steps == {"idle", "read", "create", "write", "rename", "spawn", "insert", "use"}
Texts == Names \cup {None, Empty, Garbage}

TypeOK ==
    /\ config \in [Projects -> Texts] /\ temp \in [Projects -> Texts]
    /\ fd \in [Openers -> {"temp", "config", "gone"}]
    /\ cache \in [Projects -> Slots \cup {0}]
    /\ lru \in Seq(Projects)
    /\ thread \in [Slots -> Names \cup {None}]
    /\ pc \in [Openers -> Steps] /\ name \in [Openers -> Names \cup {None}]
    /\ holds \in [Openers -> Slots \cup {0}]
    /\ deleting \in Projects \cup {None} /\ deletes \in 0..MaxDeletes

Init ==
    /\ config = [k \in Projects |-> None] /\ temp = [k \in Projects |-> None]
    /\ cache = [k \in Projects |-> 0] /\ lru = <<>>
    /\ thread = [t \in Slots |-> None]
    /\ pc = [c \in Openers |-> "idle"] /\ name = [c \in Openers |-> None]
    /\ fd = [c \in Openers |-> "gone"] /\ holds = [c \in Openers |-> 0]
    /\ deleting = None /\ deletes = 0

Key(c) == KeyOf[name[c]]
Goto(c, step) ==
    /\ pc' = [pc EXCEPT ![c] = step]
    /\ name' = IF step = "idle" THEN [name EXCEPT ![c] = None] ELSE name
Start(c, n, step) ==
    /\ pc' = [pc EXCEPT ![c] = step]
    /\ name' = [name EXCEPT ![c] = n]

------------------------------------------------------------------------------
\* The first critical section of get_or_open.

Touch(k) == Append(RemoveFirst(lru, k), k)

\* With a cached project of another display name: ALREADY_EXISTS, nothing changes.
Hit(c, n) ==
    /\ pc[c] = "idle"
    /\ LET k == KeyOf[n] IN
         /\ k \in Cached /\ thread[cache[k]] = n
         /\ holds' = [holds EXCEPT ![c] = cache[k]]
         /\ lru' = Touch(k)
    /\ Start(c, n, "use")
    /\ UNCHANGED <<disk, cache, thread>>

Miss(c, n) ==
    /\ pc[c] = "idle" /\ KeyOf[n] \notin Cached
    /\ Start(c, n, "read")
    /\ UNCHANGED <<disk, cache, lru, thread, holds>>

\* Between the critical sections.

\* A config that claims another name is ALREADY_EXISTS, one that does not parse is
\* an error.
ReadConfig(c) ==
    /\ pc[c] = "read"
    /\ Goto(c, CASE config[Key(c)] = None -> "create"
                 [] config[Key(c)] = name[c] -> "spawn"
                 [] OTHER -> "idle")
    /\ UNCHANGED <<disk, cache, lru, thread, holds>>

\* File::create in atomic_write: all openers of a project share one path, and
\* whoever comes later truncates the file of the one before.
CreateTemp(c) ==
    /\ pc[c] = "create"
    /\ temp' = [temp EXCEPT ![Key(c)] = Empty]
    /\ fd' = [fd EXCEPT ![c] = "temp"]
    /\ Goto(c, "write")
    /\ UNCHANGED <<config, deleting, deletes, cache, lru, thread, holds>>

\* write_all from offset 0: the tail of a longer text survives it.
Overwritten(text, n) == IF text = Empty THEN {n} ELSE {n, Garbage}

WriteTemp(c) ==
    /\ pc[c] = "write"
    /\ LET k == Key(c) IN
         \/ /\ fd[c] = "temp"
            /\ \E text \in Overwritten(temp[k], name[c]) : temp' = [temp EXCEPT ![k] = text]
            /\ UNCHANGED config
         \/ /\ fd[c] = "config"
            /\ \E text \in Overwritten(config[k], name[c]) :
                 config' = [config EXCEPT ![k] = text]
            /\ UNCHANGED temp
         \/ fd[c] = "gone" /\ UNCHANGED <<config, temp>>
    /\ fd' = [fd EXCEPT ![c] = "gone"]
    /\ Goto(c, "rename")
    /\ UNCHANGED <<deleting, deletes, cache, lru, thread, holds>>

\* Where the files that openers of k are writing are found once the paths in moved
\* have changed.
Moved(k, moved) ==
    [c \in Openers |->
        IF pc[c] = "write" /\ Key(c) = k /\ fd[c] \in DOMAIN moved
        THEN moved[fd[c]] ELSE fd[c]]

\* The rename fails when another opener has already renamed the shared file.
RenameTemp(c) ==
    /\ pc[c] = "rename"
    /\ LET k == Key(c) IN
         IF temp[k] = None
         THEN UNCHANGED <<config, temp, fd>> /\ Goto(c, "idle")
         ELSE /\ config' = [config EXCEPT ![k] = temp[k]]
              /\ temp' = [temp EXCEPT ![k] = None]
              /\ fd' = Moved(k, [temp |-> "config", config |-> "gone"])
              /\ Goto(c, "spawn")
    /\ UNCHANGED <<deleting, deletes, cache, lru, thread, holds>>

FreeSlots == {t \in Slots : thread[t] = None}

SpawnWriteThread(c) ==
    /\ pc[c] = "spawn"
    /\ FreeSlots # {}
    /\ LET t == CHOOSE t \in FreeSlots : TRUE IN
         /\ thread' = [thread EXCEPT ![t] = name[c]]
         /\ holds' = [holds EXCEPT ![c] = t]
    /\ Goto(c, "insert")
    /\ UNCHANGED <<disk, cache, lru>>

\* I/O errors on the way: the opener returns, what it did so far stays.
OpenFails(c) ==
    /\ pc[c] \in {"read", "create", "write", "rename", "spawn"}
    /\ Goto(c, "idle")
    /\ fd' = [fd EXCEPT ![c] = "gone"]
    /\ UNCHANGED <<config, temp, deleting, deletes, cache, lru, thread, holds>>

\* The second critical section. try_evict_oldest takes the first project of the
\* list that is cached; no read is ever counted in read_in_flight.
Oldest ==
    LET i == CHOOSE i \in DOMAIN lru :
               lru[i] \in Cached /\ \A j \in 1..(i - 1) : lru[j] \notin Cached
    IN lru[i]

\* VecDeque::retain: every entry of an evicted project goes, racing openers may have
\* pushed several.
Without(s, gone) ==
    LET kept[i \in 0..Len(s)] ==
          IF i = 0 THEN <<>>
          ELSE IF s[i] \in gone THEN kept[i - 1] ELSE Append(kept[i - 1], s[i])
    IN kept[Len(s)]

\* Mutant: the eviction removes one entry of the list, as touch does.
InsertDropsOne(c) ==
    /\ pc[c] = "insert"
    /\ LET k == Key(c)
           full == Cardinality(Cached) >= Capacity
           evicted == IF full THEN {Oldest} ELSE {}
       IN /\ cache' = [j \in Projects |-> IF j = k THEN holds[c]
                                          ELSE IF j \in evicted THEN 0 ELSE cache[j]]
          /\ lru' = Append(IF full THEN RemoveFirst(lru, Oldest) ELSE lru, k)
    /\ Goto(c, "use")
    /\ UNCHANGED <<disk, thread, holds>>

Insert(c) ==
    /\ pc[c] = "insert"
    /\ LET k == Key(c)
           full == Cardinality(Cached) >= Capacity
           evicted == IF full THEN {Oldest} ELSE {}
       IN /\ cache' = [j \in Projects |-> IF j = k THEN holds[c]
                                          ELSE IF j \in evicted THEN 0 ELSE cache[j]]
          /\ lru' = Append(Without(lru, evicted), k)
    /\ Goto(c, "use")
    /\ UNCHANGED <<disk, thread, holds>>

\* The handler is done and drops its Arc<ProjectState>.
Release(c) ==
    /\ pc[c] = "use"
    /\ holds' = [holds EXCEPT ![c] = 0]
    /\ Goto(c, "idle")
    /\ UNCHANGED <<disk, cache, lru, thread>>

------------------------------------------------------------------------------
\* A write thread without Senders drains its channel and returns.
Unreferenced(t) ==
    /\ \A k \in Projects : cache[k] # t
    /\ \A c \in Openers : holds[c] # t

\* Mutant: the eviction closes the connection, in use or not.
ExitOnEviction(t) ==
    /\ thread[t] # None /\ \A k \in Projects : cache[k] # t
    /\ thread' = [thread EXCEPT ![t] = None]
    /\ UNCHANGED <<config, temp, fd, deleting, deletes, cache, lru, pc, name, holds>>

Exit(t) ==
    /\ thread[t] # None /\ Unreferenced(t)
    /\ thread' = [thread EXCEPT ![t] = None]
    /\ UNCHANGED <<config, temp, fd, deleting, deletes, cache, lru, pc, name, holds>>

\* DeleteProject --hard does not go through the registry: hard_delete_project
\* removes the database file, which cached write threads keep open, ...
DeleteDb(k) ==
    /\ deleting = None /\ deletes < MaxDeletes
    /\ deleting' = k /\ deletes' = deletes + 1
    /\ UNCHANGED <<config, temp, fd, cache, lru, thread, pc, name, holds>>

\* ... and then the project's directory.
DeleteDir ==
    /\ deleting # None
    /\ config' = [config EXCEPT ![deleting] = None]
    /\ temp' = [temp EXCEPT ![deleting] = None]
    /\ fd' = Moved(deleting, [temp |-> "gone", config |-> "gone"])
    /\ deleting' = None
    /\ UNCHANGED <<deletes, cache, lru, thread, pc, name, holds>>

DeleteDirFails ==
    /\ deleting # None /\ deleting' = None
    /\ UNCHANGED <<config, temp, fd, deletes, cache, lru, thread, pc, name, holds>>

\* What get_or_open and its caller do by themselves once they run.
Proceed(c) ==
    \/ ReadConfig(c) \/ CreateTemp(c) \/ WriteTemp(c) \/ RenameTemp(c)
    \/ SpawnWriteThread(c) \/ Insert(c) \/ Release(c)

Next ==
    \/ \E c \in Openers :
         Proceed(c) \/ OpenFails(c) \/ \E n \in Names : Hit(c, n) \/ Miss(c, n)
    \/ \E t \in Slots : Exit(t)
    \/ (\E k \in Projects : DeleteDb(k)) \/ DeleteDir \/ DeleteDirFails

Spec == Init /\ [][Next]_vars

------------------------------------------------------------------------------
\* Properties.

\* The list and the map speak of the same projects, and of no more than the cache may
\* hold, whatever openers interleave: every cached project can be evicted, and an
\* evicted one leaves no entry behind.
CacheShape == Range(lru) = Cached /\ Cardinality(Cached) <= Capacity

\* Whoever holds a ProjectState, and whoever will get it from the cache, holds a
\* live write thread of the project asked for: send cannot fail.
HeldThreadIsLive ==
    /\ \A c \in Openers : pc[c] \in {"insert", "use"} => thread[holds[c]] = name[c]
    /\ \A k \in Cached : thread[cache[k]] # None /\ KeyOf[thread[cache[k]]] = k

=============================================================================
