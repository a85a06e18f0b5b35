---------------------------- MODULE DaemonProofs ----------------------------
(***************************************************************************)
(* What is proved of memlayer on the user's machine: of the registry of    *)
(* open projects in the daemon (Registry), of the process around its lock, *)
(* pid file and socket (Lifecycle), and of the files that belong to others *)
(* and that install and uninstall change (ClientFiles).                    *)
(***************************************************************************)
EXTENDS Registry, Lifecycle, ClientFiles, ListsProofs, SequenceTheorems

------------------------------------------------------------------------------
(***************************************************************************)
(* Whatever openers race, fail or delete, and however small the cache is,   *)
(* a ProjectState that is in use or in the cache has a live write thread     *)
(* of the right project. The invariant adds to that what the steps of        *)
(* get_or_open rely on: an opener holds a slot from the spawn to the release, *)
(* and only then, and one that is on its way has a name.                     *)
(***************************************************************************)

Shape ==
    /\ cache \in [Projects -> Slots \cup {0}]
    /\ thread \in [Slots -> Names \cup {None}]
    /\ pc \in [Openers -> Steps] /\ name \in [Openers -> Names \cup {None}]
    /\ holds \in [Openers -> Slots \cup {0}]

OpenerSound ==
    \A c \in Openers :
        /\ pc[c] # "idle" => name[c] \in Names
        /\ IF pc[c] \in {"insert", "use"} THEN holds[c] \in Slots ELSE holds[c] = 0

RegistryInv == Shape /\ OpenerSound /\ HeldThreadIsLive

LEMMA InitRegistry == Init => RegistryInv
BY RegistryAssumption DEF Init, RegistryInv, Shape, OpenerSound, HeldThreadIsLive, Steps, Cached

\* An opener moves within get_or_open without touching what it or others hold.
LEMMA GotoStep ==
    ASSUME RegistryInv, NEW c \in Openers, pc[c] \notin {"idle", "insert", "use"},
           NEW step \in Steps \ {"insert", "use"}, Goto(c, step),
           cache' = cache, thread' = thread, holds' = holds
    PROVE  RegistryInv'
<1>1. Shape'
  BY DEF RegistryInv, Shape, Goto
<1>2. \A d \in Openers \ {c} : pc'[d] = pc[d] /\ name'[d] = name[d]
  BY DEF RegistryInv, Shape, Goto
<1>3. pc'[c] = step /\ (step # "idle" => name'[c] = name[c])
  BY DEF RegistryInv, Shape, Goto
<1>4. OpenerSound'
  BY <1>2, <1>3 DEF RegistryInv, OpenerSound
<1>5. HeldThreadIsLive'
  BY <1>2, <1>3 DEF RegistryInv, HeldThreadIsLive, Cached
<1> QED BY <1>1, <1>4, <1>5 DEF RegistryInv

LEMMA HitStep ==
    ASSUME RegistryInv, NEW c \in Openers, NEW n \in Names, Hit(c, n)
    PROVE  RegistryInv'
<1> DEFINE k == KeyOf[n]
<1>1. k \in Cached /\ thread[cache[k]] = n /\ cache[k] \in Slots
  BY RegistryAssumption DEF Hit, Cached, RegistryInv, Shape
<1>2. /\ holds' = [holds EXCEPT ![c] = cache[k]] /\ pc' = [pc EXCEPT ![c] = "use"]
      /\ name' = [name EXCEPT ![c] = n] /\ cache' = cache /\ thread' = thread
  BY DEF Hit, Start
<1>3. Shape'
  BY <1>1, <1>2 DEF RegistryInv, Shape, Steps
<1>4. \A d \in Openers \ {c} :
        pc'[d] = pc[d] /\ name'[d] = name[d] /\ holds'[d] = holds[d]
  BY <1>2 DEF RegistryInv, Shape
<1>5. pc'[c] = "use" /\ name'[c] = n /\ holds'[c] = cache[k]
  BY <1>2 DEF RegistryInv, Shape
<1>6. OpenerSound'
  BY <1>1, <1>4, <1>5 DEF RegistryInv, OpenerSound
<1>7. HeldThreadIsLive'
  BY <1>1, <1>2, <1>4, <1>5 DEF RegistryInv, HeldThreadIsLive, Cached
<1> QED BY <1>3, <1>6, <1>7 DEF RegistryInv

LEMMA MissStep ==
    ASSUME RegistryInv, NEW c \in Openers, NEW n \in Names, Miss(c, n)
    PROVE  RegistryInv'
<1>1. /\ pc' = [pc EXCEPT ![c] = "read"] /\ name' = [name EXCEPT ![c] = n]
      /\ cache' = cache /\ thread' = thread /\ holds' = holds
  BY DEF Miss, Start
<1>2. Shape'
  BY <1>1 DEF RegistryInv, Shape, Steps
<1>3. \A d \in Openers \ {c} : pc'[d] = pc[d] /\ name'[d] = name[d]
  BY <1>1 DEF RegistryInv, Shape
<1>4. pc'[c] = "read" /\ name'[c] = n /\ holds'[c] = 0
  BY <1>1 DEF Miss, RegistryInv, Shape, OpenerSound
<1>5. OpenerSound'
  BY <1>1, <1>3, <1>4 DEF RegistryInv, OpenerSound
<1>6. HeldThreadIsLive'
  BY <1>1, <1>3, <1>4 DEF RegistryInv, HeldThreadIsLive, Cached
<1> QED BY <1>2, <1>5, <1>6 DEF RegistryInv

\* The new thread takes a slot that nobody refers to, since references are to live
\* threads.
LEMMA SpawnStep ==
    ASSUME RegistryInv, NEW c \in Openers, SpawnWriteThread(c)
    PROVE  RegistryInv'
<1> DEFINE t == CHOOSE t \in FreeSlots : TRUE
<1>1. t \in Slots /\ thread[t] = None
  BY DEF SpawnWriteThread, FreeSlots
<1>2. /\ thread' = [thread EXCEPT ![t] = name[c]] /\ holds' = [holds EXCEPT ![c] = t]
      /\ pc' = [pc EXCEPT ![c] = "insert"] /\ name' = name /\ cache' = cache
  BY DEF SpawnWriteThread, Goto
<1> HIDE DEF t
<1>3. name[c] \in Names
  BY DEF RegistryInv, OpenerSound, SpawnWriteThread
<1>4. Shape'
  BY <1>1, <1>2, <1>3 DEF RegistryInv, Shape, Steps
<1>5. \A d \in Openers \ {c} : pc'[d] = pc[d] /\ holds'[d] = holds[d]
  BY <1>2 DEF RegistryInv, Shape
<1>6. pc'[c] = "insert" /\ holds'[c] = t /\ thread'[t] = name[c]
  BY <1>1, <1>2 DEF RegistryInv, Shape
<1>7. \A s \in Slots \ {t} : thread'[s] = thread[s]
  BY <1>2 DEF RegistryInv, Shape
<1>8. OpenerSound'
  BY <1>1, <1>2, <1>3, <1>5, <1>6 DEF RegistryInv, OpenerSound
<1>9. \A d \in Openers : pc'[d] \in {"insert", "use"} => thread'[holds'[d]] = name'[d]
  <2> SUFFICES ASSUME NEW d \in Openers, pc'[d] \in {"insert", "use"}
               PROVE  thread'[holds'[d]] = name'[d]
    OBVIOUS
  <2>1. CASE d = c
    BY <2>1, <1>2, <1>6
  <2>2. CASE d # c
    <3>1. thread[holds[d]] = name[d] /\ name[d] \in Names /\ holds[d] \in Slots
      BY <2>2, <1>5 DEF RegistryInv, OpenerSound, HeldThreadIsLive
    <3>2. holds[d] # t
      BY <3>1, <1>1, RegistryAssumption
    <3> QED BY <2>2, <3>1, <3>2, <1>2, <1>5, <1>7
  <2> QED BY <2>1, <2>2
<1>10. \A k \in Cached' : thread'[cache'[k]] # None /\ KeyOf[thread'[cache'[k]]] = k
  <2> SUFFICES ASSUME NEW k \in Cached
               PROVE  thread'[cache[k]] # None /\ KeyOf[thread'[cache[k]]] = k
    BY <1>2 DEF Cached
  <2>1. cache[k] \in Slots /\ thread[cache[k]] # None /\ KeyOf[thread[cache[k]]] = k
    BY DEF Cached, RegistryInv, Shape, HeldThreadIsLive
  <2> QED BY <2>1, <1>1, <1>7
<1> QED BY <1>4, <1>8, <1>9, <1>10 DEF RegistryInv, HeldThreadIsLive

LEMMA InsertStep ==
    ASSUME RegistryInv, NEW c \in Openers, Insert(c)
    PROVE  RegistryInv'
<1>1. /\ name[c] \in Names /\ holds[c] \in Slots /\ thread[holds[c]] = name[c]
      /\ Key(c) \in Projects
  BY RegistryAssumption DEF Insert, RegistryInv, OpenerSound, HeldThreadIsLive, Key
<1>2. PICK evicted : cache' = [j \in Projects |-> IF j = Key(c) THEN holds[c]
                                                ELSE IF j \in evicted THEN 0 ELSE cache[j]]
  BY DEF Insert
<1>3. /\ pc' = [pc EXCEPT ![c] = "use"] /\ name' = name
      /\ thread' = thread /\ holds' = holds
  BY DEF Insert, Goto
<1>4. Shape'
  BY <1>1, <1>2, <1>3 DEF RegistryInv, Shape, Steps
<1>5. \A d \in Openers : pc'[d] = IF d = c THEN "use" ELSE pc[d]
  BY <1>3 DEF RegistryInv, Shape
<1>6. OpenerSound'
  BY <1>1, <1>3, <1>5 DEF RegistryInv, OpenerSound
<1>7. \A d \in Openers : pc'[d] \in {"insert", "use"} => thread'[holds'[d]] = name'[d]
  BY <1>1, <1>3, <1>5 DEF RegistryInv, HeldThreadIsLive
<1>8. \A k \in Cached' : thread'[cache'[k]] # None /\ KeyOf[thread'[cache'[k]]] = k
  <2> SUFFICES ASSUME NEW k \in Projects, cache'[k] # 0
               PROVE  thread[cache'[k]] # None /\ KeyOf[thread[cache'[k]]] = k
    BY <1>3 DEF Cached
  <2>1. CASE k = Key(c)
    <3>1. cache'[k] = holds[c]
      BY <2>1, <1>2
    <3> QED BY <3>1, <2>1, <1>1, RegistryAssumption DEF Key
  <2>2. CASE k # Key(c)
    <3>1. cache'[k] = cache[k] /\ k \in Cached
      BY <2>2, <1>2 DEF Cached
    <3> QED BY <3>1 DEF RegistryInv, HeldThreadIsLive
  <2> QED BY <2>1, <2>2
<1> QED BY <1>4, <1>6, <1>7, <1>8 DEF RegistryInv, HeldThreadIsLive

LEMMA ReleaseStep ==
    ASSUME RegistryInv, NEW c \in Openers, Release(c)
    PROVE  RegistryInv'
<1>1. /\ pc' = [pc EXCEPT ![c] = "idle"] /\ name' = [name EXCEPT ![c] = None]
      /\ holds' = [holds EXCEPT ![c] = 0] /\ cache' = cache /\ thread' = thread
  BY DEF Release, Goto
<1>2. Shape'
  BY <1>1 DEF RegistryInv, Shape, Steps
<1>3. \A d \in Openers \ {c} :
        pc'[d] = pc[d] /\ name'[d] = name[d] /\ holds'[d] = holds[d]
  BY <1>1 DEF RegistryInv, Shape
<1>4. pc'[c] = "idle" /\ holds'[c] = 0
  BY <1>1 DEF RegistryInv, Shape
<1>5. OpenerSound'
  BY <1>3, <1>4 DEF RegistryInv, OpenerSound
<1>6. HeldThreadIsLive'
  BY <1>1, <1>3, <1>4 DEF RegistryInv, HeldThreadIsLive, Cached
<1> QED BY <1>2, <1>5, <1>6 DEF RegistryInv

\* A thread exits only when nothing refers to its slot.
LEMMA ExitStep ==
    ASSUME RegistryInv, NEW t \in Slots, Exit(t)
    PROVE  RegistryInv'
<1>1. /\ thread' = [thread EXCEPT ![t] = None] /\ pc' = pc /\ name' = name
      /\ cache' = cache /\ holds' = holds
      /\ \A k \in Projects : cache[k] # t
      /\ \A c \in Openers : holds[c] # t
  BY DEF Exit, Unreferenced
<1>2. Shape'
  BY <1>1 DEF RegistryInv, Shape
<1>3. \A s \in Slots \ {t} : thread'[s] = thread[s]
  BY <1>1 DEF RegistryInv, Shape
<1>4. OpenerSound'
  BY <1>1 DEF RegistryInv, OpenerSound
<1>5. \A c \in Openers : pc'[c] \in {"insert", "use"} => thread'[holds'[c]] = name'[c]
  BY <1>1, <1>3 DEF RegistryInv, OpenerSound, HeldThreadIsLive
<1>6. \A k \in Cached' : thread'[cache'[k]] # None /\ KeyOf[thread'[cache'[k]]] = k
  <2> SUFFICES ASSUME NEW k \in Cached
               PROVE  thread'[cache[k]] # None /\ KeyOf[thread'[cache[k]]] = k
    BY <1>1 DEF Cached
  <2>1. cache[k] \in Slots \ {t} /\ thread[cache[k]] # None /\ KeyOf[thread[cache[k]]] = k
    BY <1>1 DEF Cached, RegistryInv, Shape, HeldThreadIsLive
  <2> QED BY <2>1, <1>3
<1> QED BY <1>2, <1>4, <1>5, <1>6 DEF RegistryInv, HeldThreadIsLive

\* Steps on the disk and stuttering.
LEMMA UnchangedStep ==
    ASSUME RegistryInv, UNCHANGED <<cache, thread, pc, name, holds>>
    PROVE  RegistryInv'
BY DEF RegistryInv, Shape, OpenerSound, HeldThreadIsLive, Cached

LEMMA RegistryInductive == RegistryInv /\ [Next]_vars => RegistryInv'
<1> SUFFICES ASSUME RegistryInv, [Next]_vars PROVE RegistryInv'
  OBVIOUS
<1>1. ASSUME NEW c \in Openers, Proceed(c) PROVE RegistryInv'
  <2>1. CASE ReadConfig(c)
    <3>1. /\ pc[c] \notin {"idle", "insert", "use"} /\ cache' = cache /\ thread' = thread /\ holds' = holds
          /\ \E step \in {"create", "spawn", "idle"} : Goto(c, step)
      BY <2>1 DEF ReadConfig
    <3> QED BY <3>1, GotoStep DEF Steps
  <2>2. CASE CreateTemp(c)
    BY <2>2, GotoStep DEF CreateTemp, Steps
  <2>3. CASE WriteTemp(c)
    BY <2>3, GotoStep DEF WriteTemp, Steps
  <2>4. CASE RenameTemp(c)
    <3>1. /\ pc[c] \notin {"idle", "insert", "use"} /\ cache' = cache /\ thread' = thread /\ holds' = holds
          /\ Goto(c, "idle") \/ Goto(c, "spawn")
      BY <2>4 DEF RenameTemp
    <3> QED BY <3>1, GotoStep DEF Steps
  <2>5. CASE SpawnWriteThread(c)
    BY <2>5, SpawnStep
  <2>6. CASE Insert(c)
    BY <2>6, InsertStep
  <2>7. CASE Release(c)
    BY <2>7, ReleaseStep
  <2> QED BY <1>1, <2>1, <2>2, <2>3, <2>4, <2>5, <2>6, <2>7 DEF Proceed
<1>2. ASSUME NEW c \in Openers, OpenFails(c) PROVE RegistryInv'
  BY <1>2, GotoStep DEF OpenFails, Steps
<1>3. ASSUME NEW c \in Openers, NEW n \in Names, Hit(c, n) \/ Miss(c, n) PROVE RegistryInv'
  BY <1>3, HitStep, MissStep
<1>4. ASSUME NEW t \in Slots, Exit(t) PROVE RegistryInv'
  BY <1>4, ExitStep
<1>5. CASE (\E k \in Projects : DeleteDb(k)) \/ DeleteDir \/ DeleteDirFails
  BY <1>5, UnchangedStep DEF DeleteDb, DeleteDir, DeleteDirFails
<1>6. CASE UNCHANGED vars
  BY <1>6, UnchangedStep DEF vars
<1> QED BY <1>1, <1>2, <1>3, <1>4, <1>5, <1>6 DEF Next

\* For every number of openers, names, projects and any capacity: whoever holds a
\* ProjectState, and whoever will get one from the cache, holds a live write thread
\* of the project asked for, so WriteHandle::send cannot find its channel closed.
THEOREM HeldThreadsAreLive == Spec => []HeldThreadIsLive
<1>1. RegistryInv => HeldThreadIsLive
  BY DEF RegistryInv
<1> QED BY InitRegistry, RegistryInductive, <1>1, PTL DEF Spec

------------------------------------------------------------------------------
(* The list and the map. What retain and touch do to the list is proved by induction on  *)
(* its length, in the form of a least counterexample.                                   *)

\* The prefixes of a list without some elements: the recursion is well defined.
KeptBy(f, s, gone, n) ==
    f = [i \in 0..n |-> IF i = 0 THEN <<>>
                        ELSE IF s[i] \in gone THEN f[i - 1] ELSE Append(f[i - 1], s[i])]

LEMMA KeptExists ==
    ASSUME NEW s, NEW gone
    PROVE  \A n \in Nat : \E f : KeptBy(f, s, gone, n)
<1> DEFINE T == {n \in Nat : ~\E f : KeptBy(f, s, gone, n)}
<1> SUFFICES ASSUME T # {} PROVE FALSE
  OBVIOUS
<1>1. PICK m \in T : \A y \in T : m <= y
  BY LeastNat
<1>2. CASE m = 0
  <2> DEFINE g == [i \in 0..0 |-> <<>>]
  <2>1. \A i \in 0..0 : i = 0
    OBVIOUS
  <2>2. KeptBy(g, s, gone, 0)
    BY <2>1 DEF KeptBy
  <2> QED BY <1>2, <2>2
<1>3. CASE m # 0
  <2>1. m \in Nat /\ m - 1 \in Nat /\ m - 1 \notin T
    BY <1>1, <1>3
  <2>2. PICK f : KeptBy(f, s, gone, m - 1)
    BY <2>1
  <2> DEFINE last == IF s[m] \in gone THEN f[m - 1] ELSE Append(f[m - 1], s[m])
             g == [i \in 0..m |-> IF i = m THEN last ELSE f[i]]
  <2>3. \A i \in 0..m : g[i] = IF i = 0 THEN <<>>
                               ELSE IF s[i] \in gone THEN g[i - 1] ELSE Append(g[i - 1], s[i])
    <3> SUFFICES ASSUME NEW i \in 0..m
                 PROVE  g[i] = IF i = 0 THEN <<>>
                               ELSE IF s[i] \in gone THEN g[i - 1] ELSE Append(g[i - 1], s[i])
      OBVIOUS
    <3>1. CASE i = m
      <4>1. m - 1 \in 0..m /\ m - 1 # m
        BY <2>1
      <4>2. g[m - 1] = f[m - 1] /\ g[m] = last
        BY <2>1, <4>1
      <4> QED BY <1>3, <3>1, <4>2
    <3>2. CASE i # m
      <4>1. i \in 0..(m - 1) /\ g[i] = f[i]
        BY <2>1, <3>2
      <4>2. i # 0 => i - 1 \in 0..m /\ i - 1 # m /\ g[i - 1] = f[i - 1]
        BY <2>1, <3>2
      <4>3. f[i] = IF i = 0 THEN <<>>
                   ELSE IF s[i] \in gone THEN f[i - 1] ELSE Append(f[i - 1], s[i])
        BY <2>2, <4>1 DEF KeptBy
      <4> HIDE DEF g
      <4> QED BY <4>1, <4>2, <4>3
    <3> QED BY <3>1, <3>2
  <2>4. g = [i \in 0..m |-> g[i]]
    OBVIOUS
  <2> HIDE DEF g
  <2>5. KeptBy(g, s, gone, m)
    BY <2>3, <2>4 DEF KeptBy
  <2> QED BY <2>5
<1> QED BY <1>2, <1>3

\* Pushing at the back adds one project to the list.
LEMMA RangeOfAppend ==
    ASSUME NEW S, NEW s \in Seq(S), NEW x \in S
    PROVE  Append(s, x) \in Seq(S) /\ Range(Append(s, x)) = Range(s) \cup {x}
<1>1. Append(s, x) = s \o <<x>> /\ Append(s, x) \in Seq(S) /\ <<x>> \in Seq(S)
  BY AppendIsConcat, AppendProperties
<1>2. Range(<<x>>) = {x}
  BY DEF Range
<1>3. Range(s \o <<x>>) = Range(s) \cup Range(<<x>>)
  BY <1>1, RangeConcatenation
<1> QED BY <1>1, <1>2, <1>3

\* retain keeps exactly the entries of the other projects.
LEMMA WithoutRange ==
    ASSUME NEW S, NEW s \in Seq(S), NEW gone
    PROVE  Without(s, gone) \in Seq(S) /\ Range(Without(s, gone)) = Range(s) \ gone
<1> DEFINE n == Len(s)
           kept == CHOOSE f : KeptBy(f, s, gone, n)
<1>1. n \in Nat /\ DOMAIN s = 1..n /\ \A i \in 1..n : s[i] \in S
  BY LenProperties, ElementOfSeq
<1>2. KeptBy(kept, s, gone, n)
  BY <1>1, KeptExists
<1>3. Without(s, gone) = kept[n]
  BY DEF Without, KeptBy
<1> HIDE DEF n, kept
<1>4. \A i \in 0..n : kept[i] = IF i = 0 THEN <<>>
                                ELSE IF s[i] \in gone THEN kept[i - 1]
                                ELSE Append(kept[i - 1], s[i])
  BY <1>2 DEF KeptBy
<1> DEFINE Good(i) == kept[i] \in Seq(S) /\ Range(kept[i]) = {s[j] : j \in 1..i} \ gone
           T == {i \in 0..n : ~Good(i)}
<1>5. ASSUME T # {} PROVE FALSE
  <2> HIDE DEF Good
  <2>a. T \in SUBSET Nat
    BY <1>1
  <2>1. PICK m \in T : \A y \in T : m <= y
    BY <2>a, <1>5, LeastNat
  <2>2. CASE m = 0
    <3>1. kept[m] = <<>>
      BY <1>1, <1>4, <2>2
    <3>2. <<>> \in Seq(S) /\ Range(<<>>) = {} /\ {s[j] : j \in 1..0} = {}
      BY DEF Range
    <3> QED BY <2>2, <3>1, <3>2 DEF Good
  <2>3. CASE m # 0
    <3>1. m \in 1..n /\ m - 1 \in 0..n /\ m - 1 \notin T
      BY <1>1, <2>1, <2>3
    <3>2. kept[m - 1] \in Seq(S) /\ Range(kept[m - 1]) = {s[j] : j \in 1..(m - 1)} \ gone
      BY <3>1 DEF Good
    <3>3. {s[j] : j \in 1..m} = {s[j] : j \in 1..(m - 1)} \cup {s[m]}
      <4>1. \A j : j \in 1..m <=> j \in 1..(m - 1) \/ j = m
        BY <3>1
      <4> QED BY <4>1
    <3>4. kept[m] = IF s[m] \in gone THEN kept[m - 1] ELSE Append(kept[m - 1], s[m])
      BY <1>1, <1>4, <3>1
    <3>5. CASE s[m] \in gone
      BY <3>2, <3>3, <3>4, <3>5 DEF Good
    <3>6. CASE s[m] \notin gone
      <4>1. /\ Append(kept[m - 1], s[m]) \in Seq(S)
            /\ Range(Append(kept[m - 1], s[m])) = Range(kept[m - 1]) \cup {s[m]}
        BY <1>1, <3>1, <3>2, RangeOfAppend
      <4> QED BY <3>2, <3>3, <3>4, <3>6, <4>1 DEF Good
    <3> QED BY <3>5, <3>6
  <2> QED BY <2>2, <2>3
<1>6. Good(n)
  <2>1. n \in 0..n
    BY <1>1
  <2> HIDE DEF Good
  <2> QED BY <1>5, <2>1
<1>7. {s[j] : j \in 1..n} = Range(s)
  BY <1>1 DEF Range
<1> QED BY <1>3, <1>6, <1>7

\* touch moves a project of the list to its back.
LEMMA TouchRange ==
    ASSUME lru \in Seq(Projects), NEW k \in Range(lru)
    PROVE  Touch(k) \in Seq(Projects) /\ Range(Touch(k)) = Range(lru)
<1> DEFINE n == Len(lru)
           places == {i \in 1..n : lru[i] = k}
           m == Min(places)
           before == SubSeq(lru, 1, m - 1)
           after == SubSeq(lru, m + 1, n)
<1>1. n \in Nat /\ DOMAIN lru = 1..n /\ \A i \in 1..n : lru[i] \in Projects
  BY LenProperties, ElementOfSeq
<1>2. places # {} /\ places \in SUBSET Nat
  BY <1>1 DEF Range
<1>3. \E i \in places : \A j \in places : i <= j
  BY <1>2, LeastNat
<1>4. m \in places
  BY <1>3 DEF Min
<1>5. RemoveFirst(lru, k) = before \o after
  BY <1>2 DEF RemoveFirst, RemoveAt, SelectInSeq
<1> HIDE DEF m
<1>6. m \in 1..n /\ lru[m] = k /\ k \in Projects
  BY <1>1, <1>4
<1>7. /\ before \in Seq(Projects) /\ Len(before) = m - 1
      /\ \A i \in 1..(m - 1) : before[i] = lru[i]
  BY <1>1, <1>6, SubSeqProperties
<1>8. /\ after \in Seq(Projects) /\ Len(after) = n - m
      /\ \A i \in 1..(n - m) : after[i] = lru[m + i]
  <2> DEFINE u == m + 1
  <2>1. u \in Int /\ n \in Int /\ \A i \in u..n : lru[i] \in Projects
    BY <1>1, <1>6
  <2> HIDE DEF u, n
  <2>2. /\ SubSeq(lru, u, n) \in Seq(Projects)
        /\ Len(SubSeq(lru, u, n)) = (IF u <= n THEN n - u + 1 ELSE 0)
        /\ \A i \in 1..(n - u + 1) : SubSeq(lru, u, n)[i] = lru[u + i - 1]
    BY <2>1, SubSeqProperties
  <2>3. (IF u <= n THEN n - u + 1 ELSE 0) = n - m /\ n - u + 1 = n - m
    BY <1>1, <1>6 DEF u
  <2>4. \A i \in 1..(n - m) : u + i - 1 = m + i
    BY <1>1, <1>6 DEF u
  <2> QED BY <2>2, <2>3, <2>4 DEF u
<1> HIDE DEF n, before, after
<1>9. Range(before) = {lru[i] : i \in 1..(m - 1)}
  BY <1>7, LenProperties DEF Range
<1>10. Range(after) = {lru[i] : i \in (m + 1)..n}
  <2>1. Range(after) = {lru[m + i] : i \in 1..(n - m)}
    BY <1>8, LenProperties DEF Range
  <2>2. \A i \in 1..(n - m) : m + i \in (m + 1)..n
    BY <1>1, <1>6
  <2>3. \A j \in (m + 1)..n : j - m \in 1..(n - m) /\ m + (j - m) = j
    BY <1>1, <1>6
  <2> QED BY <2>1, <2>2, <2>3
<1>11. Range(lru) = Range(before) \cup Range(after) \cup {k}
  <2>1. Range(lru) = {lru[i] : i \in 1..n}
    BY <1>1 DEF Range
  <2>2. \A i : i \in 1..n <=> i \in 1..(m - 1) \/ i \in (m + 1)..n \/ i = m
    BY <1>1, <1>6
  <2> QED BY <2>1, <2>2, <1>6, <1>9, <1>10
<1> DEFINE rest == before \o after
<1>12. rest \in Seq(Projects) /\ Range(rest) = Range(before) \cup Range(after)
  BY <1>7, <1>8, ConcatProperties, RangeConcatenation
<1>13. Touch(k) = Append(rest, k)
  BY <1>5 DEF Touch
<1> HIDE DEF rest
<1>14. Range(Append(rest, k)) = Range(rest) \cup {k} /\ Append(rest, k) \in Seq(Projects)
  BY <1>6, <1>12, RangeOfAppend
<1> QED BY <1>11, <1>12, <1>13, <1>14

\* While the list names a cached project, the eviction finds one.
LEMMA OldestIsCached ==
    ASSUME lru \in Seq(Projects), Range(lru) = Cached, Cached # {}
    PROVE  Oldest \in Cached
<1> DEFINE T == {i \in DOMAIN lru : lru[i] \in Cached}
<1>1. Len(lru) \in Nat /\ DOMAIN lru = 1..Len(lru)
  BY LenProperties
<1>2. T # {} /\ T \in SUBSET Nat
  BY <1>1 DEF Range
<1>3. PICK m \in T : \A j \in T : m <= j
  BY <1>2, LeastNat
<1>4. \A j \in 1..(m - 1) : lru[j] \notin Cached
  <2> SUFFICES ASSUME NEW j \in 1..(m - 1), lru[j] \in Cached PROVE FALSE
    OBVIOUS
  <2>1. m \in 1..Len(lru)
    BY <1>1
  <2>2. j \in DOMAIN lru /\ ~(m <= j)
    BY <1>1, <2>1
  <2> QED BY <1>3, <2>2
<1> QED BY <1>3, <1>4 DEF Oldest

ListInv ==
    /\ lru \in Seq(Projects) /\ Range(lru) = Cached
    /\ IsFiniteSet(Cached) /\ Cardinality(Cached) <= Capacity

\* The eviction makes room for the project that comes in.
LEMMA InsertKeepsList ==
    ASSUME RegistryInv, ListInv, NEW c \in Openers, Insert(c)
    PROVE  ListInv'
<1> DEFINE k == Key(c)
           full == Cardinality(Cached) >= Capacity
           evicted == IF full THEN {Oldest} ELSE {}
<1>1. name[c] \in Names /\ holds[c] \in Slots
  BY DEF Insert, RegistryInv, OpenerSound
<1>2. k \in Projects /\ holds[c] # 0
  BY <1>1, RegistryAssumption DEF Key, Slots
<1>3. /\ cache' = [j \in Projects |-> IF j = k THEN holds[c]
                                      ELSE IF j \in evicted THEN 0 ELSE cache[j]]
      /\ lru' = Append(Without(lru, evicted), k)
  BY DEF Insert
<1>4. /\ Cardinality(Cached) \in Nat /\ Capacity \in Nat \ {0}
      /\ full => Cardinality(Cached) = Capacity
  BY FS_CardinalityType, RegistryAssumption DEF ListInv
<1>5. full => Oldest \in Cached
  BY <1>4, FS_EmptySet, OldestIsCached DEF ListInv
<1> HIDE DEF k, full
<1>6. Cached' = (Cached \ evicted) \cup {k}
  BY <1>2, <1>3 DEF Cached
<1>7. lru' \in Seq(Projects) /\ Range(lru') = Cached'
  <2>1. Without(lru, evicted) \in Seq(Projects) /\ Range(Without(lru, evicted)) = Cached \ evicted
    BY WithoutRange DEF ListInv
  <2> HIDE DEF evicted
  <2> QED BY <1>2, <1>3, <1>6, <2>1, RangeOfAppend
<1>8. /\ IsFiniteSet(Cached \ evicted) /\ Cardinality(Cached \ evicted) \in Nat
      /\ Cardinality(Cached \ evicted) + 1 <= Capacity
  <2>1. CASE full
    <3>1. evicted = {Oldest}
      BY <2>1
    <3>2. IsFiniteSet(Cached \ {Oldest}) /\ Cardinality(Cached \ {Oldest}) = Cardinality(Cached) - 1
      BY <1>5, <2>1, FS_RemoveElement DEF ListInv
    <3> QED BY <1>4, <2>1, <3>1, <3>2, FS_CardinalityType
  <2>2. CASE ~full
    <3>1. Cached \ evicted = Cached
      BY <2>2
    <3>2. Cardinality(Cached) + 1 <= Capacity
      BY <1>4, <2>2 DEF full
    <3> QED BY <1>4, <3>1, <3>2 DEF ListInv
  <2> QED BY <2>1, <2>2
<1>9. IsFiniteSet(Cached') /\ Cardinality(Cached') <= Capacity
  <2>1. /\ IsFiniteSet((Cached \ evicted) \cup {k})
        /\ Cardinality((Cached \ evicted) \cup {k}) =
             IF k \in Cached \ evicted THEN Cardinality(Cached \ evicted)
             ELSE Cardinality(Cached \ evicted) + 1
    BY <1>8, FS_AddElement
  <2> HIDE DEF evicted
  <2> QED BY <1>4, <1>6, <1>8, <2>1
<1> QED BY <1>7, <1>9 DEF ListInv

LEMMA ListInductive == RegistryInv /\ ListInv /\ [Next]_vars => ListInv'
<1> SUFFICES ASSUME RegistryInv, ListInv, [Next]_vars PROVE ListInv'
  OBVIOUS
<1>1. CASE UNCHANGED <<cache, lru>>
  BY <1>1 DEF ListInv, Cached
<1>2. ASSUME NEW c \in Openers, NEW n \in Names, Hit(c, n) PROVE ListInv'
  <2>1. KeyOf[n] \in Range(lru) /\ lru' = Touch(KeyOf[n]) /\ cache' = cache
    BY <1>2 DEF Hit, ListInv
  <2>2. lru' \in Seq(Projects) /\ Range(lru') = Range(lru)
    BY <2>1, TouchRange DEF ListInv
  <2> QED BY <2>1, <2>2 DEF ListInv, Cached
<1>3. ASSUME NEW c \in Openers, Insert(c) PROVE ListInv'
  BY <1>3, InsertKeepsList
<1>4. CASE ~UNCHANGED <<cache, lru>>
  <2>1. (\E c \in Openers : Insert(c)) \/ (\E c \in Openers, n \in Names : Hit(c, n))
    BY <1>4 DEF Next, Proceed, ReadConfig, CreateTemp, WriteTemp, RenameTemp, SpawnWriteThread,
                Release, OpenFails, Miss, Exit, DeleteDb, DeleteDir, DeleteDirFails, vars
  <2> QED BY <1>2, <1>3, <2>1
<1> QED BY <1>1, <1>4

\* For every number of openers, names, projects and any capacity: the list and the map
\* speak of the same projects, never more than the capacity, whatever racing openers
\* push twice and evictions retain.
THEOREM ListAndMapAgree == Spec => []CacheShape
<1>1. Init => ListInv
  <2> SUFFICES ASSUME Init PROVE ListInv
    OBVIOUS
  <2>1. Cached = {} /\ lru = <<>>
    BY DEF Init, Cached
  <2>2. Range(lru) = {} /\ lru \in Seq(Projects)
    BY <2>1 DEF Range
  <2>3. IsFiniteSet(Cached) /\ Cardinality(Cached) = 0
    BY <2>1, FS_EmptySet
  <2> QED BY <2>1, <2>2, <2>3, RegistryAssumption DEF ListInv
<1>2. ListInv => CacheShape
  BY DEF ListInv, CacheShape
<1> QED BY <1>1, <1>2, InitRegistry, RegistryInductive, ListInductive, PTL DEF Spec

------------------------------------------------------------------------------
(***************************************************************************)
(* Safety of the daemon's lifecycle, for any number of commands, foreground  *)
(* daemons and crashes. The argument is the ownership of the flock: a daemon  *)
(* takes it before it touches a file and gives it back after it touched the   *)
(* last, so a step of one daemon on the files finds no other daemon owning.    *)
(***************************************************************************)

USE DEF Daemons

\* Initially nothing runs and there is no file.
LEMMA InitTypeOK == LifecycleInit => LifecycleTypeOK
BY LifecycleAssumption DEF LifecycleInit, LifecycleTypeOK, Ended, Alive

\* The steps of commands keep the types, and a command that checks or spawns keeps
\* the lock it took.
LEMMA CommandTypeOK ==
    ASSUME LifecycleTypeOK, NEW c \in Commands, CommandStep(c) PROVE LifecycleTypeOK'
<1>. USE LifecycleAssumption DEF LifecycleTypeOK, At, EnsureRunning, shared, Ended, Alive
<1>1. CASE Open(c)
  BY <1>1 DEF Open
<1>2. CASE StartCommand(c)
  BY <1>2 DEF StartCommand
<1>3. CASE Shutdown(c)
  BY <1>3 DEF Shutdown, Answers
<1>4. CASE Vanish(c)
  BY <1>4 DEF Vanish
<1>5. CASE Probe(c)
  BY <1>5 DEF Probe
<1>6. CASE ForceStart(c)
  BY <1>6 DEF ForceStart
<1>7. CASE RemoveSocket(c)
  BY <1>7 DEF RemoveSocket
<1>8. CASE LockSpawn(c)
  BY <1>8 DEF LockSpawn
<1>9. CASE Recheck(c)
  BY <1>9 DEF Recheck
<1>10. CASE Unlock(c)
  BY <1>10 DEF Unlock
<1>11. CASE Poll(c)
  BY <1>11 DEF Poll
<1>. QED
  BY <1>1, <1>2, <1>3, <1>4, <1>5, <1>6, <1>7, <1>8, <1>9, <1>10, <1>11
  DEF CommandStep

\* The steps of daemons keep the types; only its holder gives the lock away.
LEMMA DaemonTypeOK ==
    ASSUME LifecycleTypeOK, SingleDaemon, NEW d \in Daemons,
           DaemonStep(d) \/ StartService(d) \/ Term(d) \/ Crash(d)
    PROVE  LifecycleTypeOK'
<1>. USE LifecycleAssumption DEF LifecycleTypeOK, SingleDaemon, Owning, Goes, shared, Alive
<1>1. CASE TryLock(d)
  BY <1>1 DEF TryLock
<1>2. CASE WritePid(d)
  BY <1>2 DEF WritePid
<1>3. CASE BootFails(d)
  BY <1>3 DEF BootFails
<1>4. CASE Bind(d)
  BY <1>4 DEF Bind
<1>5. CASE BindFails(d)
  BY <1>5 DEF BindFails
<1>6. CASE Close(d)
  BY <1>6 DEF Close
<1>7. CASE UnlinkSocket(d)
  BY <1>7 DEF UnlinkSocket
<1>8. CASE UnlinkPid(d)
  BY <1>8 DEF UnlinkPid
<1>9. CASE ExitDaemon(d)
  BY <1>9 DEF ExitDaemon
<1>10. CASE StartService(d)
  BY <1>10 DEF StartService
<1>11. CASE Term(d)
  BY <1>11 DEF Term
<1>12. CASE Crash(d)
  BY <1>12 DEF Crash
<1>. QED
  BY <1>1, <1>2, <1>3, <1>4, <1>5, <1>6, <1>7, <1>8, <1>9, <1>10, <1>11, <1>12
  DEF DaemonStep

\* No command makes a daemon owning or takes the lock from one.
LEMMA CommandSafe ==
    ASSUME LifecycleTypeOK, SingleDaemon, PidNamesServer, NEW c \in Commands, CommandStep(c)
    PROVE  SingleDaemon' /\ PidNamesServer'
<1>. USE LifecycleAssumption DEF LifecycleTypeOK, SingleDaemon, PidNamesServer, Owning, At,
         EnsureRunning, shared
<1>1. CASE Open(c)
  BY <1>1 DEF Open
<1>2. CASE StartCommand(c)
  BY <1>2 DEF StartCommand
<1>3. CASE Shutdown(c)
  BY <1>3 DEF Shutdown, Answers
<1>4. CASE Vanish(c)
  BY <1>4 DEF Vanish
<1>5. CASE Probe(c)
  BY <1>5 DEF Probe
<1>6. CASE ForceStart(c)
  BY <1>6 DEF ForceStart
<1>7. CASE RemoveSocket(c)
  BY <1>7 DEF RemoveSocket
<1>8. CASE LockSpawn(c)
  BY <1>8 DEF LockSpawn
<1>9. CASE Recheck(c)
  BY <1>9 DEF Recheck
<1>10. CASE Unlock(c)
  BY <1>10 DEF Unlock
<1>11. CASE Poll(c)
  BY <1>11 DEF Poll
<1>. QED
  BY <1>1, <1>2, <1>3, <1>4, <1>5, <1>6, <1>7, <1>8, <1>9, <1>10, <1>11
  DEF CommandStep

\* A daemon's step leaves the lock with whoever owns it, and touches the pid file
\* only while it owns the lock itself.
LEMMA DaemonSafe ==
    ASSUME LifecycleTypeOK, SingleDaemon, PidNamesServer, NEW d \in Daemons,
           DaemonStep(d) \/ StartService(d) \/ Term(d) \/ Crash(d)
    PROVE  SingleDaemon' /\ PidNamesServer'
<1>. USE LifecycleAssumption DEF LifecycleTypeOK, SingleDaemon, PidNamesServer, Owning, Goes, shared
<1>1. CASE TryLock(d)
  BY <1>1 DEF TryLock
<1>2. CASE WritePid(d)
  BY <1>2 DEF WritePid
<1>3. CASE BootFails(d)
  BY <1>3 DEF BootFails
<1>4. CASE Bind(d)
  BY <1>4 DEF Bind
<1>5. CASE BindFails(d)
  BY <1>5 DEF BindFails
<1>6. CASE Close(d)
  BY <1>6 DEF Close
<1>7. CASE UnlinkSocket(d)
  BY <1>7 DEF UnlinkSocket
<1>8. CASE UnlinkPid(d)
  BY <1>8 DEF UnlinkPid
<1>9. CASE ExitDaemon(d)
  BY <1>9 DEF ExitDaemon
<1>10. CASE StartService(d)
  BY <1>10 DEF StartService
<1>11. CASE Term(d)
  BY <1>11 DEF Term
<1>12. CASE Crash(d)
  BY <1>12 DEF Crash
<1>. QED
  BY <1>1, <1>2, <1>3, <1>4, <1>5, <1>6, <1>7, <1>8, <1>9, <1>10, <1>11, <1>12
  DEF DaemonStep

\* The invariant: each of the three parts needs the others' types and ownership.
LEMMA LifecycleInvariant == LifecycleSpec => [](LifecycleTypeOK /\ SingleDaemon /\ PidNamesServer)
<1>1. LifecycleInit => LifecycleTypeOK /\ SingleDaemon /\ PidNamesServer
  BY InitTypeOK DEF LifecycleInit, SingleDaemon, PidNamesServer, Owning
<1>2. LifecycleTypeOK /\ SingleDaemon /\ PidNamesServer /\ [LifecycleNext]_lifecycleVars
      => (LifecycleTypeOK /\ SingleDaemon /\ PidNamesServer)'
  <2>1. CASE UNCHANGED lifecycleVars
    BY <2>1 DEF lifecycleVars, LifecycleTypeOK, SingleDaemon, PidNamesServer
  <2>2. ASSUME LifecycleTypeOK, SingleDaemon, PidNamesServer, LifecycleNext
        PROVE  (LifecycleTypeOK /\ SingleDaemon /\ PidNamesServer)'
    BY <2>2, CommandTypeOK, CommandSafe, DaemonTypeOK, DaemonSafe DEF LifecycleNext
  <2>. QED
    BY <2>1, <2>2
<1>. QED
  BY <1>1, <1>2, PTL DEF LifecycleSpec

\* At most one daemon owns the files of a data directory, whatever commands and
\* crashes come together.
THEOREM OneDaemonOwnsTheFiles == LifecycleSpec => []SingleDaemon
BY LifecycleInvariant, PTL

\* The pid file names the daemon that serves.
THEOREM PidFileNamesTheServer == LifecycleSpec => []PidNamesServer
BY LifecycleInvariant, PTL

\* A serving daemon's socket is only ever removed by a command that decided to.
THEOREM SocketOnlyRemovedByCommand == LifecycleSpec => ServerKeepsSocket
<1>. DEFINE Kept == \A d \in Daemons :
              daemon[d] = "serving" /\ sock = d /\ sock' # d =>
                  \E c \in Commands : cli[c] = "remove" /\ cli'[c] # "remove"
<1>1. ASSUME LifecycleTypeOK, SingleDaemon, LifecycleNext PROVE Kept
  <2>1. ASSUME NEW c \in Commands, CommandStep(c) PROVE Kept
    <3>1. CASE RemoveSocket(c)
      BY <1>1, <3>1 DEF RemoveSocket, At, LifecycleTypeOK
    <3>2. CASE ~RemoveSocket(c)
      BY <1>1, <2>1, <3>2 DEF CommandStep, Open, StartCommand, Shutdown, Vanish, Probe,
         ForceStart, LockSpawn, Recheck, Unlock, Poll, shared
    <3>. QED
      BY <3>1, <3>2
  <2>2. ASSUME NEW e \in Daemons,
               DaemonStep(e) \/ StartService(e) \/ Term(e) \/ Crash(e)
        PROVE  Kept
    <3>1. CASE Bind(e) \/ BindFails(e) \/ UnlinkSocket(e)
      BY <1>1, <3>1 DEF Bind, BindFails, UnlinkSocket, SingleDaemon, Owning
    <3>2. CASE ~(Bind(e) \/ BindFails(e) \/ UnlinkSocket(e))
      BY <2>2, <3>2 DEF DaemonStep, TryLock, WritePid, BootFails, Close, UnlinkPid,
         ExitDaemon, StartService, Term, Crash, shared
    <3>. QED
      BY <3>1, <3>2
  <2>. QED
    BY <1>1, <2>1, <2>2 DEF LifecycleNext
<1>2. LifecycleTypeOK /\ SingleDaemon /\ [LifecycleNext]_lifecycleVars => [Kept]_lifecycleVars
  BY <1>1
<1>. QED
  BY <1>2, LifecycleInvariant, PTL DEF LifecycleSpec, ServerKeepsSocket

------------------------------------------------------------------------------
(***************************************************************************)
(* The files of others, through any installs, uninstalls, crashes and edits:   *)
(* what their owners put there stays, but for the known losses, an install     *)
(* that is through has put its entries into every file, and an uninstall       *)
(* leaves nothing of memlayer's. The invariant says of every moment what a     *)
(* file may look like: a text has one block, whole or cut off at its end;      *)
(* settings are in the file or, torn, in the backup; and the files that a      *)
(* command has visited are as it leaves them.                                 *)
(*                                                                          *)
(* Texts come first: what a text is without its lines, its block, the newlines  *)
(* at its end, and what the operators of ClientFiles make of one.             *)
(***************************************************************************)

\* Texts: what is in a text, and where its block is.

Lines == {"line"} \X Nat
Marks == {"start", "body", "end"}
Unmarked(c) == \A i \in DOMAIN c : c[i][1] \notin Marks

\* The block of c begins at s; the writing of it may have been cut short.
BlockAt(c, s) ==
    /\ s \in DOMAIN c /\ c[s][1] = "start"
    /\ \A i \in DOMAIN c : /\ c[i][1] = "start" => i = s
                           /\ c[i][1] = "body" => i = s + 1
                           /\ c[i][1] = "end" => i = s + 2

WholeAt(c, s) ==
    BlockAt(c, s) /\ s + 2 \in DOMAIN c /\ c[s + 1][1] = "body" /\ c[s + 2][1] = "end"

TextOK(c) == c \in Seq(Token) /\ (Unmarked(c) \/ \E s \in Nat : BlockAt(c, s))
Whole(c) == c \in Seq(Token) /\ (Unmarked(c) \/ \E s \in Nat : WholeAt(c, s))

\* A block that has its end was written as a whole, if other lines may follow.
Sound(c) == TextOK(c) /\ (Whole(c) \/ Places(c, "end") = {})

\* The lines that are not behind a block without an end.
Intact(c) == Sift(IF Unended(c) THEN Before(c) ELSE c, Lines)

\* Its block is of version v.
Fresh(c, v) == \E s \in Nat : BlockAt(c, s) /\ s + 1 \in DOMAIN c /\ c[s + 1] = Body(v)

LEMMA Tokens ==
    /\ \A t \in Token : t \in Lines <=> t[1] = "line"
    /\ \A w \in {"line", "start", "body", "end", "nl", "sh", "scrap"} : Word(w) \in Token /\ Word(w)[1] = w
    /\ \A n \in Nat : Line(n) \in Token /\ Line(n)[1] = "line"
    /\ \A n \in Nat : Body(n) \in Token /\ Body(n)[1] = "body"
BY DEF Token, Lines, Word, Line, Body

LEMMA WholeIsSound == \A c : Whole(c) => TextOK(c) /\ Sound(c)
BY DEF Whole, TextOK, WholeAt, Sound

\* A text without lines says nothing.
LEMMA NothingSaid ==
    ASSUME NEW c \in Seq(Token), \A i \in DOMAIN c : c[i][1] # "line"
    PROVE  Sift(c, Lines) = <<>>
<1>1. \A i \in DOMAIN c : c[i] \in Token
  OBVIOUS
<1>2. \A i \in DOMAIN c : c[i] \notin Lines
  BY <1>1, Tokens
<1> QED BY <1>2, SiftNone

\* A short text.
LEMMA OneToken ==
    ASSUME NEW t \in Token
    PROVE  /\ <<t>> \in Seq(Token) /\ Len(<<t>>) = 1 /\ DOMAIN <<t>> = 1..1 /\ <<t>>[1] = t
           /\ t[1] # "line" => Sift(<<t>>, Lines) = <<>>
           /\ t[1] = "line" => Sift(<<t>>, Lines) = <<t>>
           /\ t[1] \notin Marks => Unmarked(<<t>>)
<1>1. PICK c : c = <<t>>
  BY ONLY TRUE
<1>2. c \in Seq(Token) /\ Len(c) = 1 /\ DOMAIN c = 1..1 /\ c[1] = t
  BY <1>1
<1>3. \A i \in DOMAIN c : c[i] = t
  BY <1>2
<1>4. t[1] # "line" => Sift(c, Lines) = <<>>
  BY <1>2, <1>3, NothingSaid
<1>5. t[1] = "line" => Sift(c, Lines) = c
  <2>1. t[1] = "line" => \A i \in DOMAIN c : c[i] \in Lines
    BY <1>3, Tokens
  <2> QED BY <1>2, <2>1, SiftAll
<1>6. t[1] \notin Marks => Unmarked(c)
  BY <1>3 DEF Unmarked
<1> QED BY <1>1, <1>2, <1>4, <1>5, <1>6

LEMMA NoText == <<>> \in Seq(Token) /\ Len(<<>>) = 0 /\ Unmarked(<<>>) /\ Sift(<<>>, Lines) = <<>>
<1>1. <<>> \in Seq(Token) /\ DOMAIN <<>> = {} /\ Len(<<>>) = 0
  OBVIOUS
<1> QED BY <1>1, NothingSaid DEF Unmarked

LEMMA BlockIs ==
    ASSUME NEW v \in Nat
    PROVE  /\ Block(v) \in Seq(Token) /\ Len(Block(v)) = 4
           /\ Block(v)[1][1] = "start" /\ Block(v)[2] = Body(v) /\ Block(v)[2][1] = "body"
           /\ Block(v)[3][1] = "end" /\ Block(v)[4][1] = "nl"
           /\ Sift(Block(v), Lines) = <<>>
<1>1. PICK a, b, c, d : a = Word("start") /\ b = Body(v) /\ c = Word("end") /\ d = Word("nl")
  BY ONLY TRUE
<1>2. /\ a \in Token /\ b \in Token /\ c \in Token /\ d \in Token
      /\ a[1] = "start" /\ b[1] = "body" /\ c[1] = "end" /\ d[1] = "nl"
  BY <1>1, Tokens
<1>3. PICK u : u = <<a, b, c, d>>
  BY ONLY TRUE
<1>4. /\ u \in Seq(Token) /\ Len(u) = 4 /\ DOMAIN u = 1..4
      /\ u[1] = a /\ u[2] = b /\ u[3] = c /\ u[4] = d
  BY <1>2, <1>3
<1>5. \A i \in DOMAIN u : u[i][1] # "line"
  BY <1>2, <1>4
<1>6. Sift(u, Lines) = <<>>
  BY <1>4, <1>5, NothingSaid
<1>7. Block(v) = u
  BY <1>1, <1>3 DEF Block
<1> QED BY <1>1, <1>2, <1>4, <1>6, <1>7

\* Parts of a list.
PartOf(x, c, n, m) == Len(x) = m - n /\ \A i \in 1..(m - n) : x[i] = c[n + i]

LEMMA Part ==
    ASSUME NEW E, NEW c \in Seq(E), NEW n \in Nat, NEW m \in n..Len(c)
    PROVE  SubSeq(c, n + 1, m) \in Seq(E) /\ PartOf(SubSeq(c, n + 1, m), c, n, m)
<1>1. Len(c) \in Nat /\ m \in Nat /\ n <= m /\ m <= Len(c)
  OBVIOUS
<1>2. PICK x : x = SubSeq(c, n + 1, m)
  BY ONLY TRUE
<1>3. x \in Seq(E) /\ Len(x) = m - n /\ \A i \in 1..(m - n) : x[i] = c[n + i]
  BY <1>1, <1>2
<1> QED BY <1>2, <1>3 DEF PartOf

\* Two lists of the same length and entries.
LEMMA SameList ==
    ASSUME NEW E, NEW s \in Seq(E), NEW t \in Seq(E), Len(s) = Len(t),
           \A k \in 1..Len(s) : s[k] = t[k]
    PROVE  s = t
OBVIOUS

\* A list is its first part with the rest behind it.
LEMMA PartsJoin ==
    ASSUME NEW E, NEW c \in Seq(E), NEW n \in 0..Len(c),
           NEW x \in Seq(E), PartOf(x, c, 0, n), NEW y \in Seq(E), PartOf(y, c, n, Len(c))
    PROVE  c = x \o y
<1>1. Len(c) \in Nat /\ n \in Nat /\ n <= Len(c)
  OBVIOUS
<1>2. /\ Len(x) = n /\ \A i \in 1..n : x[i] = c[i]
      /\ Len(y) = Len(c) - n /\ \A i \in 1..(Len(c) - n) : y[i] = c[n + i]
  BY <1>1 DEF PartOf
<1>3. PICK u : u = x \o y
  BY ONLY TRUE
<1>a. x \o y \in Seq(E) /\ Joins(x, y, x \o y)
  BY Joined
<1>4. /\ u \in Seq(E) /\ Len(u) = Len(x) + Len(y)
      /\ \A k \in 1..Len(x) : u[k] = x[k]
      /\ \A k \in 1..Len(y) : u[Len(x) + k] = y[k]
      /\ \A k \in 1..Len(u) : k \in 1..Len(x) \/ \E l \in 1..Len(y) : k = Len(x) + l
  BY <1>3, <1>a DEF Joins
<1>5. Len(u) = Len(c)
  BY <1>1, <1>2, <1>4
<1>6. ASSUME NEW k \in 1..Len(c) PROVE u[k] = c[k]
  <2>1. CASE k \in 1..n
    BY <1>2, <1>4, <2>1
  <2>2. ASSUME NEW l \in 1..(Len(c) - n), k = n + l PROVE u[k] = c[k]
    BY <1>2, <1>4, <2>2
  <2> QED BY <1>2, <1>4, <1>5, <2>1, <2>2
<1>7. u = c
  BY <1>4, <1>5, <1>6, SameList
<1> QED BY <1>3, <1>7

LEMMA MinIs ==
    ASSUME NEW T \in SUBSET Nat, T # {}
    PROVE  Min(T) \in T /\ \A y \in T : Min(T) <= y
BY LeastNat DEF Min

LEMMA TrimmedIs ==
    ASSUME NEW c \in Seq(Token)
    PROVE  /\ Trimmed(c) \in Seq(Token) /\ Len(Trimmed(c)) <= Len(c)
           /\ \A i \in DOMAIN Trimmed(c) : i \in DOMAIN c /\ Trimmed(c)[i] = c[i]
           /\ Sift(Trimmed(c), Lines) = Sift(c, Lines)
<1> DEFINE T == {k \in 0..Len(c) : \A i \in DOMAIN c : i > k => c[i][1] = "nl"}
<1>1. Len(c) \in Nat /\ DOMAIN c = 1..Len(c)
  OBVIOUS
<1>2. T \in SUBSET Nat /\ Len(c) \in T
  BY <1>1
<1>3. PICK n : n = Min(T)
  BY ONLY TRUE
<1>4. n \in 0..Len(c) /\ \A i \in DOMAIN c : i > n => c[i][1] = "nl"
  <2>1. n \in T
    BY <1>2, <1>3, MinIs
  <2> QED BY <2>1
<1>5. Trimmed(c) = SubSeq(c, 1, n)
  BY <1>3 DEF Trimmed
<1>6. PICK x, z : x = SubSeq(c, 0 + 1, n) /\ z = SubSeq(c, n + 1, Len(c))
  BY ONLY TRUE
<1>7. 0 \in Nat /\ n \in Nat /\ n \in 0..Len(c) /\ Len(c) \in n..Len(c)
  BY <1>1, <1>4
<1>8. x \in Seq(Token) /\ PartOf(x, c, 0, n) /\ z \in Seq(Token) /\ PartOf(z, c, n, Len(c))
  BY <1>6, <1>7, Part
<1>9. /\ Len(x) = n /\ \A i \in 1..n : x[i] = c[i]
      /\ Len(z) = Len(c) - n /\ \A i \in 1..(Len(c) - n) : z[i] = c[n + i]
  BY <1>4, <1>8 DEF PartOf
<1>10. ASSUME NEW i \in DOMAIN z PROVE z[i][1] # "line"
  <2>1. i \in 1..(Len(c) - n) /\ n + i \in DOMAIN c /\ n + i > n
    BY <1>1, <1>7, <1>8, <1>9
  <2> QED BY <1>4, <1>9, <2>1
<1>11. Sift(z, Lines) = <<>>
  BY <1>8, <1>10, NothingSaid
<1>12. c = x \o z
  BY <1>7, <1>8, PartsJoin
<1>13. Sift(c, Lines) = Sift(x, Lines) \o Sift(z, Lines)
  BY <1>8, <1>12, SiftConcat
<1>14. Sift(x, Lines) \in Seq(Token)
  BY <1>8, SiftProperties
<1>15. Sift(c, Lines) = Sift(x, Lines)
  BY <1>11, <1>13, <1>14
<1>16. /\ x \in Seq(Token) /\ Len(x) <= Len(c)
       /\ \A i \in DOMAIN x : i \in DOMAIN c /\ x[i] = c[i]
  BY <1>1, <1>4, <1>8, <1>9
<1>17. Trimmed(c) = x
  BY <1>5, <1>6
<1> QED BY <1>15, <1>16, <1>17

\* Two unmarked texts.
LEMMA UnmarkedJoin ==
    ASSUME NEW s \in Seq(Token), NEW t \in Seq(Token), Unmarked(s), Unmarked(t)
    PROVE  s \o t \in Seq(Token) /\ Unmarked(s \o t) /\ Len(s \o t) = Len(s) + Len(t)
<1>1. PICK u : u = s \o t
  BY ONLY TRUE
<1>2. u \in Seq(Token) /\ Joins(s, t, u)
  BY <1>1, Joined
<1>3. ASSUME NEW i \in DOMAIN u PROVE u[i][1] \notin Marks
  <2>1. i \in 1..Len(u) /\ DOMAIN s = 1..Len(s) /\ DOMAIN t = 1..Len(t)
    BY <1>2
  <2>2. CASE i \in 1..Len(s)
    BY <1>2, <2>1, <2>2 DEF Joins, Unmarked
  <2>3. ASSUME NEW l \in 1..Len(t), i = Len(s) + l PROVE u[i][1] \notin Marks
    BY <1>2, <2>1, <2>3 DEF Joins, Unmarked
  <2> QED BY <1>2, <2>1, <2>2, <2>3 DEF Joins
<1> QED BY <1>1, <1>2, <1>3 DEF Unmarked, Joins

\* What two texts one after the other say.
LEMMA SaysBoth ==
    ASSUME NEW s \in Seq(Token), NEW t \in Seq(Token)
    PROVE  Sift(s \o t, Lines) = Sift(s, Lines) \o Sift(t, Lines)
BY SiftConcat

\* A block between two texts that have none.
Frames(u, a, v, b) ==
    /\ u \in Seq(Token) /\ Len(u) = Len(a) + 4 + Len(b)
    /\ Len(a) + 1 \in Nat /\ WholeAt(u, Len(a) + 1) /\ u[Len(a) + 2] = Body(v)
    /\ Sift(u, Lines) = Sift(a, Lines) \o Sift(b, Lines)

LEMMA Framed ==
    ASSUME NEW a \in Seq(Token), NEW b \in Seq(Token), Unmarked(a), Unmarked(b), NEW v \in Nat
    PROVE  Frames((a \o Block(v)) \o b, a, v, b)
<1>0. PICK u : u = (a \o Block(v)) \o b
  BY ONLY TRUE
<1>1. PICK k : k = Block(v)
  BY ONLY TRUE
<1>2. /\ k \in Seq(Token) /\ Len(k) = 4
      /\ k[1][1] = "start" /\ k[2] = Body(v) /\ k[2][1] = "body"
      /\ k[3][1] = "end" /\ k[4][1] = "nl"
      /\ Sift(k, Lines) = <<>>
  BY <1>1, BlockIs
<1>3. PICK x : x = a \o k
  BY ONLY TRUE
<1>4. x \in Seq(Token) /\ Joins(a, k, x)
  BY <1>2, <1>3, Joined
<1>5. u = x \o b
  BY <1>0, <1>1, <1>3
<1>6. u \in Seq(Token) /\ Joins(x, b, u)
  BY <1>4, <1>5, Joined
<1>7. PICK n : n = Len(a)
  BY ONLY TRUE
<1>8. /\ n \in Nat /\ Len(b) \in Nat /\ Len(x) = n + 4 /\ Len(u) = n + 4 + Len(b)
      /\ \A i \in 1..n : x[i] = a[i]
      /\ \A i \in 1..4 : x[n + i] = k[i]
      /\ \A i \in 1..(n + 4) : u[i] = x[i]
      /\ \A i \in 1..Len(b) : u[n + 4 + i] = b[i]
      /\ \A i \in 1..Len(u) : i \in 1..(n + 4) \/ \E j \in 1..Len(b) : i = n + 4 + j
  BY <1>2, <1>4, <1>6, <1>7 DEF Joins
<1>9. \A i \in 1..4 : u[n + i] = k[i]
  <2> TAKE i \in 1..4
  <2>1. n + i \in 1..(n + 4)
    BY <1>8
  <2> QED BY <1>8, <2>1
<1>10. /\ u[n + 1] = k[1] /\ u[n + 2] = k[2] /\ u[n + 3] = k[3] /\ u[n + 4] = k[4]
  <2>1. 1 \in 1..4 /\ 2 \in 1..4 /\ 3 \in 1..4 /\ 4 \in 1..4
    OBVIOUS
  <2> QED BY <1>9, <2>1
<1>11. ASSUME NEW i \in DOMAIN u, i \notin {n + 1, n + 2, n + 3}
       PROVE  u[i][1] \notin Marks
  <2>1. i \in 1..Len(u) /\ DOMAIN a = 1..n /\ DOMAIN b = 1..Len(b)
    BY <1>6, <1>7
  <2>2. CASE i \in 1..n
    BY <1>8, <2>1, <2>2 DEF Unmarked
  <2>3. CASE i = n + 4
    BY <1>2, <1>10, <2>3 DEF Marks
  <2>4. ASSUME NEW j \in 1..Len(b), i = n + 4 + j PROVE u[i][1] \notin Marks
    BY <1>8, <2>1, <2>4 DEF Unmarked
  <2>5. i \in 1..(n + 4) => i \in 1..n \/ i = n + 4
    BY <1>8, <1>11
  <2> QED BY <1>8, <2>1, <2>2, <2>3, <2>4, <2>5
<1>12. n + 1 \in DOMAIN u /\ n + 2 \in DOMAIN u /\ n + 3 \in DOMAIN u
  BY <1>6, <1>8
<1>13. ASSUME NEW i \in DOMAIN u
       PROVE  /\ u[i][1] = "start" => i = n + 1
              /\ u[i][1] = "body" => i = n + 2
              /\ u[i][1] = "end" => i = n + 3
  <2>1. CASE i \in {n + 1, n + 2, n + 3}
    BY <1>2, <1>10, <2>1
  <2>2. CASE i \notin {n + 1, n + 2, n + 3}
    BY <1>11, <2>2 DEF Marks
  <2> QED BY <2>1, <2>2
<1>14. n + 1 \in Nat /\ (n + 1) + 1 = n + 2 /\ (n + 1) + 2 = n + 3
  BY <1>8
<1>15. WholeAt(u, n + 1)
  <2>1. BlockAt(u, n + 1)
    <3>1. u[n + 1][1] = "start"
      BY <1>2, <1>10
    <3> QED BY <1>12, <1>13, <1>14, <3>1 DEF BlockAt
  <2>2. u[(n + 1) + 1][1] = "body" /\ u[(n + 1) + 2][1] = "end" /\ (n + 1) + 2 \in DOMAIN u
    BY <1>2, <1>10, <1>12, <1>14
  <2> QED BY <2>1, <2>2 DEF WholeAt
<1>16. Sift(x, Lines) = Sift(a, Lines) \o Sift(k, Lines)
  <2>0. k \in Seq(Token)
    BY <1>2
  <2>1. Sift(a \o k, Lines) = Sift(a, Lines) \o Sift(k, Lines)
    BY <2>0, SaysBoth
  <2> QED BY <1>3, <2>1
<1>17. Sift(u, Lines) = Sift(x, Lines) \o Sift(b, Lines)
  <2>1. Sift(x \o b, Lines) = Sift(x, Lines) \o Sift(b, Lines)
    BY <1>4, SaysBoth
  <2> QED BY <1>5, <2>1
<1>18. Sift(a, Lines) \in Seq(Token)
  BY SiftProperties
<1>19. Sift(x, Lines) = Sift(a, Lines)
  BY <1>2, <1>16, <1>18
<1>20. Frames(u, a, v, b)
  BY <1>2, <1>6, <1>7, <1>8, <1>10, <1>14, <1>15, <1>17, <1>19 DEF Frames
<1> QED BY <1>0, <1>20

\* A text in three parts.
InThree(c, n, m) ==
    \E x, y, z \in Seq(Token) :
       /\ x = SubSeq(c, 0 + 1, n) /\ z = SubSeq(c, m + 1, Len(c))
       /\ PartOf(x, c, 0, n) /\ PartOf(y, c, n, m) /\ PartOf(z, c, m, Len(c))
       /\ c = (x \o y) \o z

LEMMA ThreeParts ==
    ASSUME NEW c \in Seq(Token), NEW n \in Nat, NEW m \in n..Len(c)
    PROVE  InThree(c, n, m)
<1>1. Len(c) \in Nat /\ m \in Nat /\ n <= m /\ m <= Len(c)
  OBVIOUS
<1>2. PICK x, y, z, w : /\ x = SubSeq(c, 0 + 1, n) /\ y = SubSeq(c, n + 1, m)
                        /\ z = SubSeq(c, m + 1, Len(c)) /\ w = SubSeq(c, 0 + 1, m)
  BY ONLY TRUE
<1>3. 0 \in Nat /\ n \in 0..Len(c) /\ m \in 0..Len(c) /\ Len(c) \in m..Len(c)
  BY <1>1
<1>4. /\ x \in Seq(Token) /\ PartOf(x, c, 0, n)
      /\ y \in Seq(Token) /\ PartOf(y, c, n, m)
      /\ z \in Seq(Token) /\ PartOf(z, c, m, Len(c))
      /\ w \in Seq(Token) /\ PartOf(w, c, 0, m)
  BY <1>1, <1>2, <1>3, Part
<1>5. Len(w) = m /\ \A i \in 1..m : w[i] = c[i]
  BY <1>1, <1>4 DEF PartOf
<1>6. PartOf(x, w, 0, n)
  <2>1. Len(x) = n - 0 /\ \A i \in 1..(n - 0) : x[i] = c[0 + i]
    BY <1>4 DEF PartOf
  <2>2. \A i \in 1..(n - 0) : 0 + i \in 1..m
    BY <1>1
  <2> QED BY <1>5, <2>1, <2>2 DEF PartOf
<1>7. PartOf(y, w, n, Len(w))
  <2>1. Len(y) = m - n /\ \A i \in 1..(m - n) : y[i] = c[n + i]
    BY <1>4 DEF PartOf
  <2>2. \A i \in 1..(m - n) : n + i \in 1..m
    BY <1>1
  <2> QED BY <1>5, <2>1, <2>2 DEF PartOf
<1>8. n \in 0..Len(w)
  BY <1>1, <1>5
<1>9. w = x \o y
  BY <1>4, <1>6, <1>7, <1>8, PartsJoin
<1>10. c = w \o z
  BY <1>3, <1>4, PartsJoin
<1> QED BY <1>2, <1>4, <1>9, <1>10 DEF InThree

\* Where the block is, and what is around it.
LEMMA BlockEnds ==
    ASSUME NEW f, NEW c \in Seq(Token), NEW s \in Nat, BlockAt(c, s)
    PROVE  /\ HasBlock(c) /\ BlockStart(c) = s
           /\ BlockEnd(f, c) \in s..Len(c)
           /\ BlockEnd(f, c) = Len(c) \/ BlockEnd(f, c) >= s + 2
           /\ WholeAt(c, s) =>
                \/ BlockEnd(f, c) = s + 2
                \/ BlockEnd(f, c) = s + 3 /\ c[s + 3][1] = "nl"
<1>1. Len(c) \in Nat /\ DOMAIN c = 1..Len(c)
  OBVIOUS
<1>2. /\ s \in DOMAIN c /\ c[s][1] = "start"
      /\ \A i \in DOMAIN c : c[i][1] = "start" => i = s
      /\ \A i \in DOMAIN c : c[i][1] = "end" => i = s + 2
  BY DEF BlockAt
<1>3. Places(c, "start") = {s}
  BY <1>2 DEF Places
<1>4. Places(c, "end") = {} \/ (Places(c, "end") = {s + 2} /\ s + 2 \in DOMAIN c)
  BY <1>2 DEF Places
<1>5. \A n \in Nat : Min({n}) = n
  <2> TAKE n \in Nat
  <2>1. {n} \in SUBSET Nat /\ {n} # {}
    OBVIOUS
  <2>2. Min({n}) \in {n}
    BY <2>1, MinIs
  <2> QED BY <2>2
<1>6. HasBlock(c) /\ BlockStart(c) = s
  BY <1>3, <1>5 DEF HasBlock, BlockStart
<1>7. CASE Places(c, "end") = {}
  <2>1. BlockEnd(f, c) = Len(c)
    BY <1>7 DEF BlockEnd
  <2>2. ~WholeAt(c, s)
    BY <1>7 DEF WholeAt, Places
  <2>3. s \in 1..Len(c)
    BY <1>1, <1>2
  <2>4. Len(c) \in s..Len(c)
    BY <1>1, <2>3
  <2> QED BY <1>6, <2>1, <2>2, <2>4
<1>8. CASE Places(c, "end") = {s + 2} /\ s + 2 \in DOMAIN c
  <2>0. s + 2 \in Nat /\ (s + 2) + 1 = s + 3
    OBVIOUS
  <2>1. Min({s + 2}) = s + 2
    BY <1>5, <2>0
  <2>2. \/ BlockEnd(f, c) = s + 2
        \/ BlockEnd(f, c) = s + 3 /\ s + 3 \in Places(c, "nl")
    <3>1. Places(c, "end") # {} /\ Min(Places(c, "end")) = s + 2 /\ (s + 2) + 1 = s + 3
      BY <1>8, <2>0, <2>1
    <3>2. PICK e : e = Min(Places(c, "end"))
      BY ONLY TRUE
    <3>3. BlockEnd(f, c) = IF Kind[f] = "hook" /\ e + 1 \in Places(c, "nl") THEN e + 1 ELSE e
      BY <3>1, <3>2 DEF BlockEnd
    <3>4. e = s + 2 /\ e + 1 = s + 3
      BY <3>1, <3>2
    <3> QED BY <3>3, <3>4
  <2>3. s + 3 \in Places(c, "nl") => s + 3 \in DOMAIN c /\ c[s + 3][1] = "nl"
    BY DEF Places
  <2> QED BY <1>1, <1>2, <1>6, <1>8, <2>2, <2>3
<1> QED BY <1>4, <1>7, <1>8

LEMMA Beyond ==
    ASSUME NEW n \in Nat, NEW m \in Nat, NEW s \in Nat, m <= n, m = n \/ m >= s,
           NEW i \in 1..(n - m)
    PROVE  m + i \in 1..n /\ m + i > s
OBVIOUS

LEMMA AroundBlock ==
    ASSUME NEW f, NEW c \in Seq(Token), NEW s \in Nat, BlockAt(c, s)
    PROVE  /\ HasBlock(c)
           /\ Before(c) \in Seq(Token) /\ Unmarked(Before(c))
           /\ After(f, c) \in Seq(Token) /\ Unmarked(After(f, c))
           /\ Len(Before(c)) + Len(After(f, c)) + 1 <= Len(c)
           /\ WholeAt(c, s) => Sift(c, Lines) = Sift(Before(c), Lines) \o Sift(After(f, c), Lines)
           /\ Places(c, "end") = {} => Sift(After(f, c), Lines) = <<>>
<1>1. Len(c) \in Nat /\ DOMAIN c = 1..Len(c)
  OBVIOUS
<1>2. PICK m : m = BlockEnd(f, c)
  BY ONLY TRUE
<1>3. /\ HasBlock(c) /\ BlockStart(c) = s /\ m \in s..Len(c) /\ (m = Len(c) \/ m >= s + 2)
      /\ WholeAt(c, s) => m = s + 2 \/ (m = s + 3 /\ c[s + 3][1] = "nl")
  BY <1>2, BlockEnds
<1>4. PICK n : n = s - 1
  BY ONLY TRUE
<1>a. s \in 1..Len(c)
  BY <1>1 DEF BlockAt
<1>5. n \in Nat /\ m \in n..Len(c) /\ m \in Nat /\ n + 1 = s /\ s <= m /\ m <= Len(c)
  <2>1. m \in s..Len(c)
    BY <1>3
  <2> QED BY <1>1, <1>4, <1>a, <2>1
<1>b. m = Len(c) \/ m >= s + 2
  BY <1>3
<1>6. PICK x, y, z \in Seq(Token) :
         /\ x = SubSeq(c, 0 + 1, n) /\ z = SubSeq(c, m + 1, Len(c))
         /\ PartOf(x, c, 0, n) /\ PartOf(y, c, n, m) /\ PartOf(z, c, m, Len(c))
         /\ c = (x \o y) \o z
  <2>1. c \in Seq(Token) /\ n \in Nat /\ m \in n..Len(c)
    BY <1>5
  <2>2. InThree(c, n, m)
    BY <2>1, ThreeParts
  <2> QED BY <2>2 DEF InThree
<1>7. /\ Len(x) = n /\ \A i \in 1..n : x[i] = c[i]
      /\ Len(y) = m - n /\ \A i \in 1..(m - n) : y[i] = c[n + i]
      /\ Len(z) = Len(c) - m /\ \A i \in 1..(Len(c) - m) : z[i] = c[m + i]
  <2>1. n - 0 = n /\ \A i \in 1..n : 0 + i = i
    BY <1>5
  <2>2. PartOf(x, c, 0, n) /\ PartOf(y, c, n, m) /\ PartOf(z, c, m, Len(c))
    BY <1>6
  <2>3. Len(x) = n /\ \A i \in 1..n : x[i] = c[i]
    BY <2>1, <2>2 DEF PartOf
  <2> QED BY <2>2, <2>3 DEF PartOf
<1>8. DOMAIN x = 1..n /\ DOMAIN y = 1..(m - n) /\ DOMAIN z = 1..(Len(c) - m)
  BY <1>6, <1>7
<1>9. Before(c) = x /\ After(f, c) = z
  BY <1>2, <1>3, <1>4, <1>6 DEF Before, After
<1>10. \A i \in DOMAIN c : /\ c[i][1] = "start" => i = s
                           /\ c[i][1] = "body" => i = s + 1
                           /\ c[i][1] = "end" => i = s + 2
  BY DEF BlockAt
<1>11. Unmarked(x)
  <2>1. ASSUME NEW i \in 1..n PROVE x[i][1] \notin Marks
    <3>1. i \in DOMAIN c /\ i < s
      BY <1>1, <1>5
    <3> QED BY <1>7, <1>10, <3>1 DEF Marks
  <2> QED BY <1>8, <2>1 DEF Unmarked
<1>12. Unmarked(z)
  <2>1. ASSUME NEW i \in 1..(Len(c) - m) PROVE z[i][1] \notin Marks
    <3>1. m + i \in DOMAIN c /\ m + i > s + 2
      <4>1. s + 2 \in Nat
        OBVIOUS
      <4> QED BY <1>1, <1>5, <1>b, <4>1, Beyond
    <3> QED BY <1>7, <1>10, <3>1 DEF Marks
  <2> QED BY <1>8, <2>1 DEF Unmarked
<1>13. ASSUME WholeAt(c, s) PROVE Sift(c, Lines) = Sift(x, Lines) \o Sift(z, Lines)
  <2>1. ASSUME NEW i \in DOMAIN y PROVE y[i][1] # "line"
    <3>1. i \in 1..(m - n) /\ y[i] = c[n + i]
      BY <1>7, <1>8
    <3>2. n + i \in s..m
      BY <1>5, <3>1
    <3>3. /\ m = s + 2 \/ (m = s + 3 /\ c[s + 3][1] = "nl")
          /\ c[s][1] = "start" /\ c[s + 1][1] = "body" /\ c[s + 2][1] = "end"
      BY <1>3, <1>13 DEF WholeAt, BlockAt
    <3>4. CASE m = s + 2
      <4>1. n + i = s \/ n + i = s + 1 \/ n + i = s + 2
        BY <3>2, <3>4
      <4> QED BY <3>1, <3>3, <4>1
    <3>5. CASE m = s + 3 /\ c[s + 3][1] = "nl"
      <4>1. n + i = s \/ n + i = s + 1 \/ n + i = s + 2 \/ n + i = s + 3
        BY <3>2, <3>5
      <4> QED BY <3>1, <3>3, <3>5, <4>1
    <3> QED BY <3>3, <3>4, <3>5
  <2>2. y \in Seq(Token) /\ x \in Seq(Token) /\ z \in Seq(Token)
    BY <1>6
  <2>3. Sift(y, Lines) = <<>>
    BY <2>1, <2>2, NothingSaid
  <2>4. PICK w : w = x \o y
    BY ONLY TRUE
  <2>5. w \in Seq(Token) /\ c = w \o z
    BY <1>6, <2>2, <2>4, Joined
  <2>6. Sift(w, Lines) = Sift(x, Lines) \o Sift(y, Lines)
    BY <2>2, <2>4, SaysBoth
  <2>7. Sift(c, Lines) = Sift(w, Lines) \o Sift(z, Lines)
    BY <2>2, <2>5, SaysBoth
  <2>8. Sift(x, Lines) \in Seq(Token)
    BY <2>2, SiftProperties
  <2>9. Sift(w, Lines) = Sift(x, Lines)
    BY <2>3, <2>6, <2>8
  <2> QED BY <2>7, <2>9
<1>14. Len(x) + Len(z) + 1 <= Len(c)
  BY <1>1, <1>5, <1>7
<1>15. ASSUME Places(c, "end") = {} PROVE Sift(z, Lines) = <<>>
  <2>1. m = Len(c)
    BY <1>2, <1>15 DEF BlockEnd
  <2>2. DOMAIN z = {}
    BY <1>1, <1>8, <2>1
  <2> QED BY <1>6, <2>2, NothingSaid
<1> QED BY <1>3, <1>6, <1>9, <1>11, <1>12, <1>13, <1>14, <1>15

\* A blank text says nothing.
LEMMA BlankSays ==
    ASSUME NEW c \in Seq(Token), IsBlank(c)
    PROVE  Sift(c, Lines) = <<>>
<1>1. \A i \in DOMAIN c : c[i][1] # "line"
  BY DEF IsBlank, Places
<1> QED BY <1>1, NothingSaid

\* A short text that says nothing and has no block.
Short(u, n) == u \in Seq(Token) /\ Unmarked(u) /\ Len(u) <= n /\ Sift(u, Lines) = <<>>

LEMMA Shorts ==
    /\ Short(<<>>, 0) /\ Short(<<Word("sh")>>, 1) /\ Short(<<Word("nl")>>, 1)
    /\ Short(<<Word("nl"), Word("nl")>>, 2)
<1>1. PICK a : a = Word("nl")
  BY ONLY TRUE
<1>2. a \in Token /\ a[1] = "nl"
  BY <1>1, Tokens
<1>3. PICK u : u = <<a, a>>
  BY ONLY TRUE
<1>4. u \in Seq(Token) /\ Len(u) = 2 /\ DOMAIN u = 1..2 /\ u[1] = a /\ u[2] = a
  BY <1>2, <1>3
<1>5. \A i \in DOMAIN u : u[i] = a
  BY <1>4
<1>6. \A i \in DOMAIN u : u[i][1] = "nl"
  BY <1>2, <1>5
<1>7. Sift(u, Lines) = <<>>
  BY <1>4, <1>6, NothingSaid
<1>8. Unmarked(u)
  BY <1>6 DEF Unmarked, Marks
<1>9. Short(u, 2)
  BY <1>4, <1>7, <1>8 DEF Short
<1>10. ASSUME NEW t \in Token, t[1] \in {"sh", "nl"} PROVE Short(<<t>>, 1)
  <2>1. PICK w : w = <<t>>
    BY ONLY TRUE
  <2>2. w \in Seq(Token) /\ Len(w) = 1 /\ Unmarked(w) /\ Sift(w, Lines) = <<>>
    BY <1>10, <2>1, OneToken DEF Marks
  <2> QED BY <2>1, <2>2 DEF Short
<1>11. Word("sh") \in Token /\ Word("sh")[1] \in {"sh", "nl"}
  BY Tokens
<1>12. Word("nl") \in Token /\ Word("nl")[1] \in {"sh", "nl"}
  BY Tokens
<1>13. Short(<<Word("sh")>>, 1) /\ Short(<<Word("nl")>>, 1)
  BY <1>10, <1>11, <1>12
<1>14. Short(<<>>, 0)
  BY NoText DEF Short
<1> QED BY <1>1, <1>3, <1>9, <1>13, <1>14

\* What comes before a new block.
LEMMA OpeningIs ==
    ASSUME NEW f, NEW c \in Seq(Token), Unmarked(c)
    PROVE  /\ Opening(f, c) \in Seq(Token) /\ Unmarked(Opening(f, c))
           /\ Len(Opening(f, c)) <= 2 \/ Len(Opening(f, c)) <= Len(c) + 1
           /\ Sift(Opening(f, c), Lines) = Sift(c, Lines)
<1>1. Len(c) \in Nat
  OBVIOUS
<1>4. CASE ~IsBlank(c)
  <2>1. PICK x, y : x = Trimmed(c) /\ y = <<Word("nl")>>
    BY ONLY TRUE
  <2>2. /\ x \in Seq(Token) /\ Len(x) <= Len(c) /\ Sift(x, Lines) = Sift(c, Lines)
        /\ \A i \in DOMAIN x : i \in DOMAIN c /\ x[i] = c[i]
    BY <2>1, TrimmedIs
  <2>3. Unmarked(x)
    BY <2>2 DEF Unmarked
  <2>a. Short(y, 1)
    BY <2>1, Shorts
  <2>4. y \in Seq(Token) /\ Len(y) <= 1 /\ Unmarked(y) /\ Sift(y, Lines) = <<>> /\ Len(y) \in Nat
    BY <2>a DEF Short
  <2>5. x \o y \in Seq(Token) /\ Unmarked(x \o y) /\ Len(x \o y) = Len(x) + Len(y)
    BY <2>2, <2>3, <2>4, UnmarkedJoin
  <2>6. Sift(x \o y, Lines) = Sift(x, Lines) \o Sift(y, Lines)
    BY <2>2, <2>4, SaysBoth
  <2>7. Sift(x, Lines) \in Seq(Token) /\ Len(x) \in Nat
    BY <2>2, SiftProperties
  <2>8. Sift(x \o y, Lines) = Sift(c, Lines)
    BY <2>2, <2>4, <2>6, <2>7
  <2>9. Opening(f, c) = x \o y
    BY <1>4, <2>1, Zenon DEF Opening
  <2>10. Len(x \o y) <= Len(c) + 1
    BY <1>1, <2>2, <2>4, <2>5, <2>7
  <2> QED BY <2>5, <2>8, <2>9, <2>10
<1>5. CASE IsBlank(c)
  <2>1. PICK u : u = Opening(f, c)
    BY ONLY TRUE
  <2>2. u = <<Word("sh")>> \/ u = <<>> \/ u = <<Word("nl"), Word("nl")>>
    BY <1>5, <2>1, Zenon DEF Opening
  <2>3. Short(u, 0) \/ Short(u, 1) \/ Short(u, 2)
    BY <2>2, Shorts, Zenon
  <2>4. u \in Seq(Token) /\ Unmarked(u) /\ Len(u) <= 2 /\ Sift(u, Lines) = <<>>
    BY <2>3 DEF Short
  <2>5. Sift(c, Lines) = <<>>
    BY <1>5, BlankSays
  <2> QED BY <2>1, <2>4, <2>5
<1> QED BY <1>4, <1>5

\* What a file says, or the first line of a new hook.
LEMMA ExistingIs ==
    ASSUME NEW f, NEW c, TextOK(Said(c))
    PROVE  /\ TextOK(Existing(f, c))
           /\ Whole(Said(c)) => Whole(Existing(f, c))
           /\ Sift(Existing(f, c), Lines) = Sift(Said(c), Lines)
           /\ Len(Said(c)) \in Nat
           /\ Existing(f, c) = Said(c) \/ (Len(Existing(f, c)) <= 1 /\ Unmarked(Existing(f, c)))
           /\ Unmarked(Existing(f, c)) => Unmarked(Said(c))
<1>0. Said(c) \in Seq(Token)
  BY DEF TextOK
<1>1. Len(Said(c)) \in Nat
  BY <1>0
<1>2. CASE c # Nothing
  BY <1>1, <1>2 DEF Existing, Said
<1>3. CASE c = Nothing
  <2>1. PICK u, w : u = Existing(f, c) /\ w = Said(c)
    BY ONLY TRUE
  <2>2. w = <<>> /\ (u = <<Word("sh")>> \/ u = <<>>)
    BY <1>3, <2>1, Zenon DEF Existing, Said
  <2>3. Short(w, 0) /\ (Short(u, 0) \/ Short(u, 1))
    BY <2>2, Shorts, Zenon
  <2>4. /\ u \in Seq(Token) /\ Unmarked(u) /\ Len(u) <= 1 /\ Sift(u, Lines) = <<>>
        /\ Sift(w, Lines) = <<>> /\ Unmarked(w)
    BY <2>3 DEF Short
  <2> QED BY <1>1, <2>1, <2>4 DEF TextOK, Whole
<1> QED BY <1>2, <1>3

\* A text with no start marker has no block.
LEMMA NoBlock == \A c : TextOK(c) => (HasBlock(c) <=> ~Unmarked(c))
<1> SUFFICES ASSUME NEW c, TextOK(c) PROVE HasBlock(c) <=> ~Unmarked(c)
  OBVIOUS
<1>1. Unmarked(c) => ~HasBlock(c)
  BY DEF Unmarked, HasBlock, Places, Marks
<1>2. ASSUME NEW s \in Nat, BlockAt(c, s) PROVE HasBlock(c)
  BY <1>2 DEF BlockAt, HasBlock, Places
<1> QED BY <1>1, <1>2 DEF TextOK

\* The lines around the block are the intact ones.
LEMMA AroundIs ==
    ASSUME NEW f, NEW c, Sound(c), HasBlock(c)
    PROVE  /\ Before(c) \in Seq(Token) /\ Unmarked(Before(c))
           /\ After(f, c) \in Seq(Token) /\ Unmarked(After(f, c))
           /\ Len(Before(c)) + Len(After(f, c)) + 1 <= Len(c)
           /\ Sift(Before(c), Lines) \o Sift(After(f, c), Lines) = Intact(c)
<1>1. TextOK(c) /\ c \in Seq(Token) /\ ~Unmarked(c)
  BY NoBlock DEF Sound, TextOK
<1>2. PICK s \in Nat : BlockAt(c, s) /\ (Whole(c) => WholeAt(c, s))
  <2>1. CASE Whole(c)
    BY <1>1, <2>1 DEF Whole, WholeAt
  <2>2. CASE ~Whole(c)
    BY <1>1, <2>2 DEF TextOK
  <2> QED BY <2>1, <2>2
<1>3. PICK a, b : a = Before(c) /\ b = After(f, c)
  BY ONLY TRUE
<1>4. /\ a \in Seq(Token) /\ Unmarked(a) /\ b \in Seq(Token) /\ Unmarked(b)
      /\ Len(a) + Len(b) + 1 <= Len(c)
      /\ WholeAt(c, s) => Sift(c, Lines) = Sift(a, Lines) \o Sift(b, Lines)
      /\ Places(c, "end") = {} => Sift(b, Lines) = <<>>
  BY <1>1, <1>2, <1>3, AroundBlock
<1>5. Sift(a, Lines) \o Sift(b, Lines) = Intact(c)
  <2>1. CASE Places(c, "end") = {}
    <3>1. Intact(c) = Sift(a, Lines)
      BY <1>3, <2>1 DEF Intact, Unended
    <3>2. Sift(a, Lines) \in Seq(Token)
      BY <1>4, SiftProperties
    <3> QED BY <1>4, <2>1, <3>1, <3>2
  <2>2. CASE Places(c, "end") # {}
    BY <1>2, <1>4, <2>2 DEF Intact, Unended, Sound
  <2> QED BY <2>1, <2>2
<1> QED BY <1>3, <1>4, <1>5

\* What an install makes of a text: one block, of its version, and the lines as they were.
WithBlockOK(c, u, v) ==
    /\ Whole(u) /\ Fresh(u, v) /\ Len(u) <= Len(Said(c)) + 6
    /\ Sift(u, Lines) = Intact(Said(c))

LEMMA WithBlockIs ==
    ASSUME NEW f, NEW c, Sound(Said(c)), NEW v \in Nat
    PROVE  WithBlockOK(c, WithBlock(f, c, v), v)
<1>1. PICK old : old = Existing(f, c)
  BY ONLY TRUE
<1>2. /\ TextOK(old)
      /\ Sift(old, Lines) = Sift(Said(c), Lines) /\ Len(Said(c)) \in Nat
      /\ old = Said(c) \/ (Len(old) <= 1 /\ Unmarked(old))
      /\ Unmarked(old) => Unmarked(Said(c))
  BY <1>1, ExistingIs DEF Sound
<1>3. old \in Seq(Token) /\ Len(old) \in Nat
  BY <1>2 DEF TextOK
<1>4. ASSUME NEW a \in Seq(Token), NEW b \in Seq(Token), Unmarked(a), Unmarked(b),
             Len(a) + Len(b) <= Len(Said(c)) + 2,
             Sift(a, Lines) \o Sift(b, Lines) = Intact(Said(c))
      PROVE  WithBlockOK(c, (a \o Block(v)) \o b, v)
  <2>1. PICK u : u = (a \o Block(v)) \o b
    BY ONLY TRUE
  <2>2. /\ u \in Seq(Token) /\ Len(u) = Len(a) + 4 + Len(b)
        /\ Len(a) + 1 \in Nat /\ WholeAt(u, Len(a) + 1) /\ u[Len(a) + 2] = Body(v)
        /\ Sift(u, Lines) = Sift(a, Lines) \o Sift(b, Lines)
    <3>1. Unmarked(a) /\ Unmarked(b)
      BY <1>4
    <3>2. Frames(u, a, v, b)
      BY <2>1, <3>1, Framed
    <3> QED BY <3>2 DEF Frames
  <2>3. Len(a) \in Nat /\ Len(b) \in Nat /\ (Len(a) + 1) + 1 = Len(a) + 2
    OBVIOUS
  <2>4. Len(u) <= Len(Said(c)) + 6
    BY <1>2, <1>4, <2>2, <2>3
  <2>5. Whole(u)
    BY <2>2 DEF Whole
  <2>6. Fresh(u, v)
    <3>1. PICK s : s = Len(a) + 1
      BY ONLY TRUE
    <3>2. s \in Nat /\ WholeAt(u, s) /\ u[s + 1] = Body(v)
      BY <2>2, <2>3, <3>1
    <3>3. BlockAt(u, s) /\ s + 1 \in DOMAIN u
      <4>1. BlockAt(u, s) /\ s + 2 \in DOMAIN u
        BY <3>2 DEF WholeAt
      <4>2. DOMAIN u = 1..Len(u) /\ Len(u) \in Nat
        BY <2>2
      <4> QED BY <3>2, <4>1, <4>2
    <3> QED BY <3>2, <3>3 DEF Fresh
  <2> QED BY <1>2, <1>4, <2>1, <2>2, <2>4, <2>5, <2>6 DEF WithBlockOK
<1>5. CASE HasBlock(old)
  <2>1. old = Said(c)
    BY <1>2, <1>5, NoBlock
  <2>2. PICK a, b : a = Before(old) /\ b = After(f, old)
    BY ONLY TRUE
  <2>3. /\ a \in Seq(Token) /\ Unmarked(a) /\ b \in Seq(Token) /\ Unmarked(b)
        /\ Len(a) + Len(b) + 1 <= Len(old)
        /\ Sift(a, Lines) \o Sift(b, Lines) = Intact(old)
    BY <1>5, <2>1, <2>2, AroundIs
  <2>4. Len(a) + Len(b) <= Len(Said(c)) + 2
    <3>1. Len(a) \in Nat /\ Len(b) \in Nat
      BY <2>3
    <3> QED BY <1>3, <2>1, <2>3, <3>1
  <2>5. WithBlockOK(c, (a \o Block(v)) \o b, v)
    BY <1>4, <2>1, <2>3, <2>4
  <2> QED BY <1>1, <1>5, <2>2, <2>5 DEF WithBlock
<1>6. CASE ~HasBlock(old)
  <2>1. Unmarked(old)
    BY <1>2, <1>6, NoBlock
  <2>2. PICK a, b : a = Opening(f, old) /\ b = <<>>
    BY ONLY TRUE
  <2>3. /\ a \in Seq(Token) /\ Unmarked(a) /\ Sift(a, Lines) = Sift(old, Lines)
        /\ Len(a) <= 2 \/ Len(a) <= Len(old) + 1
    BY <1>3, <2>1, <2>2, OpeningIs
  <2>4. b \in Seq(Token) /\ Unmarked(b) /\ Len(b) = 0 /\ Sift(b, Lines) = <<>>
    BY <2>2, NoText
  <2>5. Sift(a, Lines) \o Sift(b, Lines) = Intact(Said(c))
    <3>1. Sift(a, Lines) \in Seq(Token)
      BY <2>3, SiftProperties
    <3>2. ~HasBlock(Said(c))
      BY <1>2, <2>1, NoBlock DEF Sound
    <3>3. Intact(Said(c)) = Sift(Said(c), Lines)
      BY <3>2 DEF Intact, Unended
    <3> QED BY <1>2, <2>3, <2>4, <3>1, <3>3
  <2>6. Len(a) + Len(b) <= Len(Said(c)) + 2
    <3>1. Len(a) \in Nat
      BY <2>3
    <3> QED BY <1>2, <1>3, <2>3, <2>4, <3>1
  <2>7. WithBlockOK(c, (a \o Block(v)) \o b, v)
    BY <1>4, <2>3, <2>4, <2>5, <2>6
  <2>8. (a \o Block(v)) \o b = a \o Block(v)
    <3>1. PICK k, w : k = Block(v) /\ w = a \o k
      BY ONLY TRUE
    <3>2. w \in Seq(Token)
      BY <2>3, <3>1, BlockIs
    <3>3. w \o b = w
      BY <2>2, <3>2
    <3> QED BY <3>1, <3>3
  <2>9. WithBlock(f, c, v) = a \o Block(v)
    BY <1>1, <1>6, <2>2, Zenon DEF WithBlock
  <2> QED BY <2>7, <2>8, <2>9
<1> QED BY <1>5, <1>6

\* What an uninstall makes of a text: no block, and the lines as they were.
WithoutBlockOK(c, u) ==
    /\ u = Nothing \/ (u \in Seq(Token) /\ Unmarked(u))
    /\ Len(Said(u)) <= Len(Said(c))
    /\ Sift(Said(u), Lines) = Intact(Said(c))

LEMMA WithoutBlockIs ==
    ASSUME NEW f, NEW c, Sound(Said(c))
    PROVE  WithoutBlockOK(c, WithoutBlock(f, c))
<1>1. Said(Nothing) = <<>> /\ Len(<<>>) = 0
  BY NoText DEF Said
<1>2. \A u \in Seq(Token) : Said(u) = u /\ Len(u) \in Nat
  BY ClientFilesAssumption DEF Said
<1>a. \A u : TextOK(u) /\ ~HasBlock(u) => Intact(u) = Sift(u, Lines)
  BY DEF Intact, Unended
<1>3. CASE c = Nothing
  <2>1. PICK w : w = Said(c)
    BY ONLY TRUE
  <2>2. w = <<>> /\ w \in Seq(Token) /\ Unmarked(w) /\ Len(w) \in Nat
    BY <1>1, <1>3, <2>1, NoText
  <2>3. Intact(w) = Sift(w, Lines)
    BY <1>a, <2>2, NoBlock DEF TextOK
  <2>4. WithoutBlock(f, c) = Nothing
    BY <1>3 DEF WithoutBlock
  <2>5. Said(WithoutBlock(f, c)) = w
    BY <1>3, <2>1, <2>4
  <2> QED BY <2>1, <2>2, <2>3, <2>4, <2>5 DEF WithoutBlockOK
<1>4. CASE c # Nothing
  <2>1. TextOK(c) /\ Sound(c) /\ c \in Seq(Token) /\ Said(c) = c /\ Len(c) \in Nat
    BY <1>2, <1>4 DEF Said, TextOK, Sound
  <2>2. CASE ~HasBlock(c)
    <3>1. Unmarked(c) /\ Intact(c) = Sift(c, Lines)
      BY <1>a, <2>1, <2>2, NoBlock
    <3>2. WithoutBlock(f, c) = c
      BY <1>4, <2>2 DEF WithoutBlock
    <3> QED BY <2>1, <3>1, <3>2 DEF WithoutBlockOK
  <2>3. CASE HasBlock(c)
    <3>2. PICK a, b : a = Before(c) /\ b = After(f, c)
      BY ONLY TRUE
    <3>3. /\ a \in Seq(Token) /\ Unmarked(a) /\ b \in Seq(Token) /\ Unmarked(b)
          /\ Len(a) + Len(b) + 1 <= Len(c)
          /\ Sift(a, Lines) \o Sift(b, Lines) = Intact(c)
      BY <2>1, <2>3, <3>2, AroundIs
    <3>4. PICK prefix : prefix = Trimmed(a)
      BY ONLY TRUE
    <3>5. /\ prefix \in Seq(Token) /\ Len(prefix) <= Len(a) /\ Unmarked(prefix)
          /\ Sift(prefix, Lines) = Sift(a, Lines)
      <4>1. /\ prefix \in Seq(Token) /\ Len(prefix) <= Len(a)
            /\ \A i \in DOMAIN prefix : i \in DOMAIN a /\ prefix[i] = a[i]
            /\ Sift(prefix, Lines) = Sift(a, Lines)
        BY <3>3, <3>4, TrimmedIs
      <4>2. Unmarked(prefix)
        BY <3>3, <4>1 DEF Unmarked
      <4> QED BY <4>1, <4>2
    <3>6. PICK rest : rest = IF IsBlank(b) THEN <<>> ELSE b
      BY ONLY TRUE
    <3>7. /\ rest \in Seq(Token) /\ Len(rest) <= Len(b) /\ Unmarked(rest)
          /\ Sift(rest, Lines) = Sift(b, Lines)
      <4>1. Len(b) \in Nat
        BY <3>3
      <4>2. CASE IsBlank(b)
        BY <3>3, <3>6, <4>1, <4>2, BlankSays, NoText
      <4>3. CASE ~IsBlank(b)
        BY <3>3, <3>6, <4>1, <4>3
      <4> QED BY <4>2, <4>3
    <3>8. PICK nl : nl = <<Word("nl")>>
      BY ONLY TRUE
    <3>9. nl \in Seq(Token) /\ Len(nl) <= 1 /\ Len(nl) \in Nat /\ Unmarked(nl) /\ Sift(nl, Lines) = <<>>
      <4>1. Short(nl, 1)
        BY <3>8, Shorts
      <4> QED BY <4>1 DEF Short
    <3>10. PICK joined : joined = IF prefix = <<>> /\ (Kind[f] = "block" \/ rest # <<>>)
                                  THEN nl \o rest ELSE prefix \o rest
      BY ONLY TRUE
    <3>11. /\ joined \in Seq(Token) /\ Unmarked(joined) /\ Len(joined) <= Len(c)
           /\ Sift(joined, Lines) = Sift(a, Lines) \o Sift(b, Lines)
      <4>0. Len(a) \in Nat /\ Len(b) \in Nat /\ Len(prefix) \in Nat /\ Len(rest) \in Nat
        BY <3>3, <3>5, <3>7
      <4>1. CASE joined = nl \o rest /\ prefix = <<>>
        <5>1. joined \in Seq(Token) /\ Unmarked(joined) /\ Len(joined) = Len(nl) + Len(rest)
          BY <3>7, <3>9, <4>1, UnmarkedJoin
        <5>2. Sift(nl \o rest, Lines) = Sift(nl, Lines) \o Sift(rest, Lines)
          BY <3>7, <3>9, SaysBoth
        <5>3. Sift(prefix, Lines) = <<>>
          BY <4>1, NoText
        <5>4. Sift(joined, Lines) = Sift(a, Lines) \o Sift(b, Lines)
          BY <3>5, <3>7, <3>9, <4>1, <5>2, <5>3
        <5> QED BY <2>1, <3>3, <3>7, <3>9, <4>0, <5>1, <5>4
      <4>2. CASE joined = prefix \o rest
        <5>1. joined \in Seq(Token) /\ Unmarked(joined) /\ Len(joined) = Len(prefix) + Len(rest)
          BY <3>5, <3>7, <4>2, UnmarkedJoin
        <5>2. Sift(prefix \o rest, Lines) = Sift(prefix, Lines) \o Sift(rest, Lines)
          BY <3>5, <3>7, SaysBoth
        <5>3. Sift(joined, Lines) = Sift(a, Lines) \o Sift(b, Lines)
          BY <3>5, <3>7, <4>2, <5>2
        <5> QED BY <2>1, <3>3, <3>5, <3>7, <4>0, <5>1, <5>3
      <4> QED BY <3>10, <4>1, <4>2
    <3>12. PICK u : u = WithoutBlock(f, c)
      BY ONLY TRUE
    <3>13. u = IF Kind[f] = "hook" /\ (IsBlank(joined) \/ Trimmed(joined) = <<Word("sh")>>)
               THEN Nothing ELSE joined
      BY <1>4, <2>3, <3>2, <3>4, <3>6, <3>8, <3>10, <3>12, Zenon DEF WithoutBlock
    <3>14. ASSUME u = Nothing, u # joined PROVE Sift(joined, Lines) = <<>>
      <4>1. IsBlank(joined) \/ Trimmed(joined) = <<Word("sh")>>
        BY <3>13, <3>14
      <4>2. CASE IsBlank(joined)
        BY <3>11, <4>2, BlankSays
      <4>3. CASE Trimmed(joined) = <<Word("sh")>>
        <5>1. PICK t : t = Trimmed(joined)
          BY ONLY TRUE
        <5>2. Sift(t, Lines) = Sift(joined, Lines)
          BY <3>11, <5>1, TrimmedIs
        <5>3. Short(t, 1)
          BY <4>3, <5>1, Shorts
        <5> QED BY <5>2, <5>3 DEF Short
      <4> QED BY <4>1, <4>2, <4>3
    <3>15. CASE u = joined
      BY <1>2, <2>1, <3>3, <3>11, <3>12, <3>15 DEF WithoutBlockOK
    <3>16. CASE u = Nothing /\ u # joined
      <4>1. PICK n : n = Said(u)
        BY ONLY TRUE
      <4>2. n = <<>> /\ Sift(n, Lines) = <<>> /\ Len(n) = 0
        BY <1>1, <3>16, <4>1, NoText
      <4>3. Sift(joined, Lines) = <<>>
        BY <3>14, <3>16
      <4>4. Len(Said(u)) <= Len(Said(c))
        BY <2>1, <4>1, <4>2
      <4>5. Sift(Said(u), Lines) = Intact(Said(c))
        BY <2>1, <3>3, <3>11, <4>1, <4>2, <4>3
      <4> QED BY <3>12, <3>16, <4>4, <4>5 DEF WithoutBlockOK
    <3> QED BY <3>13, <3>15, <3>16
  <2> QED BY <2>2, <2>3
<1> QED BY <1>3, <1>4

\* The start of a text may be what a crash left of it.
LEMMA CutIs ==
    ASSUME NEW c, Sound(c), NEW n \in 0..Len(c)
    PROVE  Sound(SubSeq(c, 1, n)) /\ Len(SubSeq(c, 1, n)) = n
<1>1. TextOK(c) /\ c \in Seq(Token) /\ Len(c) \in Nat /\ DOMAIN c = 1..Len(c)
  BY DEF Sound, TextOK
<1>2. PICK x : x = SubSeq(c, 0 + 1, n)
  BY ONLY TRUE
<1>3. x \in Seq(Token) /\ PartOf(x, c, 0, n)
  <2>1. 0 \in Nat /\ n \in 0..Len(c)
    OBVIOUS
  <2> QED BY <1>1, <1>2, <2>1, Part
<1>4. Len(x) = n /\ DOMAIN x = 1..n /\ \A i \in DOMAIN x : i \in DOMAIN c /\ x[i] = c[i]
  <2>1. n \in Nat /\ n - 0 = n /\ \A i \in 1..n : 0 + i = i /\ i \in 1..Len(c)
    BY <1>1
  <2>2. Len(x) = n /\ \A i \in 1..n : x[i] = c[i]
    BY <1>3, <2>1 DEF PartOf
  <2>3. DOMAIN x = 1..n
    BY <1>3, <2>2
  <2> QED BY <1>1, <2>1, <2>2, <2>3
<1>5. ASSUME Unmarked(c) PROVE TextOK(x)
  BY <1>3, <1>4, <1>5 DEF Unmarked, TextOK
<1>6. ASSUME NEW s \in Nat, BlockAt(c, s) PROVE TextOK(x)
  <2>1. CASE s \in DOMAIN x
    <3>1. BlockAt(x, s)
      BY <1>4, <1>6, <2>1 DEF BlockAt
    <3> QED BY <1>3, <3>1 DEF TextOK
  <2>2. CASE s \notin DOMAIN x
    <3>1. n < s
      BY <1>1, <1>4, <1>6, <2>2 DEF BlockAt
    <3>2. ASSUME NEW i \in DOMAIN x PROVE x[i][1] \notin Marks
      <4>1. i < s /\ i \in DOMAIN c /\ x[i] = c[i]
        BY <1>4, <3>1
      <4> QED BY <1>6, <4>1 DEF BlockAt, Marks
    <3> QED BY <1>3, <3>2 DEF TextOK, Unmarked
  <2> QED BY <2>1, <2>2
<1>7. TextOK(x)
  <2>1. Unmarked(c) \/ \E s \in Nat : BlockAt(c, s)
    BY <1>1 DEF TextOK
  <2> QED BY <1>5, <1>6, <2>1
<1>8. x = SubSeq(c, 1, n)
  BY <1>2
<1>9. ASSUME NEW e \in DOMAIN x, x[e][1] = "end" PROVE Whole(x)
  <2>1. e \in DOMAIN c /\ c[e][1] = "end"
    BY <1>4, <1>9
  <2>2. Whole(c) /\ ~Unmarked(c)
    BY <2>1 DEF Sound, Places, Unmarked, Marks
  <2>3. PICK s \in Nat : WholeAt(c, s)
    BY <2>2 DEF Whole
  <2>4. e = s + 2 /\ s \in 1..Len(c) /\ s + 2 \in 1..n
    BY <1>1, <1>4, <2>1, <2>3 DEF WholeAt, BlockAt
  <2>5. s \in DOMAIN x /\ s + 1 \in DOMAIN x /\ s + 2 \in DOMAIN x
    BY <1>1, <1>4, <2>4
  <2>6. WholeAt(x, s)
    BY <1>4, <2>3, <2>5 DEF WholeAt, BlockAt
  <2> QED BY <1>3, <2>3, <2>6 DEF Whole
<1>10. Sound(x)
  BY <1>7, <1>9 DEF Sound, Places
<1> QED BY <1>4, <1>8, <1>10

\* A text with an unmarked one before or behind it.
LEMMA MovedBlock ==
    ASSUME NEW s \in Seq(Token), NEW t \in Seq(Token), Unmarked(s), NEW k \in Nat, BlockAt(t, k)
    PROVE  /\ Len(s) + k \in Nat /\ BlockAt(s \o t, Len(s) + k)
           /\ WholeAt(t, k) => WholeAt(s \o t, Len(s) + k)
           /\ \A i \in DOMAIN t : Len(s) + i \in DOMAIN (s \o t) /\ (s \o t)[Len(s) + i] = t[i]
<1>1. PICK u, n : u = s \o t /\ n = Len(s)
  BY ONLY TRUE
<1>2. u \in Seq(Token) /\ Joins(s, t, u)
  BY <1>1, Joined
<1>3. /\ n \in Nat /\ DOMAIN s = 1..n /\ DOMAIN t = 1..Len(t) /\ DOMAIN u = 1..(n + Len(t))
      /\ Len(t) \in Nat
      /\ \A i \in 1..n : u[i] = s[i]
      /\ \A i \in 1..Len(t) : u[n + i] = t[i]
      /\ \A i \in 1..(n + Len(t)) : i \in 1..n \/ \E l \in 1..Len(t) : i = n + l
  BY <1>1, <1>2 DEF Joins
<1>4. \A i \in DOMAIN t : n + i \in DOMAIN u /\ u[n + i] = t[i]
  BY <1>3
<1>5. /\ k \in DOMAIN t /\ t[k][1] = "start"
      /\ \A i \in DOMAIN t : /\ t[i][1] = "start" => i = k
                             /\ t[i][1] = "body" => i = k + 1
                             /\ t[i][1] = "end" => i = k + 2
  BY DEF BlockAt
<1>6. ASSUME NEW i \in DOMAIN u
      PROVE  /\ u[i][1] = "start" => i = n + k
             /\ u[i][1] = "body" => i = (n + k) + 1
             /\ u[i][1] = "end" => i = (n + k) + 2
  <2>1. CASE i \in 1..n
    BY <1>3, <2>1 DEF Unmarked, Marks
  <2>2. ASSUME NEW l \in 1..Len(t), i = n + l
        PROVE  /\ u[i][1] = "start" => i = n + k
               /\ u[i][1] = "body" => i = (n + k) + 1
               /\ u[i][1] = "end" => i = (n + k) + 2
    <3>1. l \in DOMAIN t /\ u[i] = t[l] /\ l \in Nat
      BY <1>3, <2>2
    <3>2. /\ u[i][1] = "start" => l = k
          /\ u[i][1] = "body" => l = k + 1
          /\ u[i][1] = "end" => l = k + 2
      BY <1>5, <3>1
    <3> QED BY <1>3, <2>2, <3>1, <3>2
  <2> QED BY <1>3, <2>1, <2>2
<1>7. n + k \in Nat /\ BlockAt(u, n + k)
  <2>1. n + k \in DOMAIN u /\ u[n + k] = t[k]
    BY <1>4, <1>5
  <2> QED BY <1>3, <1>5, <1>6, <2>1 DEF BlockAt
<1>8. ASSUME WholeAt(t, k) PROVE WholeAt(u, n + k)
  <2>1. k + 2 \in DOMAIN t /\ t[k + 1][1] = "body" /\ t[k + 2][1] = "end"
    BY <1>8 DEF WholeAt
  <2>2. k + 1 \in DOMAIN t
    BY <1>3, <2>1
  <2>3. (n + k) + 1 = n + (k + 1) /\ (n + k) + 2 = n + (k + 2)
    BY <1>3
  <2>4. u[(n + k) + 1] = t[k + 1] /\ u[(n + k) + 2] = t[k + 2] /\ (n + k) + 2 \in DOMAIN u
    BY <1>4, <2>1, <2>2, <2>3
  <2> QED BY <1>7, <2>1, <2>4 DEF WholeAt
<1> QED BY <1>1, <1>4, <1>7, <1>8

LEMMA KeptBlock ==
    ASSUME NEW s \in Seq(Token), NEW t \in Seq(Token), Unmarked(t), NEW k \in Nat, BlockAt(s, k)
    PROVE  /\ BlockAt(s \o t, k)
           /\ WholeAt(s, k) => WholeAt(s \o t, k)
           /\ \A i \in DOMAIN s : i \in DOMAIN (s \o t) /\ (s \o t)[i] = s[i]
<1>1. PICK u, n : u = s \o t /\ n = Len(s)
  BY ONLY TRUE
<1>2. u \in Seq(Token) /\ Joins(s, t, u)
  BY <1>1, Joined
<1>3. /\ n \in Nat /\ DOMAIN s = 1..n /\ DOMAIN t = 1..Len(t) /\ DOMAIN u = 1..(n + Len(t))
      /\ Len(t) \in Nat
      /\ \A i \in 1..n : u[i] = s[i]
      /\ \A i \in 1..Len(t) : u[n + i] = t[i]
      /\ \A i \in 1..(n + Len(t)) : i \in 1..n \/ \E l \in 1..Len(t) : i = n + l
  BY <1>1, <1>2 DEF Joins
<1>4. \A i \in DOMAIN s : i \in DOMAIN u /\ u[i] = s[i]
  BY <1>3
<1>5. /\ k \in DOMAIN s /\ s[k][1] = "start"
      /\ \A i \in DOMAIN s : /\ s[i][1] = "start" => i = k
                             /\ s[i][1] = "body" => i = k + 1
                             /\ s[i][1] = "end" => i = k + 2
  BY DEF BlockAt
<1>6. ASSUME NEW i \in DOMAIN u
      PROVE  /\ u[i][1] = "start" => i = k
             /\ u[i][1] = "body" => i = k + 1
             /\ u[i][1] = "end" => i = k + 2
  <2>1. CASE i \in 1..n
    BY <1>3, <1>5, <2>1
  <2>2. ASSUME NEW l \in 1..Len(t), i = n + l PROVE u[i][1] \notin Marks
    BY <1>3, <2>2 DEF Unmarked
  <2>3. i \in 1..n \/ u[i][1] \notin Marks
    BY <1>3, <2>2
  <2> QED BY <2>1, <2>3 DEF Marks
<1>7. BlockAt(u, k)
  BY <1>4, <1>5, <1>6 DEF BlockAt
<1>8. ASSUME WholeAt(s, k) PROVE WholeAt(u, k)
  <2>1. k + 2 \in DOMAIN s /\ s[k + 1][1] = "body" /\ s[k + 2][1] = "end"
    BY <1>8 DEF WholeAt
  <2>2. k + 1 \in DOMAIN s
    BY <1>3, <2>1
  <2> QED BY <1>4, <1>7, <2>1, <2>2 DEF WholeAt
<1> QED BY <1>1, <1>4, <1>7, <1>8

\* A line the user adds in front of a text or behind it, or another token.
Adds(c, u, t, first) ==
    /\ Sound(u) /\ Len(u) = Len(c) + 1
    /\ Unmarked(c) => Unmarked(u)
    /\ \A v \in Nat : Fresh(c, v) => Fresh(u, v)
    /\ Sift(u, Lines) = IF first THEN Sift(<<t>>, Lines) \o Sift(c, Lines)
                        ELSE Sift(c, Lines) \o Sift(<<t>>, Lines)

LEMMA AddedToken ==
    ASSUME NEW c, Sound(c), NEW x \in Token, x[1] \notin Marks
    PROVE  Adds(c, <<x>> \o c, x, TRUE) /\ Adds(c, c \o <<x>>, x, FALSE)
<1>1. PICK t : t = <<x>>
  BY ONLY TRUE
<1>2. t \in Seq(Token) /\ Len(t) = 1 /\ DOMAIN t = 1..1 /\ t[1] = x /\ Unmarked(t)
  BY <1>1, OneToken
<1>3. TextOK(c) /\ c \in Seq(Token) /\ Len(c) \in Nat
  BY DEF Sound, TextOK
<1>4. PICK u, w : u = t \o c /\ w = c \o t
  BY ONLY TRUE
<1>5. /\ u \in Seq(Token) /\ Len(u) = Len(c) + 1
      /\ w \in Seq(Token) /\ Len(w) = Len(c) + 1
      /\ \A i \in DOMAIN u : u[i] = x \/ \E k \in DOMAIN c : u[i] = c[k]
      /\ \A i \in DOMAIN w : w[i] = x \/ \E k \in DOMAIN c : w[i] = c[k]
  <2>1. u \in Seq(Token) /\ w \in Seq(Token) /\ Joins(t, c, u) /\ Joins(c, t, w)
    BY <1>2, <1>3, <1>4, Joined
  <2>2. /\ DOMAIN u = 1..Len(u) /\ DOMAIN w = 1..Len(w) /\ DOMAIN c = 1..Len(c)
        /\ \A k \in 1..Len(t) : t[k] = x
    BY <1>2, <1>3, <2>1
  <2>3. ASSUME NEW i \in DOMAIN u PROVE u[i] = x \/ \E k \in DOMAIN c : u[i] = c[k]
    <3>1. i \in 1..Len(t) \/ \E k \in 1..Len(c) : i = Len(t) + k
      BY <2>1, <2>2, <2>3 DEF Joins
    <3>2. CASE i \in 1..Len(t)
      BY <2>1, <2>2, <3>2 DEF Joins
    <3>3. ASSUME NEW k \in 1..Len(c), i = Len(t) + k PROVE u[i] = c[k]
      BY <2>1, <3>3 DEF Joins
    <3> QED BY <2>2, <3>1, <3>2, <3>3
  <2>4. ASSUME NEW i \in DOMAIN w PROVE w[i] = x \/ \E k \in DOMAIN c : w[i] = c[k]
    <3>1. i \in 1..Len(c) \/ \E k \in 1..Len(t) : i = Len(c) + k
      BY <2>1, <2>2, <2>4 DEF Joins
    <3>2. CASE i \in 1..Len(c)
      BY <2>1, <2>2, <3>2 DEF Joins
    <3>3. ASSUME NEW k \in 1..Len(t), i = Len(c) + k PROVE w[i] = x
      BY <2>1, <2>2, <3>3 DEF Joins
    <3> QED BY <3>1, <3>2, <3>3
  <2>5. Len(u) = Len(c) + 1 /\ Len(w) = Len(c) + 1
    BY <1>2, <1>3, <2>1 DEF Joins
  <2> QED BY <2>1, <2>3, <2>4, <2>5
<1>6. /\ Sift(u, Lines) = Sift(t, Lines) \o Sift(c, Lines)
      /\ Sift(w, Lines) = Sift(c, Lines) \o Sift(t, Lines)
  <2>1. Sift(t \o c, Lines) = Sift(t, Lines) \o Sift(c, Lines)
    BY <1>2, <1>3, SaysBoth
  <2>2. Sift(c \o t, Lines) = Sift(c, Lines) \o Sift(t, Lines)
    BY <1>2, <1>3, SaysBoth
  <2> QED BY <1>2, <1>4, <2>1, <2>2
<1>7. Unmarked(c) => Unmarked(u) /\ Unmarked(w)
  BY <1>2, <1>3, <1>4, UnmarkedJoin
<1>8. ASSUME NEW s \in Nat, BlockAt(c, s)
      PROVE  /\ 1 + s \in Nat /\ BlockAt(u, 1 + s)
             /\ WholeAt(c, s) => WholeAt(u, 1 + s)
             /\ \A i \in DOMAIN c : 1 + i \in DOMAIN u /\ u[1 + i] = c[i]
  BY <1>2, <1>3, <1>4, <1>8, MovedBlock
<1>9. ASSUME NEW s \in Nat, BlockAt(c, s)
      PROVE  /\ BlockAt(w, s)
             /\ WholeAt(c, s) => WholeAt(w, s)
             /\ \A i \in DOMAIN c : i \in DOMAIN w /\ w[i] = c[i]
  <2>1. c \in Seq(Token) /\ t \in Seq(Token) /\ Unmarked(t)
    BY <1>2, <1>3
  <2>2. /\ BlockAt(c \o t, s) /\ (WholeAt(c, s) => WholeAt(c \o t, s))
        /\ \A i \in DOMAIN c : i \in DOMAIN (c \o t) /\ (c \o t)[i] = c[i]
    BY <1>9, <2>1, KeptBlock
  <2> QED BY <1>4, <2>2
<1>10. TextOK(u) /\ TextOK(w)
  <2>1. CASE Unmarked(c)
    BY <1>5, <1>7, <2>1 DEF TextOK
  <2>2. ASSUME NEW s \in Nat, BlockAt(c, s) PROVE TextOK(u) /\ TextOK(w)
    BY <1>5, <1>8, <1>9, <2>2 DEF TextOK
  <2> QED BY <1>3, <2>1, <2>2 DEF TextOK
<1>11. Whole(c) => Whole(u) /\ Whole(w)
  <2>1. ASSUME NEW s \in Nat, WholeAt(c, s) PROVE Whole(u) /\ Whole(w)
    <3>1. BlockAt(c, s)
      BY <2>1 DEF WholeAt
    <3>2. 1 + s \in Nat /\ WholeAt(u, 1 + s)
      BY <1>8, <2>1, <3>1
    <3>3. WholeAt(w, s)
      BY <1>9, <2>1, <3>1
    <3> QED BY <1>5, <3>2, <3>3 DEF Whole
  <2>2. CASE Unmarked(c)
    BY <1>5, <1>7, <2>2 DEF Whole
  <2> QED BY <2>1, <2>2 DEF Whole
<1>12. ASSUME NEW v \in Nat, Fresh(c, v) PROVE Fresh(u, v) /\ Fresh(w, v)
  <2>1. PICK s \in Nat : BlockAt(c, s) /\ s + 1 \in DOMAIN c /\ c[s + 1] = Body(v)
    BY <1>12 DEF Fresh
  <2>2. 1 + (s + 1) = (1 + s) + 1
    OBVIOUS
  <2>3. 1 + s \in Nat /\ BlockAt(u, 1 + s) /\ (1 + s) + 1 \in DOMAIN u /\ u[(1 + s) + 1] = Body(v)
    BY <1>8, <2>1, <2>2
  <2>4. BlockAt(w, s) /\ s + 1 \in DOMAIN w /\ w[s + 1] = Body(v)
    BY <1>9, <2>1
  <2> QED BY <2>3, <2>4 DEF Fresh
<1>13. Places(c, "end") = {} => Places(u, "end") = {} /\ Places(w, "end") = {}
  BY <1>5 DEF Places, Marks
<1>14. Sound(u) /\ Sound(w)
  BY <1>10, <1>11, <1>13 DEF Sound
<1>15. Adds(c, u, x, TRUE)
  BY <1>1, <1>5, <1>6, <1>7, <1>12, <1>14 DEF Adds
<1>16. Adds(c, w, x, FALSE)
  BY <1>1, <1>5, <1>6, <1>7, <1>12, <1>14 DEF Adds
<1> QED BY <1>1, <1>4, <1>15, <1>16

------------------------------------------------------------------------------
\* Settings files, and what a command leaves in a file.

\* Contents that an install, and an uninstall, of this version leaves behind.
Refreshed(f, c, v) ==
    /\ f \in Structured => /\ c # Nothing /\ \A x \in Parts(f) : c.ours[x] # 0
                           /\ Kind[f] = "mcp" => c.ours["entry"] = v
    /\ f \in TextFiles => c # Nothing /\ Fresh(Said(c), v)
    /\ f \notin Structured \cup TextFiles => c = v

Cleared(f, c) ==
    /\ f \in Structured => c = Nothing \/ \A x \in Parts(f) \ {"hooks"} : c.ours[x] = 0
    /\ f \in TextFiles => Unmarked(Said(c))
    /\ f \notin Structured \cup TextFiles => c = Nothing

LEMMA NoFile == \A f \in Structured : Nothing \notin SettingsOf(f) /\ f \notin TextFiles
BY ClientFilesAssumption DEF Structured, TextFiles

\* What the user has in a settings file.
LEMMA ContentIs ==
    \A f \in Structured : \A c :
        Content(f, c) = IF c = Nothing THEN <<0, 0>> ELSE <<c.user, c.own>>
BY NoFile DEF Content

\* Only the Fragile files have something that is not kept.
SettingsHeld(f, c) == SettingsOK(f, c) /\ (c # Nothing /\ f \notin Fragile => c.own = 0)

\* A file that is there has its fields.
LEMMA FieldsAre ==
    ASSUME NEW f \in Structured, NEW c, SettingsHeld(f, c), c # Nothing
    PROVE  /\ c \in SettingsOf(f) /\ c.form \in Forms
           /\ c.user \in 0..MaxEdits /\ c.own \in 0..MaxEdits
           /\ c.ours \in [Parts(f) -> 0..MaxRuns]
           /\ f \notin Fragile => c.own = 0
<1>1. MaxEdits \in Nat /\ MaxRuns \in Nat
  BY ClientFilesAssumption
<1>2. /\ c \in SettingsOf(f) /\ c.user <= MaxEdits /\ c.own <= MaxEdits
      /\ \A x \in Parts(f) : c.ours[x] <= MaxRuns
      /\ f \notin Fragile => c.own = 0
  BY DEF SettingsHeld, SettingsOK
<1>3. c.form \in Forms /\ c.user \in Nat /\ c.own \in Nat /\ c.ours \in [Parts(f) -> Nat]
  BY <1>2 DEF SettingsOf
<1>4. \A x \in Parts(f) : c.ours[x] \in 0..MaxRuns
  BY <1>1, <1>2, <1>3
<1>5. c.ours \in [Parts(f) -> 0..MaxRuns]
  BY <1>3, <1>4
<1> QED BY <1>1, <1>2, <1>3, <1>5

\* And a record of such fields is a file.
LEMMA FileOf ==
    ASSUME NEW f \in Structured, NEW form \in Forms, NEW user \in 0..MaxEdits,
           NEW own \in 0..MaxEdits, f \notin Fragile => own = 0,
           NEW ours \in [Parts(f) -> 0..MaxRuns],
           NEW c, c = [form |-> form, user |-> user, own |-> own, ours |-> ours]
    PROVE  /\ c \in SettingsOf(f) /\ c # Nothing /\ SettingsHeld(f, c)
           /\ Content(f, c) = <<user, own>>
<1>1. MaxEdits \in Nat /\ MaxRuns \in Nat
  BY ClientFilesAssumption
<1>2. /\ user \in Nat /\ own \in Nat /\ user <= MaxEdits /\ own <= MaxEdits
      /\ ours \in [Parts(f) -> Nat] /\ \A x \in Parts(f) : ours[x] <= MaxRuns
  BY <1>1
<1>3. c \in SettingsOf(f)
  BY <1>2 DEF SettingsOf
<1>4. c # Nothing
  BY <1>3, NoFile
<1>5. SettingsHeld(f, c)
  BY <1>2, <1>3 DEF SettingsHeld, SettingsOK
<1>6. Content(f, c) = <<user, own>>
  <2>1. Content(f, c) = <<c.user, c.own>>
    BY <1>4, ContentIs
  <2> QED BY <2>1
<1> QED BY <1>3, <1>4, <1>5, <1>6

\* The file of a part whose entries all are v.
LEMMA SettingsIs ==
    ASSUME NEW f \in Structured, NEW form \in Forms, NEW u \in 0..MaxEdits, NEW v \in 0..MaxRuns
    PROVE  /\ Settings(f, form, u, v) \in SettingsOf(f) /\ SettingsHeld(f, Settings(f, form, u, v))
           /\ Settings(f, form, u, v) # Nothing /\ Settings(f, form, u, v).form = form
           /\ Content(f, Settings(f, form, u, v)) = <<u, 0>>
           /\ \A x \in Parts(f) : Settings(f, form, u, v).ours[x] = v
<1>1. 0 \in 0..MaxEdits /\ [x \in Parts(f) |-> v] \in [Parts(f) -> 0..MaxRuns]
  BY ClientFilesAssumption
<1>2. PICK c : c = Settings(f, form, u, v)
  BY ONLY TRUE
<1>3. c = [form |-> form, user |-> u, own |-> 0, ours |-> [x \in Parts(f) |-> v]]
  BY <1>2 DEF Settings
<1>4. c \in SettingsOf(f) /\ c # Nothing /\ SettingsHeld(f, c) /\ Content(f, c) = <<u, 0>>
  BY <1>1, <1>3, FileOf
<1> QED BY <1>2, <1>3, <1>4

\* What is left of the user's part of a file when it is written anew.
Left(f, u) == IF f \in Fragile THEN <<u[1], 0>> ELSE u

\* A file written anew, with entries of its own.
LEMMA RewrittenIs ==
    ASSUME NEW f \in Structured, NEW c, SettingsHeld(f, c), c # Nothing,
           NEW g \in [Parts(f) -> 0..MaxRuns]
    PROVE  /\ Rewritten(f, c, g) \in SettingsOf(f) /\ SettingsHeld(f, Rewritten(f, c, g))
           /\ Rewritten(f, c, g) # Nothing
           /\ Rewritten(f, c, g).form = c.form /\ Rewritten(f, c, g).ours = g
           /\ Content(f, Rewritten(f, c, g)) = Left(f, Content(f, c))
<1>1. PICK u, own : u = Rewritten(f, c, g) /\ own = IF f \in Fragile THEN 0 ELSE c.own
  BY ONLY TRUE
<1>2. /\ c \in SettingsOf(f) /\ c.form \in Forms
      /\ c.user \in 0..MaxEdits /\ c.own \in 0..MaxEdits /\ (f \notin Fragile => c.own = 0)
  BY FieldsAre
<1>3. own \in 0..MaxEdits /\ (f \notin Fragile => own = 0)
  BY <1>1, <1>2, ClientFilesAssumption
<1>4. u = [c EXCEPT !.ours = g, !.own = own]
  BY <1>1 DEF Rewritten
<1>5. u = [form |-> c.form, user |-> c.user, own |-> own, ours |-> g]
  BY <1>2, <1>4 DEF SettingsOf
<1>6. u \in SettingsOf(f) /\ u # Nothing /\ SettingsHeld(f, u) /\ Content(f, u) = <<c.user, own>>
  BY <1>2, <1>3, <1>5, FileOf
<1>7. Content(f, c) = <<c.user, c.own>>
  BY ContentIs
<1>8. Content(f, u) = Left(f, Content(f, c))
  BY <1>1, <1>6, <1>7 DEF Left
<1> QED BY <1>1, <1>5, <1>6, <1>8

\* What is read, if it can be.
LEMMA ParsedIs ==
    ASSUME NEW f \in Structured, NEW c, SettingsHeld(f, c)
    PROVE  /\ Parsed(f, c) \in SettingsOf(f) /\ SettingsHeld(f, Parsed(f, c))
           /\ Parsed(f, c) # Nothing /\ Parsed(f, c).form # "broken"
           /\ Content(f, Parsed(f, c)) = IF Unreadable(f, c) THEN <<0, 0>> ELSE Content(f, c)
<1>1. MaxEdits \in Nat /\ MaxRuns \in Nat /\ "object" \in Forms
  BY ClientFilesAssumption DEF Forms
<1>2. 0 \in 0..MaxEdits /\ 0 \in 0..MaxRuns
  BY <1>1
<1>3. CASE c # Nothing /\ c.form # "broken"
  <2>1. Parsed(f, c) = c /\ c \in SettingsOf(f) /\ ~Unreadable(f, c)
    BY <1>3, FieldsAre DEF Parsed, Unreadable
  <2> QED BY <1>3, <2>1
<1>4. CASE ~(c # Nothing /\ c.form # "broken")
  <2>1. PICK u : u = Settings(f, "object", 0, 0)
    BY ONLY TRUE
  <2>2. /\ u \in SettingsOf(f) /\ SettingsHeld(f, u) /\ u # Nothing /\ u.form = "object"
        /\ Content(f, u) = <<0, 0>>
    BY <1>1, <1>2, <2>1, SettingsIs
  <2>3. Parsed(f, c) = u
    BY <1>4, <2>1 DEF Parsed
  <2>4. ~Unreadable(f, c) => Content(f, c) = <<0, 0>>
    BY <1>4, ContentIs DEF Unreadable
  <2> QED BY <2>2, <2>3, <2>4
<1> QED BY <1>3, <1>4

LEMMA PatchedIs ==
    ASSUME NEW f \in Structured, NEW c, SettingsHeld(f, c), NEW v \in 1..MaxRuns
    PROVE  /\ SettingsHeld(f, Patched(f, c, v)) /\ Patched(f, c, v) # Nothing
           /\ Patched(f, c, v).form # "broken"
           /\ Refreshed(f, Patched(f, c, v), v)
           /\ Content(f, Patched(f, c, v)) =
                Left(f, IF Unreadable(f, c) THEN <<0, 0>> ELSE Content(f, c))
<1>1. MaxRuns \in Nat
  BY ClientFilesAssumption
<1>2. PICK old : old = Parsed(f, c)
  BY ONLY TRUE
<1>3. /\ old \in SettingsOf(f) /\ SettingsHeld(f, old) /\ old # Nothing /\ old.form # "broken"
      /\ Content(f, old) = IF Unreadable(f, c) THEN <<0, 0>> ELSE Content(f, c)
  BY <1>2, ParsedIs
<1>4. \A x \in Parts(f) : old.ours[x] \in 0..MaxRuns
  BY <1>3, FieldsAre
<1> DEFINE New(x) == CASE x = "entry" -> v
                       [] x = "hooks" -> IF old.ours[x] = 0 THEN v ELSE old.ours[x]
                       [] OTHER -> 1
<1>5. ASSUME NEW x \in Parts(f) PROVE New(x) \in 1..MaxRuns /\ (x = "entry" => New(x) = v)
  <2>1. old.ours[x] # 0 => old.ours[x] \in 1..MaxRuns
    BY <1>1, <1>4
  <2>2. CASE x = "entry"
    BY <2>2
  <2>3. CASE x = "hooks"
    BY <2>1, <2>3
  <2>4. CASE x # "entry" /\ x # "hooks"
    <3>1. New(x) = 1
      BY <2>4
    <3> QED BY <1>1, <2>4, <3>1
  <2> QED BY <2>2, <2>3, <2>4
<1>6. PICK g : g = [x \in Parts(f) |-> New(x)]
  BY ONLY TRUE
<1>7. PICK u : u = Rewritten(f, old, g)
  BY ONLY TRUE
<1>8. Patched(f, c, v) = u
  BY <1>2, <1>6, <1>7 DEF Patched
<1> HIDE DEF New
<1>9. /\ g \in [Parts(f) -> 0..MaxRuns]
      /\ \A x \in Parts(f) : g[x] # 0 /\ (x = "entry" => g[x] = v)
  BY <1>1, <1>5, <1>6
<1>10. /\ SettingsHeld(f, u) /\ u # Nothing /\ u.form = old.form /\ u.ours = g
       /\ Content(f, u) = Left(f, Content(f, old))
  BY <1>3, <1>7, <1>9, RewrittenIs
<1>11. Kind[f] = "mcp" => "entry" \in Parts(f)
  BY DEF Parts
<1>12. Refreshed(f, u, v)
  BY <1>9, <1>10, <1>11, NoFile DEF Refreshed
<1> QED BY <1>3, <1>8, <1>10, <1>12

LEMMA UnpatchedIs ==
    ASSUME NEW f \in Structured, NEW c, SettingsHeld(f, c)
    PROVE  /\ SettingsHeld(f, Unpatched(f, c))
           /\ Unreadable(f, c) => Unpatched(f, c) = c
           /\ ~Unreadable(f, c) => /\ Cleared(f, Unpatched(f, c))
                                   /\ Content(f, Unpatched(f, c)) = Left(f, Content(f, c))
<1>1. MaxRuns \in Nat
  BY ClientFilesAssumption
<1>2. PICK u : u = Unpatched(f, c)
  BY ONLY TRUE
<1>3. CASE c = Nothing
  <2>1. u = Nothing /\ ~Unreadable(f, c) /\ Content(f, c) = <<0, 0>>
    BY <1>2, <1>3, ContentIs DEF Unpatched, Unreadable
  <2>2. Left(f, <<0, 0>>) = <<0, 0>>
    BY DEF Left
  <2> QED BY <1>2, <1>3, <2>1, <2>2, NoFile DEF Cleared
<1>4. CASE c # Nothing /\ c.form = "broken"
  BY <1>4 DEF Unpatched, Unreadable
<1>5. CASE c # Nothing /\ c.form # "broken"
  <2>0. ~Unreadable(f, c)
    BY <1>5 DEF Unreadable
  <2>1. /\ c \in SettingsOf(f) /\ c.ours \in [Parts(f) -> 0..MaxRuns]
        /\ f \notin Fragile => c.own = 0
    BY <1>5, FieldsAre
  <2>2. CASE f \in Dedicated /\ Usable(c) /\ c.ours["entry"] # 0 /\ c.user = 0
    <3>1. u = Nothing
      BY <1>2, <1>5, <2>2 DEF Unpatched
    <3>2. f \notin Fragile
      BY <2>2, ClientFilesAssumption DEF Fragile
    <3>3. Content(f, c) = <<0, 0>> /\ Content(f, u) = <<0, 0>>
      <4>1. Content(f, c) = <<c.user, c.own>> /\ Content(f, u) = <<0, 0>>
        BY <1>5, <3>1, ContentIs
      <4> QED BY <2>1, <2>2, <3>2, <4>1
    <3>4. SettingsHeld(f, u)
      BY <3>1 DEF SettingsHeld, SettingsOK
    <3>5. Left(f, <<0, 0>>) = <<0, 0>>
      BY DEF Left
    <3> QED BY <1>2, <2>0, <3>1, <3>3, <3>4, <3>5, NoFile DEF Cleared
  <2>3. CASE ~(f \in Dedicated /\ Usable(c) /\ c.ours["entry"] # 0 /\ c.user = 0)
    <3>1. PICK g : g = [x \in Parts(f) |-> IF x = "hooks" THEN c.ours[x] ELSE 0]
      BY ONLY TRUE
    <3>2. u = Rewritten(f, c, g)
      BY <1>2, <1>5, <2>3, <3>1 DEF Unpatched
    <3>3. g \in [Parts(f) -> 0..MaxRuns] /\ \A x \in Parts(f) \ {"hooks"} : g[x] = 0
      BY <1>1, <2>1, <3>1
    <3>4. /\ SettingsHeld(f, u) /\ u # Nothing /\ u.ours = g
          /\ Content(f, u) = Left(f, Content(f, c))
      BY <1>5, <3>2, <3>3, RewrittenIs
    <3>5. Cleared(f, u)
      BY <3>3, <3>4, NoFile DEF Cleared
    <3> QED BY <1>2, <2>0, <3>4, <3>5
  <2> QED BY <2>2, <2>3
<1> QED BY <1>3, <1>4, <1>5

\* The hooks of a project file that can be read are left as they are.
LEMMA ProjectIs ==
    ASSUME NEW f \in Structured, Kind[f] = "project", NEW c, SettingsHeld(f, c), c # Nothing,
           c.form # "broken", c.ours["hooks"] # 0, NEW v \in 1..MaxRuns
    PROVE  Patched(f, c, v) = c /\ Unpatched(f, c) = c
<1>1. c \in SettingsOf(f) /\ c.ours \in [Parts(f) -> 0..MaxRuns]
  BY FieldsAre
<1>2. Parts(f) = {"hooks"} /\ f \notin Fragile /\ f \notin Dedicated
  BY ClientFilesAssumption DEF Parts, Fragile
<1>3. c.ours = [x \in Parts(f) |-> c.ours["hooks"]]
  BY <1>1, <1>2
<1>4. \A g : g = c.ours => Rewritten(f, c, g) = c
  BY <1>1, <1>2 DEF Rewritten, SettingsOf
<1>5. Unpatched(f, c) = Rewritten(f, c, [x \in Parts(f) |-> c.ours["hooks"]])
  <2>1. PICK g : g = [x \in Parts(f) |-> IF x = "hooks" THEN c.ours[x] ELSE 0]
    BY ONLY TRUE
  <2>2. Unpatched(f, c) = Rewritten(f, c, g)
    BY <1>2, <2>1 DEF Unpatched
  <2>3. g = [x \in Parts(f) |-> c.ours["hooks"]]
    BY <1>2, <2>1
  <2> QED BY <2>2, <2>3
<1> DEFINE New(x) == CASE x = "entry" -> v
                       [] x = "hooks" -> IF c.ours[x] = 0 THEN v ELSE c.ours[x]
                       [] OTHER -> 1
<1>6. PICK g : g = [x \in Parts(f) |-> New(x)]
  BY ONLY TRUE
<1>7. Patched(f, c, v) = Rewritten(f, c, g)
  <2>1. Parsed(f, c) = c
    BY DEF Parsed
  <2> QED BY <1>6, <2>1 DEF Patched
<1>8. New("hooks") = c.ours["hooks"]
  OBVIOUS
<1> HIDE DEF New
<1>9. g = [x \in Parts(f) |-> c.ours["hooks"]]
  BY <1>2, <1>6, <1>8
<1> QED BY <1>3, <1>4, <1>5, <1>7, <1>9

------------------------------------------------------------------------------
\* The inductive invariant.

\* The variables have their types; what is to be done belongs to a command.
ClientShape ==
    /\ DOMAIN files = Files /\ DOMAIN backup = Files /\ DOMAIN wanted = Files
    /\ selected \in Selections /\ todo \subseteq Files /\ at \in todo \cup {Nothing} /\ saved \in BOOLEAN
    /\ job \in Commanded \cup {Nothing}
    /\ runs \in 0..MaxRuns /\ edits \in 0..MaxEdits /\ kills \in 0..MaxKills
    /\ job = Nothing => todo = {}
    /\ job # Nothing => job.version <= runs

\* A content that a file may have; a text of at most n tokens.
Held(f, c, n) ==
    /\ f \in Structured => SettingsHeld(f, c)
    /\ f \in TextFiles => Sound(Said(c)) /\ Len(Said(c)) <= n
    /\ f \notin Structured \cup TextFiles =>
         c \in (0..MaxRuns) \cup {Nothing} \/ (Kind[f] \in {"own", "loose"} /\ c = Torn)

\* A command leaves room for what it adds to the files it has yet to visit.
Room(f) == edits + 6 * (IF f \in todo THEN runs - 1 ELSE runs)

ContentsHeld ==
    \A f \in Files :
        /\ Held(f, files[f], Room(f))
        /\ at = f => Held(f, snap, Room(f))
        /\ at = f /\ saved /\ Kind[f] = "project" => backup[f] = snap
        /\ backup[f] # Nothing => Kind[f] = "project" /\ SettingsOK(f, backup[f])

\* What is only in the backup of a project file was lost to a file cut short, which
\* nobody has saved since, or to one written anew, which no command writes again.
Recovers(f) ==
    IF Unreadable(f, files[f]) THEN at = f => files[f] = snap
    ELSE at # f /\ files[f] # Nothing /\ files[f].ours["hooks"] # 0

ContentsKept ==
    \A f \in Files :
        \/ Content(f, files[f]) = wanted[f]
        \/ Kind[f] = "project" /\ Content(f, backup[f]) = wanted[f] /\ Recovers(f)

\* The files that the command has visited are as it leaves them.
VisitedDone ==
    /\ \A f \in Files : job # Nothing /\ f \in job.listed \ todo =>
         /\ job.name = "install" => Refreshed(f, files[f], job.version)
         /\ job.name = "uninstall" => Cleared(f, files[f])
    /\ at # Nothing /\ job # Nothing /\ job.name = "uninstall" => ~Unreadable(at, snap)

ClientInv == ClientShape /\ ContentsHeld /\ ContentsKept /\ VisitedDone

LEMMA FileKinds ==
    /\ Structured \subseteq Files /\ TextFiles \subseteq Files
    /\ \A f \in Structured : f \notin TextFiles /\ Kind[f] \notin {"own", "loose"}
    /\ \A f \in TextFiles : Kind[f] \notin {"project", "own", "loose", "config"}
    /\ \A f \in Files : Kind[f] \in {"project", "config"} => f \in Structured
    /\ \A f \in Files : Kind[f] = "project" => f \notin Fragile /\ f \notin TextFiles
    /\ \A f \in Files : f \notin Structured \cup TextFiles => Kind[f] \in {"own", "loose", "side"}
    /\ Fragile \subseteq Structured
    /\ MaxRuns \in Nat /\ MaxEdits \in Nat /\ MaxKills \in Nat
    /\ Nothing \notin Files /\ Nothing \notin Commanded /\ Nothing \notin Seq(Token)
BY ClientFilesAssumption DEF Structured, TextFiles, Kinds, Fragile

\* What is left of a file when a command has written it.
LEMMA SparedIs ==
    \A c :
      /\ \A f \in Structured :
           IF Unreadable(f, c) /\ Kind[f] # "project" THEN Spared(f, c) = Left(f, <<0, 0>>)
           ELSE Spared(f, c) = Left(f, Content(f, c))
      /\ \A f \in TextFiles : /\ Content(f, c) = Sift(Said(c), Lines)
                              /\ Sound(Said(c)) => Spared(f, c) = Intact(Said(c))
      /\ \A f \in Files \ (Structured \cup TextFiles) :
           Content(f, c) = Blank(f) /\ Spared(f, c) = Blank(f)
<1>1. ASSUME NEW f \in Structured, NEW c
      PROVE  IF Unreadable(f, c) /\ Kind[f] # "project" THEN Spared(f, c) = Left(f, <<0, 0>>)
             ELSE Spared(f, c) = Left(f, Content(f, c))
  <2>1. f \notin TextFiles /\ Left(f, <<0, 0>>) = <<0, 0>>
    BY FileKinds DEF Left
  <2>2. ASSUME ~Unreadable(f, c) \/ Kind[f] = "project"
        PROVE  Spared(f, c) = Left(f, Content(f, c))
    BY <2>1, <2>2 DEF Spared, Left
  <2>3. ASSUME Unreadable(f, c), Kind[f] # "project"
        PROVE  Spared(f, c) = <<0, 0>>
    BY <2>1, <2>3 DEF Spared
  <2> QED BY <2>1, <2>2, <2>3
<1>2. ASSUME NEW f \in TextFiles PROVE f \notin Structured
  BY FileKinds
<1>3. \A c : \A f \in TextFiles : Content(f, c) = Sift(Said(c), Lines)
  BY <1>2 DEF Content, Lines
<1>4. ASSUME NEW f \in TextFiles, NEW c, Sound(Said(c)) PROVE Spared(f, c) = Intact(Said(c))
  <2>1. Spared(f, c) = Content(f, IF Unended(Said(c)) THEN Before(c) ELSE c)
    BY <1>2, FileKinds DEF Spared, Unreadable
  <2>2. CASE Unended(Said(c))
    <3>1. c # Nothing /\ Said(c) = c
      <4>1. PICK w : w = Said(Nothing)
        BY ONLY TRUE
      <4>2. w = <<>>
        BY <4>1 DEF Said
      <4>3. ~HasBlock(w)
        BY <4>2 DEF HasBlock, Places
      <4> QED BY <2>2, <4>1, <4>3 DEF Unended, Said
    <3>2. Sound(c) /\ HasBlock(c)
      BY <1>4, <2>2, <3>1 DEF Unended
    <3>3. PICK a : a = Before(c)
      BY ONLY TRUE
    <3>4. a \in Seq(Token)
      BY <3>2, <3>3, AroundIs
    <3>5. Said(a) = a
      BY <3>4, FileKinds DEF Said
    <3>6. Spared(f, c) = Sift(a, Lines)
      BY <1>3, <2>1, <2>2, <3>3, <3>5
    <3> QED BY <2>2, <3>1, <3>3, <3>6 DEF Intact
  <2>3. CASE ~Unended(Said(c))
    <3>1. Spared(f, c) = Content(f, c)
      BY <2>1, <2>3
    <3> QED BY <1>3, <2>3, <3>1 DEF Intact
  <2> QED BY <2>2, <2>3
<1>5. ASSUME NEW f \in Files \ (Structured \cup TextFiles), NEW c
      PROVE  Content(f, c) = Blank(f) /\ Spared(f, c) = Blank(f)
  <2>1. Content(f, c) = Blank(f)
    BY <1>5 DEF Content
  <2>2. f \notin Fragile /\ ~Unreadable(f, c)
    BY <1>5, FileKinds DEF Unreadable
  <2>3. Spared(f, c) = Content(f, c)
    BY <1>5, <2>2 DEF Spared
  <2> QED BY <2>1, <2>3
<1> QED BY <1>1, <1>3, <1>4, <1>5

LEMMA HeldMore ==
    ASSUME NEW f, NEW c, NEW n \in Int, NEW m \in Int, n <= m, Held(f, c, n)
    PROVE  Held(f, c, m)
<1>1. f \in TextFiles => Len(Said(c)) \in Nat
  BY DEF Held, Sound, TextOK
<1> QED BY <1>1 DEF Held

LEMMA JobIs ==
    ASSUME ClientShape, job # Nothing
    PROVE  /\ job \in Commanded /\ job.name \in {"install", "uninstall"}
           /\ job.version \in 1..MaxRuns /\ job.version <= runs /\ runs \in Nat /\ 1 <= runs
           /\ job.listed \in SUBSET Files /\ Version = job.version
           /\ Installing <=> job.name = "install"
           /\ Uninstalling <=> job.name = "uninstall"
<1>1. job \in Commanded /\ job.version <= runs /\ runs \in 0..MaxRuns
  BY DEF ClientShape
<1>2. job.name \in {"install", "uninstall"} /\ job.version \in 1..MaxRuns /\ job.listed \in SUBSET Files
  BY <1>1 DEF Commanded
<1> QED BY <1>1, <1>2, FileKinds DEF Version, Installing, Uninstalling

\* What a command makes of a content. What did not parse is gone, but for the backup.
ResultOK(f, c, r, n) ==
    /\ Held(f, r, n + 6)
    /\ job.name = "install" => Refreshed(f, r, job.version)
    /\ job.name = "uninstall" /\ ~Unreadable(f, c) => Cleared(f, r)
    /\ \/ Content(f, r) = Spared(f, c)
       \/ Unreadable(f, c) /\ (Kind[f] = "project" \/ job.name = "uninstall")
    /\ f \in Structured /\ job.name = "install" => r # Nothing /\ r.form # "broken"

LEMMA ResultIs ==
    ASSUME ClientShape, job # Nothing, NEW f \in Files, NEW c, NEW n \in Int, Held(f, c, n)
    PROVE  ResultOK(f, c, Result(f, c), n)
<1>1. PICK v, r : v = job.version /\ r = Result(f, c)
  BY ONLY TRUE
<1>2. /\ v \in 1..MaxRuns /\ Version = v /\ job.name \in {"install", "uninstall"}
      /\ Installing <=> job.name = "install"
      /\ Uninstalling <=> job.name = "uninstall"
  BY <1>1, JobIs
<1>3. CASE f \in Structured
  <2>1. SettingsHeld(f, c) /\ f \notin TextFiles
    BY <1>3, FileKinds DEF Held
  <2>2. CASE job.name = "install"
    <3>1. r = Patched(f, c, v)
      BY <1>1, <1>2, <1>3, <2>1, <2>2 DEF Result
    <3>2. /\ SettingsHeld(f, r) /\ Refreshed(f, r, v) /\ r # Nothing /\ r.form # "broken"
          /\ Content(f, r) = Left(f, IF Unreadable(f, c) THEN <<0, 0>> ELSE Content(f, c))
      BY <1>2, <1>3, <2>1, <3>1, PatchedIs
    <3>3. Content(f, r) = Spared(f, c) \/ (Unreadable(f, c) /\ Kind[f] = "project")
      BY <1>3, <3>2, SparedIs
    <3>4. Held(f, r, n + 6)
      BY <1>3, <2>1, <3>2 DEF Held
    <3> QED BY <1>1, <2>2, <3>2, <3>3, <3>4 DEF ResultOK
  <2>3. CASE job.name = "uninstall"
    <3>1. r = Unpatched(f, c)
      BY <1>1, <1>2, <1>3, <2>1, <2>3 DEF Result
    <3>2. /\ SettingsHeld(f, r)
          /\ ~Unreadable(f, c) => Cleared(f, r) /\ Content(f, r) = Left(f, Content(f, c))
      BY <1>3, <2>1, <3>1, UnpatchedIs
    <3>3. Content(f, r) = Spared(f, c) \/ Unreadable(f, c)
      BY <1>3, <3>2, SparedIs
    <3>4. Held(f, r, n + 6)
      BY <1>3, <2>1, <3>2 DEF Held
    <3> QED BY <1>1, <2>3, <3>2, <3>3, <3>4 DEF ResultOK
  <2> QED BY <1>2, <2>2, <2>3
<1>4. CASE f \in TextFiles
  <2>1. Sound(Said(c)) /\ Len(Said(c)) <= n /\ f \notin Structured /\ Len(Said(c)) \in Nat
    BY <1>4, FileKinds DEF Held, Sound, TextOK
  <2>2. Spared(f, c) = Intact(Said(c)) /\ Content(f, r) = Sift(Said(r), Lines)
    BY <1>4, <2>1, SparedIs
  <2>3. CASE job.name = "install"
    <3>1. r = WithBlock(f, c, v)
      BY <1>1, <1>2, <1>4, <2>1, <2>3 DEF Result
    <3>2. WithBlockOK(c, r, v)
      BY <1>2, <2>1, <3>1, WithBlockIs
    <3>3. /\ Whole(r) /\ Fresh(r, v) /\ Len(r) <= Len(Said(c)) + 6
          /\ Sift(r, Lines) = Intact(Said(c))
      BY <3>2 DEF WithBlockOK
    <3>4. r \in Seq(Token) /\ r # Nothing /\ Said(r) = r /\ Len(r) \in Nat
      BY <3>3, FileKinds DEF Whole, Said
    <3>5. Len(r) <= n + 6
      BY <2>1, <3>3, <3>4
    <3>6. Held(f, r, n + 6)
      BY <1>4, <2>1, <3>3, <3>4, <3>5, WholeIsSound DEF Held
    <3>7. Refreshed(f, r, v)
      BY <1>4, <2>1, <3>3, <3>4 DEF Refreshed
    <3> QED BY <1>1, <1>4, <2>1, <2>2, <2>3, <3>3, <3>4, <3>6, <3>7 DEF ResultOK
  <2>4. CASE job.name = "uninstall"
    <3>1. r = WithoutBlock(f, c)
      BY <1>1, <1>2, <1>4, <2>1, <2>4 DEF Result
    <3>2. WithoutBlockOK(c, r)
      BY <2>1, <3>1, WithoutBlockIs
    <3>3. /\ r = Nothing \/ (r \in Seq(Token) /\ Unmarked(r))
          /\ Len(Said(r)) <= Len(Said(c))
          /\ Sift(Said(r), Lines) = Intact(Said(c))
      BY <3>2 DEF WithoutBlockOK
    <3>4. Said(r) \in Seq(Token) /\ Unmarked(Said(r)) /\ Len(Said(r)) \in Nat
      <4>1. CASE r = Nothing
        <5>1. PICK w : w = Said(r)
          BY ONLY TRUE
        <5>2. w = <<>>
          BY <4>1, <5>1 DEF Said
        <5> QED BY <5>1, <5>2, NoText
      <4>2. CASE r \in Seq(Token) /\ Unmarked(r)
        BY <4>2, FileKinds DEF Said
      <4> QED BY <3>3, <4>1, <4>2
    <3>5. Len(Said(r)) <= n + 6
      BY <2>1, <3>3, <3>4
    <3>6. Sound(Said(r))
      BY <3>4, WholeIsSound DEF Whole
    <3>7. Held(f, r, n + 6)
      BY <1>4, <2>1, <3>5, <3>6 DEF Held
    <3>8. Cleared(f, r)
      BY <1>4, <2>1, <3>4 DEF Cleared
    <3> QED BY <1>1, <1>4, <2>1, <2>2, <2>4, <3>3, <3>6, <3>7, <3>8 DEF ResultOK
  <2> QED BY <1>2, <2>3, <2>4
<1>5. CASE f \notin Structured \cup TextFiles
  <2>1. r = IF job.name = "install" THEN v ELSE Nothing
    BY <1>1, <1>2, <1>5 DEF Result
  <2>2. r \in (0..MaxRuns) \cup {Nothing}
    BY <1>2, <2>1
  <2>3. Content(f, r) = Spared(f, c)
    BY <1>5, SparedIs
  <2> QED BY <1>1, <1>2, <1>5, <2>1, <2>2, <2>3 DEF ResultOK, Held, Refreshed, Cleared
<1> QED BY <1>3, <1>4, <1>5

\* What is left alone and was not refused is as the command wants it.
LEMMA UntouchedIs ==
    ASSUME NEW f \in Files, NEW c, NEW n, Held(f, c, n), Untouched(f, c),
           f \in Structured => c = Nothing \/ Usable(c)
    PROVE  /\ \A v : Refreshed(f, Result(f, c), v) => Refreshed(f, c, v)
           /\ Cleared(f, Result(f, c)) => Cleared(f, c)
<1>1. CASE Result(f, c) = c
  BY <1>1
<1>2. CASE Result(f, c) # c
  <2>1. /\ Kind[f] = "mcp" /\ f \in Tomls /\ c # Nothing
        /\ Result(f, c) = [c EXCEPT !.own = 0]
    BY <1>2 DEF Untouched, Refused, Usable
  <2>2. f \in Structured /\ f \notin TextFiles
    BY <2>1, FileKinds DEF Structured
  <2>3. c \in SettingsOf(f)
    BY <2>1, <2>2, FieldsAre DEF Held
  <2>4. PICK r : r = [c EXCEPT !.own = 0]
    BY ONLY TRUE
  <2>5. r \in SettingsOf(f) /\ r.ours = c.ours
    BY <2>3, <2>4 DEF SettingsOf
  <2>6. r # Nothing
    BY <2>2, <2>5, NoFile
  <2>7. \A v : Refreshed(f, r, v) => Refreshed(f, c, v)
    BY <2>1, <2>2, <2>5 DEF Refreshed
  <2>8. Cleared(f, r) => Cleared(f, c)
    BY <2>1, <2>2, <2>5, <2>6 DEF Cleared
  <2> QED BY <2>1, <2>4, <2>7, <2>8
<1> QED BY <1>1, <1>2

LEMMA RoomIs ==
    ASSUME ClientShape
    PROVE  \A f \in Files : Room(f) \in Int /\ Room(f) <= edits + 6 * runs /\ edits + 6 * runs \in Int
BY FileKinds DEF ClientShape, Room

\* Nothing is being written while no command runs.
LEMMA Idle == ClientShape /\ job = Nothing => todo = {} /\ at = Nothing
BY DEF ClientShape

LEMMA InitInv == ClientInit => ClientInv
<1> SUFFICES ASSUME ClientInit PROVE ClientInv
  OBVIOUS
<1>1. PICK mine \in SUBSET (Structured \cap selected) :
        files = [f \in Files |-> IF f \in mine THEN Settings(f, "object", 0, 0) ELSE Nothing]
  BY DEF ClientInit
<1>2. /\ selected \in Selections
      /\ backup = [f \in Files |-> Nothing] /\ wanted = [f \in Files |-> Blank(f)]
      /\ job = Nothing /\ todo = {} /\ at = Nothing /\ snap = Nothing /\ saved = FALSE
      /\ runs = 0 /\ edits = 0 /\ kills = 0
  BY DEF ClientInit
<1>3. ClientShape
  <2>1. DOMAIN files = Files
    BY <1>1
  <2>2. DOMAIN backup = Files /\ DOMAIN wanted = Files
    BY <1>2
  <2>3. runs \in 0..MaxRuns /\ edits \in 0..MaxEdits /\ kills \in 0..MaxKills
    BY <1>2, FileKinds
  <2>4. /\ selected \in Selections /\ todo \subseteq Files /\ at \in todo \cup {Nothing}
        /\ saved \in BOOLEAN /\ job \in Commanded \cup {Nothing}
    BY <1>2
  <2>5. job = Nothing /\ todo = {}
    BY <1>2
  <2> QED BY <2>1, <2>2, <2>3, <2>4, <2>5, Zenon DEF ClientShape
<1>4. ASSUME NEW f \in Files
      PROVE  Held(f, files[f], Room(f)) /\ Content(f, files[f]) = wanted[f]
  <2>1. Room(f) = 0 /\ wanted[f] = Blank(f)
    BY <1>2 DEF Room
  <2>2. 0 \in 0..MaxEdits /\ 0 \in 0..MaxRuns
    BY FileKinds
  <2>3. CASE f \in mine
    <3>1. f \in Structured /\ files[f] = Settings(f, "object", 0, 0) /\ f \notin TextFiles
      BY <1>1, <2>3, FileKinds
    <3>2. PICK c : c = Settings(f, "object", 0, 0)
      BY ONLY TRUE
    <3>3. SettingsHeld(f, c) /\ Content(f, c) = <<0, 0>>
      BY <2>2, <3>1, <3>2, SettingsIs DEF Forms
    <3> QED BY <2>1, <3>1, <3>2, <3>3 DEF Held, Blank
  <2>4. CASE f \notin mine
    <3>1. files[f] = Nothing
      BY <1>1, <2>4
    <3>2. PICK w : w = Said(Nothing)
      BY ONLY TRUE
    <3>3. w = <<>>
      BY <3>2 DEF Said
    <3>4. w \in Seq(Token) /\ Len(w) = 0 /\ Unmarked(w) /\ Sift(w, Lines) = <<>>
      BY <3>3, NoText
    <3>5. Sound(w)
      BY <3>4, WholeIsSound DEF Whole
    <3>6. CASE f \in Structured
      <4>1. f \notin TextFiles
        BY <3>6, FileKinds
      <4> QED BY <2>1, <3>1, <3>6, <4>1 DEF Held, Content, SettingsHeld, SettingsOK, Blank
    <3>7. CASE f \in TextFiles
      <4>1. f \notin Structured
        BY <3>7, FileKinds
      <4>2. Content(f, Nothing) = Sift(w, Lines)
        BY <3>2, <3>7, SparedIs
      <4> QED BY <2>1, <3>1, <3>2, <3>4, <3>5, <3>7, <4>1, <4>2 DEF Held, Blank
    <3>8. CASE f \notin Structured \cup TextFiles
      BY <2>1, <3>1, <3>8 DEF Held, Content
    <3> QED BY <3>6, <3>7, <3>8
  <2> QED BY <2>3, <2>4
<1>5. job = Nothing /\ Nothing \notin Files /\ \A f \in Files : at # f /\ backup[f] = Nothing
  BY <1>2, FileKinds
<1>6. ContentsHeld
  BY <1>4, <1>5 DEF ContentsHeld
<1>7. ContentsKept
  BY <1>4 DEF ContentsKept
<1>8. VisitedDone
  BY <1>5 DEF VisitedDone
<1> QED BY <1>3, <1>6, <1>7, <1>8 DEF ClientInv

\* A command begins: there is room for what it may add.
LEMMA BeginInv ==
    ASSUME ClientInv, NEW w \in {"install", "uninstall"}, Begin(w)
    PROVE  ClientInv'
<1>1. /\ job = Nothing /\ runs < MaxRuns /\ runs' = runs + 1
      /\ job' = [name |-> w, version |-> runs + 1, listed |-> Targets(w)] /\ todo' = Targets(w)
      /\ UNCHANGED <<selected, files, backup, at, snap, saved, wanted, edits, kills>>
  BY DEF Begin
<1>2. ClientShape /\ ContentsHeld /\ ContentsKept /\ VisitedDone
  BY DEF ClientInv
<1>3. todo = {} /\ at = Nothing /\ \A f \in Files : at # f
  BY <1>1, <1>2, Idle, FileKinds
<1>4. Targets(w) \in SUBSET Files
  <2>1. selected \in SUBSET Files
    BY <1>2, ClientFilesAssumption DEF ClientShape
  <2> QED BY <2>1 DEF Targets
<1>5. runs + 1 \in 1..MaxRuns /\ runs' \in 0..MaxRuns
  BY <1>1, <1>2, FileKinds DEF ClientShape
<1>6. job' \in Commanded /\ job'.version = runs' /\ job'.listed = Targets(w) /\ runs' \in Nat
  BY <1>1, <1>4, <1>5 DEF Commanded
<1>7. ClientShape'
  <2>1. todo' \subseteq Files /\ at' \in todo' \cup {Nothing}
    BY <1>1, <1>3, <1>4
  <2>2. job' # Nothing /\ job'.version <= runs'
    BY <1>6, FileKinds
  <2> QED BY <1>1, <1>2, <1>5, <1>6, <2>1, <2>2 DEF ClientShape
<1>8. ASSUME NEW f \in Files PROVE Room(f) \in Int /\ Room(f)' \in Int /\ Room(f) <= Room(f)'
  BY <1>1, <1>2, <1>3 DEF Room, ClientShape
<1>9. ContentsHeld'
  <2>1. ASSUME NEW f \in Files PROVE Held(f, files[f], Room(f))'
    <3>1. Held(f, files[f], Room(f)')
      BY <1>2, <1>8, HeldMore DEF ContentsHeld
    <3> QED BY <1>1, <3>1 DEF Held
  <2>2. ASSUME NEW f \in Files
        PROVE  /\ at' # f
               /\ backup'[f] # Nothing => Kind[f] = "project" /\ SettingsOK(f, backup'[f])
    BY <1>1, <1>2, <1>3 DEF ContentsHeld
  <2>3. \A f \in Files : SettingsOK(f, backup'[f]) <=> SettingsOK(f, backup[f])'
    BY DEF SettingsOK
  <2> QED BY <2>1, <2>2, <2>3 DEF ContentsHeld
<1>10. ContentsKept'
  BY <1>1, <1>2 DEF ContentsKept, Recovers, Content, Unreadable
<1>11. VisitedDone'
  BY <1>1, <1>3, <1>6, FileKinds DEF VisitedDone
<1> QED BY <1>7, <1>9, <1>10, <1>11 DEF ClientInv

\* A command ends, or is stopped between two files.
LEMMA StoppedInv ==
    ASSUME ClientInv, job' = Nothing, todo' = {}, at' = Nothing, snap' = Nothing \/ snap' = snap,
           saved' \in BOOLEAN, kills' \in 0..MaxKills,
           UNCHANGED <<selected, files, backup, wanted, runs, edits>>
    PROVE  ClientInv'
<1>1. /\ job' = Nothing /\ todo' = {} /\ at' = Nothing /\ saved' \in BOOLEAN /\ kills' \in 0..MaxKills
      /\ UNCHANGED <<selected, files, backup, wanted, runs, edits>>
  OBVIOUS
<1>2. ClientShape /\ ContentsHeld /\ ContentsKept /\ VisitedDone
  BY DEF ClientInv
<1>3. \A f \in Files : at' # f
  BY <1>1, FileKinds
<1>4. ClientShape'
  BY <1>1, <1>2 DEF ClientShape
<1>5. ASSUME NEW f \in Files PROVE Room(f) \in Int /\ Room(f)' \in Int /\ Room(f) <= Room(f)'
  BY <1>1, <1>2 DEF Room, ClientShape
<1>6. ContentsHeld'
  <2>1. ASSUME NEW f \in Files PROVE Held(f, files[f], Room(f))'
    <3>1. Held(f, files[f], Room(f)')
      BY <1>2, <1>5, HeldMore DEF ContentsHeld
    <3> QED BY <1>1, <3>1 DEF Held
  <2>2. ASSUME NEW f \in Files
        PROVE  /\ at' # f
               /\ backup'[f] # Nothing => Kind[f] = "project" /\ SettingsOK(f, backup'[f])
    BY <1>1, <1>2, <1>3 DEF ContentsHeld
  <2>3. \A f \in Files : SettingsOK(f, backup'[f]) <=> SettingsOK(f, backup[f])'
    BY DEF SettingsOK
  <2> QED BY <2>1, <2>2, <2>3 DEF ContentsHeld
<1>7. ContentsKept'
  BY <1>1, <1>2, <1>3 DEF ContentsKept, Recovers, Content, Unreadable
<1>8. VisitedDone'
  BY <1>1, <1>3, FileKinds DEF VisitedDone
<1> QED BY <1>4, <1>6, <1>7, <1>8 DEF ClientInv

LEMMA EndInv ==
    ASSUME ClientInv, NEW w \in {"install", "uninstall"}, End(w)
    PROVE  ClientInv'
<1>1. /\ job' = Nothing /\ todo' = {} /\ at' = Nothing /\ snap' = snap
      /\ UNCHANGED <<selected, files, backup, todo, saved, wanted, runs, edits, kills>>
  BY DEF End, bounds
<1>2. saved' \in BOOLEAN /\ kills' \in 0..MaxKills
  BY <1>1 DEF ClientInv, ClientShape
<1> QED BY <1>1, <1>2, StoppedInv

LEMMA PanicInv ==
    ASSUME ClientInv, NEW f \in Files, Panic(f)
    PROVE  ClientInv'
<1>1. /\ job' = Nothing /\ todo' = {} /\ at' = Nothing /\ snap' = snap
      /\ UNCHANGED <<selected, files, backup, saved, wanted, runs, edits, kills>>
  BY DEF Panic, bounds
<1>2. saved' \in BOOLEAN /\ kills' \in 0..MaxKills
  BY <1>1 DEF ClientInv, ClientShape
<1> QED BY <1>1, <1>2, StoppedInv

LEMMA CrashBetweenInv ==
    ASSUME ClientInv, CrashBetween
    PROVE  ClientInv'
<1>1. /\ job' = Nothing /\ todo' = {} /\ at' = Nothing /\ snap' = Nothing /\ saved' = FALSE
      /\ kills' = kills + 1 /\ kills < MaxKills
      /\ UNCHANGED <<selected, files, backup, wanted, runs, edits>>
  BY DEF CrashBetween, Stop
<1>2. kills \in 0..MaxKills /\ MaxKills \in Nat
  BY FileKinds DEF ClientInv, ClientShape
<1>3. kills' \in 0..MaxKills
  BY <1>1, <1>2
<1>4. saved' \in BOOLEAN
  BY <1>1, Zenon
<1> QED BY <1>1, <1>3, <1>4, StoppedInv

\* A file that the command leaves alone.
LEMMA PassInv ==
    ASSUME ClientInv, NEW f \in Files, Pass(f)
    PROVE  ClientInv'
<1>1. /\ job # Nothing /\ at = Nothing /\ f \in todo /\ Untouched(f, files[f])
      /\ todo' = todo \ {f}
      /\ job' = IF f \in Structured /\ files[f] # Nothing /\ ~Usable(files[f])
                THEN [job EXCEPT !.listed = @ \ {f}] ELSE job
      /\ UNCHANGED <<selected, files, backup, at, snap, saved, wanted, runs, edits, kills>>
  BY DEF Pass, bounds
<1>2. ClientShape /\ ContentsHeld /\ ContentsKept /\ VisitedDone
  BY DEF ClientInv
<1>3. /\ job \in Commanded /\ job.name \in {"install", "uninstall"}
      /\ job.version \in 1..MaxRuns /\ job.version <= runs /\ job.listed \in SUBSET Files
  BY <1>1, <1>2, JobIs
<1>4. /\ job' \in Commanded /\ job'.name = job.name /\ job'.version = job.version
      /\ job'.listed \in SUBSET job.listed
      /\ f \in job'.listed /\ f \in Structured => files[f] = Nothing \/ Usable(files[f])
  <2>1. CASE ~(f \in Structured /\ files[f] # Nothing /\ ~Usable(files[f]))
    BY <1>1, <1>3, <2>1
  <2>2. CASE f \in Structured /\ files[f] # Nothing /\ ~Usable(files[f])
    <3>1. job' = [job EXCEPT !.listed = @ \ {f}]
      BY <1>1, <2>2
    <3>2. job = [name |-> job.name, version |-> job.version, listed |-> job.listed]
      BY <1>3 DEF Commanded
    <3>3. job' = [name |-> job.name, version |-> job.version, listed |-> job.listed \ {f}]
      BY <3>1, <3>2
    <3>4. job.listed \ {f} \in SUBSET Files
      BY <1>3
    <3>5. job' \in Commanded
      BY <1>3, <3>3, <3>4 DEF Commanded
    <3> QED BY <3>3, <3>5
  <2> QED BY <2>1, <2>2
<1>5. job' # Nothing /\ \A g \in Files : at' # g
  BY <1>1, <1>4, FileKinds
<1>6. ClientShape'
  <2>1. todo' \subseteq Files /\ at' \in todo' \cup {Nothing}
    BY <1>1, <1>2 DEF ClientShape
  <2> QED BY <1>1, <1>2, <1>3, <1>4, <1>5, <2>1 DEF ClientShape
<1>7. ASSUME NEW g \in Files PROVE Room(g) \in Int /\ Room(g)' \in Int /\ Room(g) <= Room(g)'
  BY <1>1, <1>2 DEF Room, ClientShape
<1>8. ContentsHeld'
  <2>1. ASSUME NEW g \in Files PROVE Held(g, files[g], Room(g))'
    <3>1. Held(g, files[g], Room(g)')
      BY <1>2, <1>7, HeldMore DEF ContentsHeld
    <3> QED BY <1>1, <3>1 DEF Held
  <2>2. ASSUME NEW g \in Files
        PROVE  /\ at' # g
               /\ backup'[g] # Nothing => Kind[g] = "project" /\ SettingsOK(g, backup'[g])
    BY <1>1, <1>2, <1>5 DEF ContentsHeld
  <2>3. \A g \in Files : SettingsOK(g, backup'[g]) <=> SettingsOK(g, backup[g])'
    BY DEF SettingsOK
  <2> QED BY <2>1, <2>2, <2>3 DEF ContentsHeld
<1>9. ContentsKept'
  BY <1>1, <1>2, <1>5 DEF ContentsKept, Recovers, Content, Unreadable
<1>10. VisitedDone'
  <2>1. ASSUME NEW g \in Files, g \in job'.listed \ todo'
        PROVE  /\ job.name = "install" => Refreshed(g, files[g], job.version)
               /\ job.name = "uninstall" => Cleared(g, files[g])
    <3>1. CASE g # f
      BY <1>1, <1>2, <1>4, <2>1, <3>1 DEF VisitedDone
    <3>2. CASE g = f
      <4>1. f \in Structured => files[f] = Nothing \/ Usable(files[f])
        BY <1>4, <2>1, <3>2
      <4>2. Held(f, files[f], Room(f)) /\ Room(f) \in Int
        BY <1>2, <1>7 DEF ContentsHeld
      <4>3. PICK r : r = Result(f, files[f])
        BY ONLY TRUE
      <4>4. ResultOK(f, files[f], r, Room(f))
        BY <1>1, <1>2, <4>2, <4>3, ResultIs
      <4>5. ~Unreadable(f, files[f])
        BY <4>1 DEF Unreadable, Usable
      <4>6. /\ job.name = "install" => Refreshed(f, r, job.version)
            /\ job.name = "uninstall" => Cleared(f, r)
        BY <4>4, <4>5 DEF ResultOK
      <4>7. /\ \A v : Refreshed(f, r, v) => Refreshed(f, files[f], v)
            /\ Cleared(f, r) => Cleared(f, files[f])
        BY <1>1, <4>1, <4>2, <4>3, UntouchedIs
      <4> QED BY <3>2, <4>6, <4>7
    <3> QED BY <3>1, <3>2
  <2> QED BY <1>1, <1>4, <2>1 DEF VisitedDone, Refreshed, Cleared
<1> QED BY <1>6, <1>8, <1>9, <1>10 DEF ClientInv

\* The command reads a file that it will write.
LEMMA ReadInv ==
    ASSUME ClientInv, NEW f \in Files, Read(f)
    PROVE  ClientInv'
<1>1. /\ job # Nothing /\ at = Nothing /\ f \in todo /\ ~Untouched(f, files[f])
      /\ at' = f /\ snap' = files[f] /\ saved' = FALSE
      /\ UNCHANGED <<selected, files, backup, job, todo, wanted, runs, edits, kills>>
  BY DEF Read, bounds
<1>2. ClientShape /\ ContentsHeld /\ ContentsKept /\ VisitedDone
  BY DEF ClientInv
<1>3. \A g \in Files : at' = g => g = f
  BY <1>1
<1>4. ClientShape'
  BY <1>1, <1>2 DEF ClientShape
<1>5. ContentsHeld'
  <2>1. ASSUME NEW g \in Files
        PROVE  Held(g, files[g], Room(g))' /\ (at' = g => Held(g, snap, Room(g))')
    <3>1. Held(g, files[g], Room(g)) /\ Room(g)' = Room(g)
      BY <1>1, <1>2 DEF ContentsHeld, Room
    <3>2. Held(g, files[g], Room(g))'
      BY <1>1, <3>1 DEF Held
    <3>3. at' = g => Held(g, snap, Room(g))'
      BY <1>1, <1>3, <3>1 DEF Held
    <3> QED BY <3>2, <3>3
  <2>2. ASSUME NEW g \in Files
        PROVE  backup'[g] # Nothing => Kind[g] = "project" /\ SettingsOK(g, backup'[g])
    BY <1>1, <1>2 DEF ContentsHeld
  <2>3. \A g \in Files : SettingsOK(g, backup'[g]) <=> SettingsOK(g, backup[g])'
    BY DEF SettingsOK
  <2> QED BY <1>1, <2>1, <2>2, <2>3 DEF ContentsHeld
<1>a. Held(f, files[f], Room(f))
  BY <1>2 DEF ContentsHeld
<1>b. /\ job.version \in 1..MaxRuns /\ Version = job.version /\ job.name \in {"install", "uninstall"}
      /\ Installing <=> job.name = "install"
  BY <1>1, <1>2, JobIs
<1>6. ContentsKept'
  <2>1. ASSUME Kind[f] = "project", Recovers(f) PROVE Unreadable(f, files[f])
    <3>1. f \in Structured /\ SettingsHeld(f, files[f]) /\ f \notin TextFiles
      BY <1>a, <2>1, FileKinds DEF Held
    <3>2. ASSUME ~Unreadable(f, files[f]) PROVE FALSE
      <4>1. files[f] # Nothing /\ files[f].form # "broken" /\ files[f].ours["hooks"] # 0
        BY <2>1, <3>1, <3>2 DEF Recovers, Unreadable
      <4>2. Patched(f, files[f], Version) = files[f] /\ Unpatched(f, files[f]) = files[f]
        BY <1>b, <2>1, <3>1, <4>1, ProjectIs
      <4>3. Result(f, files[f]) = files[f]
        BY <3>1, <4>2 DEF Result
      <4> QED BY <1>1, <2>1, <4>3 DEF Untouched
    <3> QED BY <3>2
  <2>2. ASSUME NEW g \in Files, Kind[g] = "project", Recovers(g) PROVE Recovers(g)'
    <3>1. CASE g = f
      BY <1>1, <2>1, <2>2, <3>1 DEF Recovers, Unreadable
    <3>2. CASE g # f
      BY <1>1, <1>3, <2>2, <3>2 DEF Recovers, Unreadable
    <3> QED BY <3>1, <3>2
  <2>3. \A g \in Files : /\ Content(g, files[g])' = Content(g, files[g])
                         /\ Content(g, backup[g])' = Content(g, backup[g])
    BY <1>1 DEF Content
  <2> QED BY <1>1, <1>2, <2>2, <2>3 DEF ContentsKept
<1>7. VisitedDone'
  <2>1. ASSUME job.name = "uninstall" PROVE ~Unreadable(f, files[f])
    <3>1. ASSUME Unreadable(f, files[f]) PROVE FALSE
      <4>1. f \in Structured /\ SettingsHeld(f, files[f])
        BY <1>a, <3>1 DEF Held, Unreadable
      <4>2. Unpatched(f, files[f]) = files[f]
        BY <3>1, <4>1, UnpatchedIs
      <4>3. Result(f, files[f]) = files[f]
        BY <1>b, <2>1, <4>1, <4>2, FileKinds DEF Result
      <4> QED BY <1>1, <3>1, <4>3 DEF Untouched, Refused, Unreadable
    <3> QED BY <3>1
  <2>2. \A g \in Files : job # Nothing /\ g \in job.listed \ todo =>
          /\ job.name = "install" => Refreshed(g, files[g], job.version)
          /\ job.name = "uninstall" => Cleared(g, files[g])
    BY <1>2 DEF VisitedDone
  <2> QED BY <1>1, <2>1, <2>2 DEF VisitedDone, Refreshed, Cleared, Unreadable
<1> QED BY <1>4, <1>5, <1>6, <1>7 DEF ClientInv

\* What was in the backup only, and is replaced, is given up; nothing else is.
LEMMA ReplacesIs ==
    ASSUME ClientShape, ContentsKept, at \in Files, Replaces
    PROVE  /\ DOMAIN wanted' = Files /\ Content(at, files[at]) = wanted'[at]
           /\ \A g \in Files : g # at => wanted'[g] = wanted[g]
<1>1. DOMAIN wanted = Files
  BY DEF ClientShape
<1>2. CASE Unreadable(at, snap)
  BY <1>1, <1>2 DEF Replaces
<1>3. CASE ~Unreadable(at, snap)
  <2>1. wanted' = wanted
    BY <1>3 DEF Replaces
  <2>2. ~Recovers(at)
    BY <1>3 DEF Recovers
  <2> QED BY <1>1, <2>1, <2>2 DEF ContentsKept
<1> QED BY <1>2, <1>3

\* The backup of a project file is written.
LEMMA BackUpInv ==
    ASSUME ClientInv, BackUp
    PROVE  ClientInv'
<1>1. /\ at # Nothing /\ Kind[at] = "project" /\ ~saved
      /\ backup' = [backup EXCEPT ![at] = snap] /\ saved' = TRUE
      /\ UNCHANGED <<selected, files, job, todo, at, snap, runs, edits, kills>>
      /\ Replaces
  BY DEF BackUp, bounds
<1>2. ClientShape /\ ContentsHeld /\ ContentsKept /\ VisitedDone
  BY DEF ClientInv
<1>3. at \in Files /\ at \in todo /\ at \in Structured /\ SettingsHeld(at, snap)
  <2>1. at \in Files /\ at \in todo
    BY <1>1, <1>2 DEF ClientShape
  <2>2. at \in Structured
    BY <1>1, <2>1, FileKinds
  <2> QED BY <1>2, <2>1, <2>2 DEF ContentsHeld, Held
<1>r. /\ DOMAIN wanted' = Files /\ Content(at, files[at]) = wanted'[at]
      /\ \A g \in Files : g # at => wanted'[g] = wanted[g]
  BY <1>1, <1>2, <1>3, ReplacesIs
<1>4. /\ DOMAIN backup' = Files /\ backup'[at] = snap
      /\ \A g \in Files : g # at => backup'[g] = backup[g]
  BY <1>1, <1>2, <1>3 DEF ClientShape
<1>5. ClientShape'
  <2>1. saved' \in BOOLEAN
    BY <1>1, Zenon
  <2> QED BY <1>1, <1>2, <1>4, <1>r, <2>1 DEF ClientShape
<1>6. ContentsHeld'
  <2>1. ASSUME NEW g \in Files
        PROVE  Held(g, files[g], Room(g))' /\ (at' = g => Held(g, snap, Room(g))')
    <3>1. Held(g, files[g], Room(g)) /\ (at = g => Held(g, snap, Room(g))) /\ Room(g)' = Room(g)
      BY <1>1, <1>2 DEF ContentsHeld, Room
    <3> QED BY <1>1, <3>1 DEF Held
  <2>2. ASSUME NEW g \in Files
        PROVE  backup'[g] # Nothing => Kind[g] = "project" /\ SettingsOK(g, backup'[g])
    <3>1. CASE g = at
      BY <1>1, <1>3, <1>4, <3>1 DEF SettingsHeld
    <3>2. CASE g # at
      BY <1>2, <1>4, <3>2 DEF ContentsHeld
    <3> QED BY <3>1, <3>2
  <2>3. \A g \in Files : SettingsOK(g, backup'[g]) <=> SettingsOK(g, backup[g])'
    BY DEF SettingsOK
  <2>4. \A g \in Files : at' = g => backup'[g] = snap'
    BY <1>1, <1>4
  <2> QED BY <2>1, <2>2, <2>3, <2>4 DEF ContentsHeld
<1>7. ContentsKept'
  <2>1. ASSUME NEW g \in Files, g # at, Recovers(g) PROVE Recovers(g)'
    BY <1>1, <2>1 DEF Recovers, Unreadable
  <2>2. ASSUME NEW g \in Files
        PROVE  \/ Content(g, files[g]) = wanted'[g]
               \/ Kind[g] = "project" /\ Content(g, backup'[g]) = wanted'[g] /\ Recovers(g)'
    <3>1. CASE g = at
      BY <1>r, <3>1
    <3>2. CASE g # at
      BY <1>2, <1>4, <1>r, <2>1, <3>2 DEF ContentsKept
    <3> QED BY <3>1, <3>2
  <2> QED BY <1>1, <2>2 DEF ContentsKept, Content
<1>8. VisitedDone'
  BY <1>1, <1>2 DEF VisitedDone, Refreshed, Cleared, Unreadable
<1> QED BY <1>5, <1>6, <1>7, <1>8 DEF ClientInv

\* What the file that is being written is, and what will be written.
LEMMA WritingIs ==
    ASSUME ClientInv, at # Nothing
    PROVE  /\ at \in Files /\ at \in todo /\ job # Nothing /\ Held(at, snap, Room(at))
           /\ Room(at) = edits + 6 * (runs - 1) /\ ResultOK(at, snap, Result(at, snap), Room(at))
           /\ Held(at, Result(at, snap), edits + 6 * runs)
<1>1. ClientShape /\ ContentsHeld /\ at \in Files /\ at \in todo /\ job # Nothing
  BY DEF ClientInv, ClientShape
<1>2. Held(at, snap, Room(at)) /\ Room(at) \in Int
  BY <1>1, RoomIs DEF ContentsHeld
<1>3. Room(at) = edits + 6 * (runs - 1) /\ Room(at) + 6 = edits + 6 * runs
  BY <1>1 DEF Room, ClientShape
<1>4. ResultOK(at, snap, Result(at, snap), Room(at))
  BY <1>1, <1>2, ResultIs
<1>5. Held(at, Result(at, snap), Room(at) + 6)
  BY <1>4 DEF ResultOK
<1> QED BY <1>1, <1>2, <1>3, <1>4, <1>5

\* The other files are as they were, and this one has what is wanted.
LEMMA OthersKept ==
    ASSUME ContentsKept, NEW f \in Files,
           \A g \in Files : g # f => /\ files'[g] = files[g] /\ backup'[g] = backup[g]
                                    /\ wanted'[g] = wanted[g] /\ at' # g,
           \/ Content(f, files'[f]) = wanted'[f]
           \/ Kind[f] = "project" /\ Content(f, backup'[f]) = wanted'[f] /\ Recovers(f)'
    PROVE  ContentsKept'
<1>1. ASSUME NEW g \in Files, g # f, Recovers(g) PROVE Recovers(g)'
  BY <1>1 DEF Recovers, Unreadable
<1>2. ASSUME NEW g \in Files
      PROVE  \/ Content(g, files'[g]) = wanted'[g]
             \/ Kind[g] = "project" /\ Content(g, backup'[g]) = wanted'[g] /\ Recovers(g)'
  <2>1. CASE g = f
    BY <2>1
  <2>2. CASE g # f
    BY <1>1, <2>2 DEF ContentsKept
  <2> QED BY <2>1, <2>2
<1> QED BY <1>2 DEF ContentsKept, Content, Said

\* The file is written.
LEMMA WriteInv ==
    ASSUME ClientInv, Write
    PROVE  ClientInv'
<1>0. PICK r : r = Result(at, snap)
  BY ONLY TRUE
<1>1. /\ at # Nothing /\ files' = [files EXCEPT ![at] = r]
      /\ wanted' = [wanted EXCEPT ![at] = Spared(at, snap)] /\ (Kind[at] = "project" => saved)
      /\ todo' = todo \ {at} /\ at' = Nothing /\ snap' = Nothing /\ saved' = FALSE
      /\ UNCHANGED <<selected, backup, job, runs, edits, kills>>
  BY <1>0 DEF Write, bounds
<1>2. ClientShape /\ ContentsHeld /\ ContentsKept /\ VisitedDone
  BY DEF ClientInv
<1>3. /\ at \in Files /\ at \in todo /\ job # Nothing
      /\ ResultOK(at, snap, r, Room(at)) /\ Held(at, r, edits + 6 * runs)
  BY <1>0, <1>1, WritingIs
<1>4. /\ DOMAIN files' = Files /\ files'[at] = r
      /\ \A g \in Files : g # at => files'[g] = files[g]
      /\ DOMAIN wanted' = Files /\ wanted'[at] = Spared(at, snap)
      /\ \A g \in Files : g # at => wanted'[g] = wanted[g]
  BY <1>1, <1>2, <1>3 DEF ClientShape
<1>5. \A g \in Files : at' # g
  BY <1>1, FileKinds
<1>6. ClientShape'
  <2>1. todo' \subseteq Files
    BY <1>1, <1>2, <1>3 DEF ClientShape
  <2>2. saved' \in BOOLEAN
    BY <1>1, Zenon
  <2> QED BY <1>1, <1>2, <1>3, <1>4, <2>1, <2>2 DEF ClientShape
<1>7. ContentsHeld'
  <2>1. ASSUME NEW g \in Files PROVE Held(g, files[g], Room(g))'
    <3>1. CASE g = at
      <4>1. Room(g)' = edits + 6 * runs
        BY <1>1, <3>1 DEF Room
      <4> QED BY <1>3, <1>4, <3>1, <4>1 DEF Held
    <3>2. CASE g # at
      <4>1. Held(g, files[g], Room(g)) /\ Room(g)' = Room(g)
        BY <1>1, <1>2, <3>2 DEF ContentsHeld, Room
      <4> QED BY <1>4, <3>2, <4>1 DEF Held
    <3> QED BY <3>1, <3>2
  <2>2. ASSUME NEW g \in Files
        PROVE  backup'[g] # Nothing => Kind[g] = "project" /\ SettingsOK(g, backup'[g])
    BY <1>1, <1>2 DEF ContentsHeld
  <2>3. \A g \in Files : SettingsOK(g, backup'[g]) <=> SettingsOK(g, backup[g])'
    BY DEF SettingsOK
  <2> QED BY <1>5, <2>1, <2>2, <2>3 DEF ContentsHeld
<1>8. ContentsKept'
  <2>1. CASE Content(at, r) = Spared(at, snap)
    BY <1>4, <2>1, OthersKept, <1>2, <1>1, <1>3, <1>5
  <2>2. CASE Content(at, r) # Spared(at, snap)
    <3>1. Unreadable(at, snap) /\ (Kind[at] = "project" \/ job.name = "uninstall")
      BY <1>3, <2>2 DEF ResultOK
    <3>2. job.name # "uninstall"
      BY <1>1, <1>2, <1>3, <3>1 DEF VisitedDone
    <3>3. Kind[at] = "project" /\ job.name = "install" /\ backup[at] = snap /\ at \in Structured
      BY <1>1, <1>2, <1>3, <3>1, <3>2, JobIs, FileKinds DEF ContentsHeld
    <3>4. Spared(at, snap) = Content(at, snap)
      BY <1>3, <3>3, SparedIs, FileKinds DEF Left
    <3>5. r # Nothing /\ r.form # "broken" /\ r.ours["hooks"] # 0
      <4>1. Refreshed(at, r, job.version) /\ r # Nothing /\ r.form # "broken"
        BY <1>3, <3>3 DEF ResultOK
      <4>2. "hooks" \in Parts(at)
        BY <3>3 DEF Parts
      <4> QED BY <3>3, <4>1, <4>2 DEF Refreshed
    <3>6. PICK f : f = at
      BY ONLY TRUE
    <3>7. Recovers(f)'
      BY <1>1, <1>3, <1>4, <1>5, <3>5, <3>6 DEF Recovers, Unreadable
    <3>8. Content(f, backup'[f]) = wanted'[f]
      BY <1>1, <1>4, <3>3, <3>4, <3>6
    <3>9. /\ f \in Files /\ Kind[f] = "project"
          /\ \A g \in Files : g # f => /\ files'[g] = files[g] /\ backup'[g] = backup[g]
                                      /\ wanted'[g] = wanted[g] /\ at' # g
      BY <1>1, <1>3, <1>4, <1>5, <3>3, <3>6
    <3> QED BY <1>2, <3>7, <3>8, <3>9, OthersKept
  <2> QED BY <2>1, <2>2
<1>9. VisitedDone'
  <2>1. ASSUME NEW g \in Files, g \in job.listed \ todo'
        PROVE  /\ job.name = "install" => Refreshed(g, files'[g], job.version)
               /\ job.name = "uninstall" => Cleared(g, files'[g])
    <3>1. CASE g # at
      BY <1>1, <1>2, <1>3, <1>4, <2>1, <3>1 DEF VisitedDone
    <3>2. CASE g = at
      <4>1. job.name = "uninstall" => ~Unreadable(at, snap)
        BY <1>1, <1>2, <1>3 DEF VisitedDone
      <4> QED BY <1>3, <1>4, <3>2, <4>1 DEF ResultOK
    <3> QED BY <3>1, <3>2
  <2> QED BY <1>1, <2>1 DEF VisitedDone, Refreshed, Cleared, Said, Fresh
<1> QED BY <1>6, <1>7, <1>8, <1>9 DEF ClientInv

\* A settings file that is cut short does not parse, or it is an empty object.
LEMMA CutSettings ==
    ASSUME NEW f \in Structured, NEW r, NEW cut \in Cut(f, r)
    PROVE  /\ SettingsHeld(f, cut)
           /\ Kind[f] = "project" => Unreadable(f, cut)
<1>1. f \notin TextFiles /\ Kind[f] \in {"config", "settings", "project", "mcp"}
  BY FileKinds DEF Structured
<1>2. 0 \in 0..MaxEdits /\ 0 \in 0..MaxRuns
  BY FileKinds
<1>3. ASSUME NEW form \in Forms, cut = Settings(f, form, 0, 0)
      PROVE  SettingsHeld(f, cut) /\ (form = "broken" => Unreadable(f, cut))
  <2>1. SettingsHeld(f, cut) /\ cut # Nothing /\ cut.form = form
    BY <1>2, <1>3, SettingsIs
  <2> QED BY <2>1 DEF Unreadable
<1>4. CASE Kind[f] \in {"config", "mcp"}
  <2>1. Cut(f, r) = {Settings(f, form, 0, 0) : form \in {"broken", "object"}}
    BY <1>1, <1>4 DEF Cut
  <2>2. cut = Settings(f, "broken", 0, 0) \/ cut = Settings(f, "object", 0, 0)
    BY <2>1
  <2> QED BY <1>3, <1>4, <2>2 DEF Forms
<1>5. CASE Kind[f] \in {"settings", "project"}
  <2>1. Cut(f, r) = {Settings(f, "broken", 0, 0)}
    BY <1>1, <1>5 DEF Cut
  <2> QED BY <1>3, <2>1 DEF Forms
<1> QED BY <1>1, <1>4, <1>5

\* What a crash leaves of what was being written.
LEMMA CutHeld ==
    ASSUME NEW f \in Files, NEW n \in Int, NEW r, r # Nothing, Held(f, r, n), Held(f, files[f], n),
           NEW cut \in Cut(f, r)
    PROVE  /\ Held(f, cut, n)
           /\ Kind[f] = "project" => Unreadable(f, cut)
<1>1. CASE f \in Structured
  <2>1. SettingsHeld(f, cut) /\ (Kind[f] = "project" => Unreadable(f, cut)) /\ f \notin TextFiles
    BY <1>1, CutSettings, FileKinds
  <2> QED BY <1>1, <2>1 DEF Held
<1>2. CASE f \in TextFiles
  <2>1. r \in Seq(Token) /\ Sound(r) /\ Len(r) <= n /\ Len(r) \in Nat
    BY <1>2 DEF Held, Said, Sound, TextOK
  <2>2. /\ Kind[f] \in {"block", "hook"} /\ f \notin Structured
        /\ Cut(f, r) = {SubSeq(r, 1, m) : m \in 0..(Len(r) - 1)}
                       \cup {Append(SubSeq(r, 1, m), Word("scrap")) : m \in 0..(Len(r) - 1)}
    <3>1. Kind[f] \in {"block", "hook"} /\ f \notin Structured
      BY <1>2, FileKinds DEF TextFiles
    <3> QED BY <1>2, <3>1 DEF Cut
  <2>3. PICK m \in 0..(Len(r) - 1) :
          cut = SubSeq(r, 1, m) \/ cut = Append(SubSeq(r, 1, m), Word("scrap"))
    BY <2>2
  <2>4. PICK x, w : x = SubSeq(r, 1, m) /\ w = Word("scrap")
    BY ONLY TRUE
  <2>5. m \in 0..Len(r) /\ m \in Nat /\ m + 1 <= Len(r)
    BY <2>1
  <2>6. Sound(x) /\ Len(x) = m
    BY <2>1, <2>4, <2>5, CutIs
  <2>7. x \in Seq(Token) /\ w \in Token /\ w[1] \notin Marks
    BY <2>4, <2>6, Tokens DEF Sound, TextOK, Marks
  <2>8. Sound(x \o <<w>>) /\ Len(x \o <<w>>) = m + 1
    BY <2>6, <2>7, AddedToken DEF Adds
  <2>9. Append(x, w) = x \o <<w>>
    BY <2>7, AppendIsConcat
  <2>10. Sound(cut) /\ Len(cut) <= n
    <3>1. cut = x \/ cut = x \o <<w>>
      BY <2>3, <2>4, <2>9
    <3>2. m <= n /\ m + 1 <= n
      BY <2>1, <2>5
    <3> QED BY <2>6, <2>8, <3>1, <3>2
  <2>11. Said(cut) = cut
    BY <2>10, FileKinds DEF Sound, TextOK, Said
  <2> QED BY <1>2, <2>2, <2>10, <2>11 DEF Held
<1>3. CASE f \notin Structured \cup TextFiles
  <2>1. Kind[f] \in {"own", "loose", "side"}
    BY <1>3, FileKinds
  <2>2. CASE Kind[f] \in {"own", "loose"}
    <3>1. cut = Torn
      BY <1>3, <2>2 DEF Cut
    <3> QED BY <1>3, <2>2, <3>1 DEF Held
  <2>3. CASE Kind[f] = "side"
    <3>1. cut = files[f]
      BY <1>3, <2>3 DEF Cut
    <3> QED BY <2>3, <3>1
  <2> QED BY <2>1, <2>2, <2>3
<1> QED BY <1>1, <1>2, <1>3

\* A crash while a file, or its backup, is written.
LEMMA CrashInWriteInv ==
    ASSUME ClientInv, CrashInWrite
    PROVE  ClientInv'
<1>0. PICK r : r = Result(at, snap)
  BY ONLY TRUE
<1>1. /\ at # Nothing /\ kills < MaxKills /\ r # Nothing
      /\ kills' = kills + 1
      /\ job' = Nothing /\ todo' = {} /\ at' = Nothing /\ snap' = Nothing /\ saved' = FALSE
      /\ UNCHANGED <<selected, runs, edits>>
  BY <1>0 DEF CrashInWrite, Stop
<1>2. ClientShape /\ ContentsHeld /\ ContentsKept /\ VisitedDone
  BY DEF ClientInv
<1>3. /\ at \in Files /\ at \in todo /\ Held(at, snap, Room(at)) /\ Held(at, r, edits + 6 * runs)
      /\ Held(at, files[at], Room(at)) /\ Room(at) <= edits + 6 * runs
      /\ Room(at) \in Int /\ edits + 6 * runs \in Int
  BY <1>0, <1>1, <1>2, WritingIs, RoomIs DEF ContentsHeld
<1>4. \A g \in Files : at' # g
  BY <1>1, FileKinds
<1>5. ASSUME NEW g \in Files
      PROVE  Room(g) \in Int /\ Room(g)' = edits + 6 * runs /\ Room(g) <= Room(g)' /\ Room(g)' \in Int
  <2>1. Room(g)' = edits + 6 * runs
    BY <1>1 DEF Room
  <2> QED BY <1>2, <2>1, RoomIs
<1>6. kills' \in 0..MaxKills
  <2>1. kills \in 0..MaxKills /\ MaxKills \in Nat
    BY <1>2, FileKinds DEF ClientShape
  <2> QED BY <1>1, <2>1
<1>7. saved' \in BOOLEAN
  BY <1>1, Zenon
<1>8. VisitedDone'
  BY <1>1, <1>4, FileKinds DEF VisitedDone
<1>9. CASE Kind[at] = "project" /\ ~saved
  <2>1. PICK cut \in Cut(at, snap) : backup' = [backup EXCEPT ![at] = cut]
    BY <1>9 DEF CrashInWrite
  <2>2. files' = files /\ Replaces
    BY <1>9 DEF CrashInWrite
  <2>3. at \in Structured
    BY <1>3, <1>9, FileKinds
  <2>4. SettingsOK(at, cut)
    BY <2>1, <2>3, CutSettings DEF SettingsHeld
  <2>5. /\ DOMAIN backup' = Files /\ backup'[at] = cut
        /\ \A g \in Files : g # at => backup'[g] = backup[g]
    BY <1>2, <1>3, <2>1 DEF ClientShape
  <2>r. /\ DOMAIN wanted' = Files /\ Content(at, files[at]) = wanted'[at]
        /\ \A g \in Files : g # at => wanted'[g] = wanted[g]
    BY <1>2, <1>3, <2>2, ReplacesIs
  <2>6. ClientShape'
    BY <1>1, <1>2, <1>6, <1>7, <2>2, <2>5, <2>r DEF ClientShape
  <2>7. ContentsHeld'
    <3>1. ASSUME NEW g \in Files PROVE Held(g, files[g], Room(g))'
      <4>1. Held(g, files[g], Room(g)')
        BY <1>2, <1>5, HeldMore DEF ContentsHeld
      <4> QED BY <2>2, <4>1 DEF Held
    <3>2. ASSUME NEW g \in Files
          PROVE  backup'[g] # Nothing => Kind[g] = "project" /\ SettingsOK(g, backup'[g])
      <4>1. CASE g = at
        BY <1>9, <2>4, <2>5, <4>1
      <4>2. CASE g # at
        BY <1>2, <2>5, <4>2 DEF ContentsHeld
      <4> QED BY <4>1, <4>2
    <3>3. \A g \in Files : SettingsOK(g, backup'[g]) <=> SettingsOK(g, backup[g])'
      BY DEF SettingsOK
    <3> QED BY <1>4, <3>1, <3>2, <3>3 DEF ContentsHeld
  <2>8. ContentsKept'
    BY <1>2, <1>3, <1>4, <2>2, <2>5, <2>r, OthersKept
  <2> QED BY <1>8, <2>6, <2>7, <2>8 DEF ClientInv
<1>10. CASE ~(Kind[at] = "project" /\ ~saved)
  <2>1. PICK cut \in Cut(at, r) :
          /\ files' = [files EXCEPT ![at] = cut]
          /\ wanted' = [wanted EXCEPT ![at] = IF Kind[at] = "project" THEN Spared(at, snap)
                                             ELSE Content(at, cut)]
    BY <1>0, <1>10 DEF CrashInWrite
  <2>2. backup' = backup
    BY <1>10 DEF CrashInWrite
  <2>3. Held(at, files[at], edits + 6 * runs)
    BY <1>3, HeldMore
  <2>4. /\ Held(at, cut, edits + 6 * runs)
        /\ Kind[at] = "project" => Unreadable(at, cut)
    BY <1>1, <1>3, <2>1, <2>3, CutHeld
  <2>5. /\ DOMAIN files' = Files /\ files'[at] = cut
        /\ \A g \in Files : g # at => files'[g] = files[g]
        /\ DOMAIN wanted' = Files
        /\ wanted'[at] = IF Kind[at] = "project" THEN Spared(at, snap) ELSE Content(at, cut)
        /\ \A g \in Files : g # at => wanted'[g] = wanted[g]
    BY <1>2, <1>3, <2>1 DEF ClientShape
  <2>6. ClientShape'
    BY <1>1, <1>2, <1>6, <1>7, <2>2, <2>5 DEF ClientShape
  <2>7. ContentsHeld'
    <3>1. ASSUME NEW g \in Files PROVE Held(g, files[g], Room(g))'
      <4>1. CASE g = at
        BY <1>5, <2>4, <2>5, <4>1 DEF Held
      <4>2. CASE g # at
        <5>1. Held(g, files[g], Room(g)')
          BY <1>2, <1>5, HeldMore DEF ContentsHeld
        <5> QED BY <2>5, <4>2, <5>1 DEF Held
      <4> QED BY <4>1, <4>2
    <3>2. ASSUME NEW g \in Files
          PROVE  backup'[g] # Nothing => Kind[g] = "project" /\ SettingsOK(g, backup'[g])
      BY <1>2, <2>2 DEF ContentsHeld
    <3>3. \A g \in Files : SettingsOK(g, backup'[g]) <=> SettingsOK(g, backup[g])'
      BY DEF SettingsOK
    <3> QED BY <1>4, <3>1, <3>2, <3>3 DEF ContentsHeld
  <2>8. ContentsKept'
    <3>1. CASE Kind[at] = "project"
      <4>1. backup[at] = snap /\ at \in Structured /\ at \notin Fragile
        BY <1>2, <1>3, <1>10, <3>1, FileKinds DEF ContentsHeld
      <4>2. wanted'[at] = Content(at, snap)
        BY <2>5, <3>1, <4>1, SparedIs DEF Left
      <4>3. PICK f : f = at
        BY ONLY TRUE
      <4>4. Recovers(f)'
        BY <1>3, <1>4, <2>4, <2>5, <3>1, <4>3 DEF Recovers, Unreadable
      <4>5. Content(f, backup'[f]) = wanted'[f]
        BY <2>2, <4>1, <4>2, <4>3
      <4>6. /\ f \in Files /\ Kind[f] = "project"
            /\ \A g \in Files : g # f => /\ files'[g] = files[g] /\ backup'[g] = backup[g]
                                        /\ wanted'[g] = wanted[g] /\ at' # g
        BY <1>3, <1>4, <2>2, <2>5, <3>1, <4>3
      <4> QED BY <1>2, <4>4, <4>5, <4>6, OthersKept
    <3>2. CASE Kind[at] # "project"
      BY <1>2, <1>3, <1>4, <2>2, <2>5, <3>2, OthersKept
    <3> QED BY <3>1, <3>2
  <2> QED BY <1>8, <2>6, <2>7, <2>8 DEF ClientInv
<1> QED BY <1>9, <1>10

\* An agent, or its user, saves settings.
LEMMA EditSettingsInv ==
    ASSUME ClientInv, NEW f \in Files, NEW form \in Forms, NEW own \in {0, edits + 1},
           EditSettings(f, form, own)
    PROVE  ClientInv'
<1>1. /\ f \in Structured /\ edits < MaxEdits /\ edits' = edits + 1
      /\ wanted' = [wanted EXCEPT ![f] = <<edits + 1, own>>] /\ (f \notin Fragile => own = 0)
      /\ UNCHANGED <<backup, selected, job, todo, at, snap, saved, runs, kills>>
  BY DEF EditSettings, command
<1>2. ClientShape /\ ContentsHeld /\ ContentsKept /\ VisitedDone
  BY DEF ClientInv
<1>3. /\ edits + 1 \in 0..MaxEdits /\ own \in 0..MaxEdits
      /\ edits \in Nat /\ runs \in Nat
  BY <1>1, <1>2, FileKinds DEF ClientShape
<1>4. PICK old : old = IF files[f] = Nothing THEN Settings(f, "object", 0, 0) ELSE files[f]
  BY ONLY TRUE
<1>5. PICK c : c = [old EXCEPT !.form = form, !.user = edits + 1, !.own = own]
  BY ONLY TRUE
<1>6. files' = [files EXCEPT ![f] = c]
  BY <1>4, <1>5 DEF EditSettings
<1>7. /\ DOMAIN files' = Files /\ files'[f] = c
      /\ \A g \in Files : g # f => files'[g] = files[g]
      /\ DOMAIN wanted' = Files /\ wanted'[f] = <<edits + 1, own>>
      /\ \A g \in Files : g # f => wanted'[g] = wanted[g]
  BY <1>1, <1>2, <1>6 DEF ClientShape
<1>8. SettingsHeld(f, files[f]) /\ f \notin TextFiles
  BY <1>1, <1>2, FileKinds DEF ContentsHeld, Held
<1>9. /\ old \in SettingsOf(f) /\ old # Nothing /\ SettingsHeld(f, old)
      /\ files[f] = Nothing => \A x \in Parts(f) : old.ours[x] = 0
      /\ files[f] # Nothing => old = files[f]
  <2>1. CASE files[f] = Nothing
    <3>1. 0 \in 0..MaxEdits /\ 0 \in 0..MaxRuns /\ "object" \in Forms
      BY FileKinds DEF Forms
    <3> QED BY <1>1, <1>4, <2>1, <3>1, SettingsIs
  <2>2. CASE files[f] # Nothing
    BY <1>1, <1>4, <1>8, <2>2, FieldsAre
  <2> QED BY <2>1, <2>2
<1>10. c = [form |-> form, user |-> edits + 1, own |-> own, ours |-> old.ours]
  BY <1>5, <1>9 DEF SettingsOf
<1>11. c # Nothing /\ SettingsHeld(f, c) /\ Content(f, c) = <<edits + 1, own>> /\ c.ours = old.ours
  <2>1. old.ours \in [Parts(f) -> 0..MaxRuns]
    BY <1>1, <1>9, FieldsAre
  <2> QED BY <1>1, <1>3, <1>10, <2>1, FileOf
<1>12. ClientShape'
  <2>1. edits' \in 0..MaxEdits
    BY <1>1, <1>3
  <2> QED BY <1>1, <1>2, <1>7, <2>1 DEF ClientShape
<1>13. ASSUME NEW g \in Files PROVE Room(g) \in Int /\ Room(g)' \in Int /\ Room(g) <= Room(g)'
  BY <1>1, <1>3 DEF Room
<1>14. ContentsHeld'
  <2>1. ASSUME NEW g \in Files
        PROVE  Held(g, files[g], Room(g))' /\ (at' = g => Held(g, snap, Room(g))')
    <3>1. Held(g, files[g], Room(g)') /\ (at = g => Held(g, snap, Room(g)'))
      BY <1>2, <1>13, HeldMore DEF ContentsHeld
    <3>2. CASE g = f
      BY <1>1, <1>7, <1>8, <1>11, <3>1, <3>2 DEF Held
    <3>3. CASE g # f
      BY <1>1, <1>7, <3>1, <3>3 DEF Held
    <3> QED BY <3>2, <3>3
  <2>2. ASSUME NEW g \in Files
        PROVE  /\ backup'[g] # Nothing => Kind[g] = "project" /\ SettingsOK(g, backup'[g])
               /\ at' = g /\ saved' /\ Kind[g] = "project" => backup'[g] = snap'
    BY <1>1, <1>2 DEF ContentsHeld
  <2>3. \A g \in Files : SettingsOK(g, backup'[g]) <=> SettingsOK(g, backup[g])'
    BY DEF SettingsOK
  <2> QED BY <2>1, <2>2, <2>3 DEF ContentsHeld
<1>15. ContentsKept'
  <2>1. ASSUME NEW g \in Files, g # f, Recovers(g) PROVE Recovers(g)'
    BY <1>1, <1>7, <2>1 DEF Recovers, Unreadable
  <2>2. ASSUME NEW g \in Files
        PROVE  \/ Content(g, files'[g]) = wanted'[g]
               \/ Kind[g] = "project" /\ Content(g, backup[g]) = wanted'[g] /\ Recovers(g)'
    <3>1. CASE g = f
      BY <1>7, <1>11, <3>1
    <3>2. CASE g # f
      BY <1>2, <1>7, <2>1, <3>2 DEF ContentsKept
    <3> QED BY <3>1, <3>2
  <2> QED BY <1>1, <2>2 DEF ContentsKept, Content
<1>16. VisitedDone'
  <2>1. ASSUME NEW g \in Files, job # Nothing, g \in job.listed \ todo
        PROVE  /\ job.name = "install" => Refreshed(g, files'[g], job.version)
               /\ job.name = "uninstall" => Cleared(g, files'[g])
    <3>1. /\ job.name = "install" => Refreshed(g, files[g], job.version)
          /\ job.name = "uninstall" => Cleared(g, files[g])
      BY <1>2, <2>1 DEF VisitedDone
    <3>2. CASE g = f
      <4>1. job.name = "install" => Refreshed(f, c, job.version)
        BY <1>1, <1>8, <1>9, <1>10, <1>11, <3>1, <3>2 DEF Refreshed
      <4>2. job.name = "uninstall" => Cleared(f, c)
        BY <1>1, <1>8, <1>9, <1>10, <1>11, <3>1, <3>2 DEF Cleared
      <4> QED BY <1>7, <3>2, <4>1, <4>2
    <3>3. CASE g # f
      BY <1>7, <3>1, <3>3
    <3> QED BY <3>2, <3>3
  <2> QED BY <1>1, <1>2, <2>1 DEF VisitedDone, Refreshed, Cleared, Said, Fresh, Unreadable
<1> QED BY <1>12, <1>14, <1>15, <1>16 DEF ClientInv

\* The user adds a line to a text.
LEMMA AddLineInv ==
    ASSUME ClientInv, NEW f \in Files, NEW first \in BOOLEAN, AddLine(f, first)
    PROVE  ClientInv'
<1>1. /\ f \in TextFiles /\ edits < MaxEdits /\ edits' = edits + 1
      /\ UNCHANGED <<backup, selected, job, todo, at, snap, saved, runs, kills>>
  BY DEF AddLine, command
<1>2. ClientShape /\ ContentsHeld /\ ContentsKept /\ VisitedDone
  BY DEF ClientInv
<1>3. edits + 1 \in 0..MaxEdits /\ edits + 1 \in Nat /\ edits \in Nat /\ runs \in Nat
  BY <1>1, <1>2, FileKinds DEF ClientShape
<1>4. PICK c, n : c = Said(files[f]) /\ n = edits + 1
  BY ONLY TRUE
<1>5. PICK u : u = IF first THEN <<Line(n)>> \o c ELSE c \o <<Line(n)>>
  BY ONLY TRUE
<1>6. PICK w : w = IF first THEN <<Line(n)>> \o wanted[f] ELSE wanted[f] \o <<Line(n)>>
  BY ONLY TRUE
<1>7. files' = [files EXCEPT ![f] = u] /\ wanted' = [wanted EXCEPT ![f] = w]
  BY <1>4, <1>5, <1>6 DEF AddLine
<1>8. /\ DOMAIN files' = Files /\ files'[f] = u
      /\ \A g \in Files : g # f => files'[g] = files[g]
      /\ DOMAIN wanted' = Files /\ wanted'[f] = w
      /\ \A g \in Files : g # f => wanted'[g] = wanted[g]
  BY <1>1, <1>2, <1>7 DEF ClientShape
<1>9. Sound(c) /\ Len(c) <= Room(f) /\ f \notin Structured /\ Kind[f] # "project"
  BY <1>1, <1>2, <1>4, FileKinds DEF ContentsHeld, Held
<1>10. PICK x : x = Line(n)
  BY ONLY TRUE
<1>a. x \in Token /\ x[1] = "line" /\ Sift(<<x>>, Lines) = <<x>> /\ x[1] \notin Marks
  <2>1. x \in Token /\ x[1] = "line"
    BY <1>3, <1>4, <1>10, Tokens
  <2> QED BY <2>1, OneToken DEF Marks
<1>b. Adds(c, u, x, first)
  <2>1. Adds(c, <<x>> \o c, x, TRUE) /\ Adds(c, c \o <<x>>, x, FALSE)
    BY <1>9, <1>a, AddedToken
  <2>2. CASE first = TRUE
    BY <1>5, <1>10, <2>1, <2>2
  <2>3. CASE first = FALSE
    BY <1>5, <1>10, <2>1, <2>3
  <2> QED BY <2>2, <2>3
<1>11. /\ Sound(u) /\ Len(u) = Len(c) + 1
       /\ Unmarked(c) => Unmarked(u)
       /\ \A v \in Nat : Fresh(c, v) => Fresh(u, v)
       /\ Sift(u, Lines) = IF first THEN <<x>> \o Sift(c, Lines) ELSE Sift(c, Lines) \o <<x>>
  BY <1>a, <1>b DEF Adds
<1>12. u \in Seq(Token) /\ u # Nothing /\ Said(u) = u /\ Len(c) \in Nat
  BY <1>9, <1>11, FileKinds DEF Sound, TextOK, Said
<1>13. ClientShape'
  <2>1. edits' \in 0..MaxEdits
    BY <1>1, <1>3
  <2> QED BY <1>1, <1>2, <1>8, <2>1 DEF ClientShape
<1>14. ASSUME NEW g \in Files
       PROVE  Room(g) \in Int /\ Room(g)' \in Int /\ Room(g) <= Room(g)' /\ Room(g)' = Room(g) + 1
  BY <1>1, <1>3 DEF Room
<1>15. ContentsHeld'
  <2>1. ASSUME NEW g \in Files
        PROVE  Held(g, files[g], Room(g))' /\ (at' = g => Held(g, snap, Room(g))')
    <3>1. Held(g, files[g], Room(g)') /\ (at = g => Held(g, snap, Room(g)'))
      BY <1>2, <1>14, HeldMore DEF ContentsHeld
    <3>2. CASE g = f
      <4>1. Len(u) <= Room(g)'
        BY <1>9, <1>11, <1>12, <1>14, <3>2
      <4>2. Held(g, u, Room(g)')
        BY <1>1, <1>9, <1>11, <1>12, <3>2, <4>1 DEF Held
      <4> QED BY <1>1, <1>8, <3>1, <3>2, <4>2 DEF Held
    <3>3. CASE g # f
      BY <1>1, <1>8, <3>1, <3>3 DEF Held
    <3> QED BY <3>2, <3>3
  <2>2. ASSUME NEW g \in Files
        PROVE  /\ backup'[g] # Nothing => Kind[g] = "project" /\ SettingsOK(g, backup'[g])
               /\ at' = g /\ saved' /\ Kind[g] = "project" => backup'[g] = snap'
    BY <1>1, <1>2 DEF ContentsHeld
  <2>3. \A g \in Files : SettingsOK(g, backup'[g]) <=> SettingsOK(g, backup[g])'
    BY DEF SettingsOK
  <2> QED BY <2>1, <2>2, <2>3 DEF ContentsHeld
<1>16. ContentsKept'
  <2>1. ASSUME NEW g \in Files, g # f, Recovers(g) PROVE Recovers(g)'
    BY <1>1, <1>8, <2>1 DEF Recovers, Unreadable
  <2>2. ASSUME NEW g \in Files
        PROVE  \/ Content(g, files'[g]) = wanted'[g]
               \/ Kind[g] = "project" /\ Content(g, backup[g]) = wanted'[g] /\ Recovers(g)'
    <3>1. CASE g = f
      <4>1. Content(f, files[f]) = wanted[f]
        BY <1>1, <1>2, <1>9 DEF ContentsKept
      <4>2. Content(f, files[f]) = Sift(c, Lines) /\ Content(f, u) = Sift(u, Lines)
        BY <1>1, <1>4, <1>12, SparedIs
      <4>3. Content(f, u) = w
        BY <1>6, <1>10, <1>11, <4>1, <4>2
      <4> QED BY <1>8, <3>1, <4>3
    <3>2. CASE g # f
      BY <1>2, <1>8, <2>1, <3>2 DEF ContentsKept
    <3> QED BY <3>1, <3>2
  <2> QED BY <1>1, <2>2 DEF ContentsKept, Content, Said
<1>17. VisitedDone'
  <2>1. ASSUME NEW g \in Files, job # Nothing, g \in job.listed \ todo
        PROVE  /\ job.name = "install" => Refreshed(g, files'[g], job.version)
               /\ job.name = "uninstall" => Cleared(g, files'[g])
    <3>1. /\ job.name = "install" => Refreshed(g, files[g], job.version)
          /\ job.name = "uninstall" => Cleared(g, files[g])
      BY <1>2, <2>1 DEF VisitedDone
    <3>2. job.version \in Nat
      BY <1>2, <2>1, JobIs
    <3>3. CASE g = f
      <4>1. job.name = "install" => Refreshed(f, u, job.version)
        BY <1>1, <1>4, <1>9, <1>11, <1>12, <3>1, <3>2, <3>3 DEF Refreshed
      <4>2. job.name = "uninstall" => Cleared(f, u)
        BY <1>1, <1>4, <1>9, <1>11, <1>12, <3>1, <3>3 DEF Cleared
      <4> QED BY <1>8, <3>3, <4>1, <4>2
    <3>4. CASE g # f
      BY <1>8, <3>1, <3>4
    <3> QED BY <3>3, <3>4
  <2> QED BY <1>1, <1>2, <2>1 DEF VisitedDone, Refreshed, Cleared, Said, Fresh, Unreadable
<1> QED BY <1>13, <1>15, <1>16, <1>17 DEF ClientInv

\* The induction over the steps.
LEMMA StepInv == ClientInv /\ [ClientNext]_clientVars => ClientInv'
<1>1. ASSUME ClientInv, ClientNext PROVE ClientInv'
  <2>1. selected \in SUBSET Files
    BY <1>1, ClientFilesAssumption DEF ClientInv, ClientShape
  <2>2. ASSUME NEW w \in {"install", "uninstall"}, Begin(w) \/ End(w) PROVE ClientInv'
    BY <1>1, <2>2, BeginInv, EndInv
  <2>3. ASSUME NEW f \in Files, Pass(f) \/ Read(f) \/ Panic(f) PROVE ClientInv'
    BY <1>1, <2>3, PassInv, ReadInv, PanicInv
  <2>4. CASE BackUp \/ Write \/ CrashBetween \/ CrashInWrite
    BY <1>1, <2>4, BackUpInv, WriteInv, CrashBetweenInv, CrashInWriteInv
  <2>5. ASSUME NEW f \in selected, NEW form \in Forms, NEW own \in {0, edits + 1},
               EditSettings(f, form, own)
        PROVE  ClientInv'
    BY <1>1, <2>1, <2>5, EditSettingsInv
  <2>6. ASSUME NEW f \in selected, NEW first \in BOOLEAN, AddLine(f, first)
        PROVE  ClientInv'
    BY <1>1, <2>1, <2>6, AddLineInv
  <2> QED BY <1>1, <2>2, <2>3, <2>4, <2>5, <2>6 DEF ClientNext
<1>2. ASSUME ClientInv, UNCHANGED clientVars PROVE ClientInv'
  <2>1. ClientShape /\ ContentsHeld /\ ContentsKept /\ VisitedDone
    BY <1>2 DEF ClientInv
  <2>2. UNCHANGED <<files, backup, selected, job, todo, at, snap, saved, wanted, runs, edits, kills>>
    BY <1>2 DEF clientVars, command, bounds
  <2>3. ClientShape'
    BY <2>1, <2>2 DEF ClientShape
  <2>4. ContentsHeld'
    BY <2>1, <2>2 DEF ContentsHeld, Held, Room, Sound, TextOK, Said, SettingsHeld, SettingsOK
  <2>5. ContentsKept'
    BY <2>1, <2>2 DEF ContentsKept, Recovers, Content, Unreadable, Said
  <2>6. VisitedDone'
    BY <2>1, <2>2 DEF VisitedDone, Refreshed, Cleared, Unreadable, Said, Fresh
  <2> QED BY <2>3, <2>4, <2>5, <2>6 DEF ClientInv
<1> QED BY <1>1, <1>2

LEMMA ClientInvariant == ClientSpec => []ClientInv
BY InitInv, StepInv, PTL DEF ClientSpec

\* Whatever commands, crashes and edits: a reference file is whole or absent, and the
\* texts and entries stay within the bounds.
THEOREM ClientFilesTyped == ClientSpec => []ClientTypeOK
<1>1. ASSUME ClientInv PROVE ClientTypeOK
  <2>1. ClientShape /\ ContentsHeld
    BY <1>1 DEF ClientInv
  <2>2. ASSUME NEW f \in Files PROVE Room(f) \in Int /\ Room(f) <= MaxLength
    BY <2>1, FileKinds DEF Room, MaxLength, ClientShape
  <2>3. ASSUME NEW f \in Files
        PROVE  CASE f \in Structured -> SettingsOK(f, files[f])
                 [] f \in TextFiles ->
                        files[f] = Nothing \/ (files[f] \in Seq(Token) /\ Len(files[f]) <= MaxLength)
                 [] Kind[f] \in {"own", "loose"} -> files[f] \in (0..MaxRuns) \cup {Nothing, Torn}
                 [] OTHER -> files[f] \in (0..MaxRuns) \cup {Nothing}
    <3>1. Held(f, files[f], Room(f))
      BY <2>1 DEF ContentsHeld
    <3>2. CASE f \in Structured
      BY <3>1, <3>2, FileKinds DEF Held, SettingsHeld
    <3>3. CASE f \in TextFiles
      <4>1. CASE files[f] = Nothing
        BY <3>3, <4>1, FileKinds
      <4>2. CASE files[f] # Nothing
        <5>1. files[f] \in Seq(Token) /\ Len(files[f]) <= Room(f) /\ Len(files[f]) \in Nat
          BY <3>1, <3>3, <4>2 DEF Held, Sound, TextOK, Said
        <5>2. Len(files[f]) <= MaxLength
          BY <2>2, <5>1, FileKinds DEF MaxLength
        <5> QED BY <3>3, <5>1, <5>2, FileKinds
      <4> QED BY <4>1, <4>2
    <3>4. CASE f \notin Structured \cup TextFiles
      <4>1. files[f] \in (0..MaxRuns) \cup {Nothing} \/ (Kind[f] \in {"own", "loose"} /\ files[f] = Torn)
        BY <3>1, <3>4 DEF Held
      <4> QED BY <3>4, <4>1
    <3> QED BY <3>2, <3>3, <3>4
  <2>4. \A f \in Files : backup[f] # Nothing => Kind[f] = "project" /\ SettingsOK(f, backup[f])
    BY <2>1 DEF ContentsHeld
  <2> QED BY <2>1, <2>3, <2>4 DEF ClientTypeOK, ClientShape
<1> QED BY <1>1, ClientInvariant, PTL

\* What the user has put into a file is in it, or in its backup, through any installs,
\* uninstalls, crashes and edits, but for what the code is known to lose: an edit between
\* read and write, what a write cut short has lost, what does not parse and has no backup,
\* the user's autoMemoryEnabled, the comments of a TOML file, and the lines behind a block
\* without an end. What is left after such a loss is kept in turn.
THEOREM UserContentIsKept == ClientSpec => []UserContentKept
<1>1. ClientInv => UserContentKept
  BY FileKinds DEF ClientInv, ContentsKept, UserContentKept
<1> QED BY <1>1, ClientInvariant, PTL

\* A fresh text has one block, of this version.
LEMMA FreshCounts ==
    ASSUME NEW c \in Seq(Token), NEW v \in Nat, Fresh(c, v)
    PROVE  Count(c, "start") = 1 /\ Count(c, "body") = 1 /\ Contains(c, Body(v))
<1>1. PICK s \in Nat : BlockAt(c, s) /\ s + 1 \in DOMAIN c /\ c[s + 1] = Body(v)
  BY DEF Fresh
<1>2. c[s + 1][1] = "body"
  BY <1>1, Tokens
<1>3. Places(c, "start") = {s} /\ Places(c, "body") = {s + 1}
  BY <1>1, <1>2 DEF Places, BlockAt
<1>4. Contains(c, Body(v))
  BY <1>1 DEF Contains
<1> QED BY <1>3, <1>4, FS_Singleton DEF Count

LEMMA UnmarkedCounts ==
    ASSUME NEW c, Unmarked(c)
    PROVE  ~HasBlock(c) /\ Count(c, "body") = 0
<1>1. Places(c, "start") = {} /\ Places(c, "body") = {}
  BY DEF Unmarked, Marks, Places
<1> QED BY <1>1, FS_EmptySet DEF HasBlock, Count

\* Every file that an install has listed and has not refused has memlayer's entries when it
\* is through: this version's in an MCP file, in a skill file and in the one block of a
\* text, and a hook of some version in a settings or project file; whatever its
\* predecessors left there, when the owners save settings that keep the entries or add
\* lines around the block.
THEOREM InstallLeavesThisVersion == ClientSpec => InstallRefreshes
<1>. DEFINE Refreshing ==
       \A f \in job.listed :
         CASE f \in Structured ->
                Usable(files[f]) => /\ \A x \in Parts(f) : files[f].ours[x] # 0
                                    /\ Kind[f] = "mcp" => files[f].ours["entry"] = Version
           [] f \in TextFiles -> /\ Count(files[f], "start") = 1 /\ Count(files[f], "body") = 1
                              /\ Contains(files[f], Body(Version))
           [] OTHER -> files[f] = Version
<1>1. ASSUME ClientInv, End("install") PROVE Refreshing
  <2>1. ClientShape /\ ContentsHeld /\ VisitedDone
    BY <1>1 DEF ClientInv
  <2>2. job # Nothing /\ job.name = "install" /\ todo = {}
    BY <1>1 DEF End
  <2>3. job.listed \in SUBSET Files /\ Version = job.version /\ job.version \in Nat
    BY <2>1, <2>2, JobIs
  <2>4. ASSUME NEW f \in job.listed
        PROVE  CASE f \in Structured ->
                      Usable(files[f]) => /\ \A x \in Parts(f) : files[f].ours[x] # 0
                                          /\ Kind[f] = "mcp" => files[f].ours["entry"] = Version
                 [] f \in TextFiles -> /\ Count(files[f], "start") = 1 /\ Count(files[f], "body") = 1
                                    /\ Contains(files[f], Body(Version))
                 [] OTHER -> files[f] = Version
    <3>1. f \in Files /\ Refreshed(f, files[f], Version) /\ Held(f, files[f], Room(f))
      BY <2>1, <2>2, <2>3 DEF VisitedDone, ContentsHeld
    <3>2. CASE f \in Structured
      BY <3>1, <3>2, FileKinds DEF Refreshed
    <3>3. CASE f \in TextFiles
      <4>1. files[f] # Nothing /\ Fresh(files[f], Version) /\ files[f] \in Seq(Token)
        BY <3>1, <3>3 DEF Refreshed, Held, Said, Sound, TextOK
      <4> QED BY <2>3, <3>3, <4>1, FreshCounts, FileKinds
    <3>4. CASE f \notin Structured \cup TextFiles
      BY <3>1, <3>4 DEF Refreshed
    <3> QED BY <3>2, <3>3, <3>4
  <2> QED BY <2>4
<1>2. ClientInv /\ [ClientNext]_clientVars => [End("install") => Refreshing]_clientVars
  BY <1>1
<1> QED BY <1>2, ClientInvariant, PTL DEF ClientSpec, InstallRefreshes

\* Nothing of memlayer's but the hooks of Claude Code is left in the files that an
\* uninstall has listed, also where an install was cut short.
THEOREM UninstallLeavesNothing == ClientSpec => UninstallClears
<1>. DEFINE Clearing ==
       \A f \in job.listed :
         CASE f \in Structured ->
                Usable(files[f]) => \A x \in Parts(f) \ {"hooks"} : files[f].ours[x] = 0
           [] f \in TextFiles -> files[f] # Nothing => ~HasBlock(files[f]) /\ Count(files[f], "body") = 0
           [] OTHER -> files[f] = Nothing
<1>1. ASSUME ClientInv, End("uninstall") PROVE Clearing
  <2>1. ClientShape /\ VisitedDone
    BY <1>1 DEF ClientInv
  <2>2. job # Nothing /\ job.name = "uninstall" /\ todo = {}
    BY <1>1 DEF End
  <2>3. job.listed \in SUBSET Files
    BY <2>1, <2>2, JobIs
  <2>4. ASSUME NEW f \in job.listed
        PROVE  CASE f \in Structured ->
                      Usable(files[f]) => \A x \in Parts(f) \ {"hooks"} : files[f].ours[x] = 0
                 [] f \in TextFiles -> files[f] # Nothing => ~HasBlock(files[f]) /\ Count(files[f], "body") = 0
                 [] OTHER -> files[f] = Nothing
    <3>1. f \in Files /\ Cleared(f, files[f])
      BY <2>1, <2>2, <2>3 DEF VisitedDone
    <3>2. CASE f \in Structured
      BY <3>1, <3>2, FileKinds DEF Cleared, Usable
    <3>3. CASE f \in TextFiles
      <4>1. files[f] # Nothing => Unmarked(files[f])
        BY <3>1, <3>3 DEF Cleared, Said
      <4> QED BY <3>3, <4>1, UnmarkedCounts, FileKinds
    <3>4. CASE f \notin Structured \cup TextFiles
      BY <3>1, <3>4 DEF Cleared
    <3> QED BY <3>2, <3>3, <3>4
  <2> QED BY <2>4
<1>2. ClientInv /\ [ClientNext]_clientVars => [End("uninstall") => Clearing]_clientVars
  BY <1>1
<1> QED BY <1>2, ClientInvariant, PTL DEF ClientSpec, UninstallClears

=============================================================================
