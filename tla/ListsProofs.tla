----------------------------- MODULE ListsProofs -----------------------------
(***************************************************************************)
(* What a list has: every element of its set, once, and in the order.        *)
(***************************************************************************)
EXTENDS Lists, Functions, FunctionTheorems, FiniteSetTheorems, WellFoundedInduction, TLAPS

\* Two sets of which one is the image of the other, each element of its own, have the
\* same number of elements.
LEMMA OneToOne ==
    ASSUME NEW S, NEW T, IsFiniteSet(S), NEW f \in [S -> T],
           \A x, y \in S : f[x] = f[y] => x = y, \A z \in T : \E x \in S : f[x] = z
    PROVE  IsFiniteSet(T) /\ Cardinality(S) = Cardinality(T)
<1>1. f \in Bijection(S, T)
  BY Zenon DEF Bijection, Injection, Surjection, IsInjective
<1> QED BY <1>1, FS_Bijection DEF ExistsBijection

\* A strict order that tells any two elements apart.
StrictOrder(S, R) ==
    /\ \A x \in S : <<x, x>> \notin R
    /\ \A x, y \in S : x = y \/ <<x, y>> \in R \/ <<y, x>> \in R
    /\ \A x, y, z \in S : <<x, y>> \in R /\ <<y, z>> \in R => <<x, z>> \in R

Below(S, R, x) == {y \in S : <<y, x>> \in R}
Rank(S, R, x) == Cardinality(Below(S, R, x))

\* The rank of an element is smaller than that of those above it.
LEMMA RankOrder ==
    ASSUME NEW S, IsFiniteSet(S), NEW R, StrictOrder(S, R)
    PROVE  /\ \A x \in S : Rank(S, R, x) \in 0..(Cardinality(S) - 1)
           /\ \A x, y \in S : <<x, y>> \in R => Rank(S, R, x) < Rank(S, R, y)
<1>1. Cardinality(S) \in Nat
  BY FS_CardinalityType
<1>2. ASSUME NEW x \in S
      PROVE  IsFiniteSet(Below(S, R, x)) /\ Rank(S, R, x) \in 0..(Cardinality(S) - 1)
  <2>1. Below(S, R, x) \in SUBSET (S \ {x})
    BY DEF StrictOrder, Below
  <2>2. IsFiniteSet(S \ {x}) /\ Cardinality(S \ {x}) = Cardinality(S) - 1
    BY FS_RemoveElement
  <2>3. IsFiniteSet(Below(S, R, x)) /\ Cardinality(Below(S, R, x)) <= Cardinality(S) - 1
    BY <2>1, <2>2, FS_Subset
  <2>4. Cardinality(Below(S, R, x)) \in Nat
    BY <2>3, FS_CardinalityType
  <2> QED BY <1>1, <2>3, <2>4 DEF Rank
<1>3. ASSUME NEW x \in S, NEW y \in S, <<x, y>> \in R
      PROVE  Rank(S, R, x) < Rank(S, R, y)
  <2>1. Below(S, R, x) \in SUBSET Below(S, R, y) /\ x \in Below(S, R, y) /\ x \notin Below(S, R, x)
    BY <1>3 DEF StrictOrder, Below
  <2>2. Rank(S, R, x) <= Rank(S, R, y) /\ Rank(S, R, x) # Rank(S, R, y)
    BY <1>2, <2>1, FS_Subset DEF Rank
  <2> QED BY <1>2, <2>2
<1> QED BY <1>2, <1>3

\* Two elements have different ranks.
LEMMA RankIsOne ==
    ASSUME NEW S, IsFiniteSet(S), NEW R, StrictOrder(S, R),
           NEW x \in S, NEW y \in S, Rank(S, R, x) = Rank(S, R, y)
    PROVE  x = y
<1>1. /\ Rank(S, R, x) \in 0..(Cardinality(S) - 1)
      /\ <<x, y>> \in R => Rank(S, R, x) < Rank(S, R, y)
      /\ <<y, x>> \in R => Rank(S, R, y) < Rank(S, R, x)
  BY RankOrder
<1>2. x = y \/ <<x, y>> \in R \/ <<y, x>> \in R
  BY DEF StrictOrder
<1> QED BY <1>1, <1>2

\* Every place below the number of elements is the rank of one of them.
LEMMA RankOnto ==
    ASSUME NEW S, IsFiniteSet(S), NEW R, StrictOrder(S, R),
           NEW k \in 1..Cardinality(S)
    PROVE  \E x \in S : Rank(S, R, x) = k - 1
<1> DEFINE n == Cardinality(S)
           f == [x \in S |-> Rank(S, R, x)]
<1>1. n \in Nat
  BY FS_CardinalityType
<1>2. IsFiniteSet(0..(n - 1)) /\ Cardinality(0..(n - 1)) = n
  <2>1. 0 \in Int /\ n - 1 \in Int
    BY <1>1
  <2>2. IsFiniteSet(0..(n - 1)) /\ Cardinality(0..(n - 1)) = IF 0 > n - 1 THEN 0 ELSE (n - 1) - 0 + 1
    BY <2>1, FS_Interval
  <2> QED BY <1>1, <2>2
<1>3. f \in Injection(S, 0..(n - 1))
  <2>1. f \in [S -> 0..(n - 1)]
    BY RankOrder
  <2>2. ASSUME NEW x \in S, NEW y \in S, Rank(S, R, x) = Rank(S, R, y) PROVE x = y
    BY <2>2, RankIsOne
  <2>3. \A x, y \in S : f[x] = f[y] => x = y
    BY <2>2
  <2> HIDE DEF f
  <2>4. DOMAIN f = S
    BY <2>1
  <2> QED BY <2>1, <2>3, <2>4 DEF Injection, IsInjective
<1>4. f \in Surjection(S, 0..(n - 1))
  BY <1>2, <1>3, FS_Injection
<1>5. k - 1 \in 0..(n - 1)
  BY <1>1
<1> QED BY <1>4, <1>5 DEF Surjection

\* The element on place k: the one of that rank, if there is one.
OnPlace(S, R, k) == CHOOSE x \in S : Rank(S, R, x) = k - 1 \/ \A y \in S : Rank(S, R, y) # k - 1

\* Whatever the order, a list has as many places as its set has elements, and an
\* element stands on each.
LEMMA ListedIn ==
    ASSUME NEW S, IsFiniteSet(S), NEW R
    PROVE  /\ Cardinality(S) \in Nat
           /\ Listed(S, R) \in [1..Cardinality(S) -> S]
           /\ Listed(S, R) \in Seq(S)
           /\ \A k \in 1..Cardinality(S) : Listed(S, R)[k] = OnPlace(S, R, k)
<1> DEFINE n == Cardinality(S)
           s == Listed(S, R)
           before == {<<x, Rank(S, R, x)>> : x \in S}
           Place(k) ==
             CHOOSE x \in S : <<x, k - 1>> \in before \/ \A y \in S : <<y, k - 1>> \notin before
<1>1. n \in Nat
  BY FS_CardinalityType
<1>2. s = [k \in 1..n |-> Place(k)]
  BY DEF Listed, Rank, Below
<1>3. ASSUME NEW k \in 1..n PROVE Place(k) = OnPlace(S, R, k)
  <2>1. \A x \in S : <<x, k - 1>> \in before <=> Rank(S, R, x) = k - 1
    OBVIOUS
  <2> HIDE DEF before
  <2> QED BY <2>1 DEF OnPlace
<1>4. ASSUME NEW k \in 1..n PROVE OnPlace(S, R, k) \in S
  <2>1. S # {}
    BY <1>1, FS_EmptySet
  <2>2. \E x \in S : Rank(S, R, x) = k - 1 \/ \A y \in S : Rank(S, R, y) # k - 1
    BY <2>1
  <2> QED BY <2>2 DEF OnPlace
<1> HIDE DEF s, Place, n
<1>5. s \in [1..n -> S] /\ \A k \in 1..n : s[k] = OnPlace(S, R, k)
  BY <1>2, <1>3, <1>4
<1>6. s \in Seq(S)
  BY <1>1, <1>5
<1> QED BY <1>1, <1>5, <1>6 DEF s, n

\* A list by a strict order has as many places as its set has elements, an element stands on each, no
\* element on two, every element on one, and earlier ones come before later ones.
LEMMA ListedProperties ==
    ASSUME NEW S, IsFiniteSet(S), NEW R, StrictOrder(S, R)
    PROVE  /\ Cardinality(S) \in Nat
           /\ Listed(S, R) \in [1..Cardinality(S) -> S]
           /\ \A k \in 1..Cardinality(S) : Rank(S, R, Listed(S, R)[k]) = k - 1
           /\ \A k, l \in 1..Cardinality(S) : Listed(S, R)[k] = Listed(S, R)[l] => k = l
           /\ \A x \in S : \E k \in 1..Cardinality(S) : Listed(S, R)[k] = x
           /\ \A k, l \in 1..Cardinality(S) :
                k < l <=> <<Listed(S, R)[k], Listed(S, R)[l]>> \in R
<1> DEFINE n == Cardinality(S)
           s == Listed(S, R)
<1>1. n \in Nat
  BY FS_CardinalityType
<1>2. \A k \in 1..n : s[k] = OnPlace(S, R, k)
  BY ListedIn
<1>3. s \in [1..n -> S]
  BY ListedIn
<1> HIDE DEF s
<1>a. ASSUME NEW k \in 1..n
      PROVE  s[k] \in S /\ Rank(S, R, s[k]) = k - 1
  <2>1. \E x \in S : Rank(S, R, x) = k - 1
    BY RankOnto
  <2> QED BY <1>2, <2>1 DEF OnPlace
<1>4. \A k, l \in 1..n : s[k] = s[l] => k = l
  BY <1>1, <1>a
<1>5. ASSUME NEW x \in S PROVE \E k \in 1..n : s[k] = x
  <2>1. Rank(S, R, x) \in 0..(n - 1)
    BY RankOrder
  <2>2. PICK k \in 1..n : k - 1 = Rank(S, R, x)
    BY <1>1, <2>1
  <2>3. s[k] \in S /\ Rank(S, R, s[k]) = Rank(S, R, x)
    BY <1>a, <2>2
  <2>4. s[k] = x
    BY <2>3, RankIsOne
  <2> QED BY <2>4
<1>6. ASSUME NEW k \in 1..n, NEW l \in 1..n
      PROVE  k < l <=> <<s[k], s[l]>> \in R
  <2>1. /\ s[k] \in S /\ Rank(S, R, s[k]) = k - 1
        /\ s[l] \in S /\ Rank(S, R, s[l]) = l - 1
    BY <1>a
  <2>2. <<s[k], s[l]>> \in R => Rank(S, R, s[k]) < Rank(S, R, s[l])
    BY <2>1, RankOrder
  <2>3. <<s[l], s[k]>> \in R => Rank(S, R, s[l]) < Rank(S, R, s[k])
    BY <2>1, RankOrder
  <2>4. s[k] = s[l] \/ <<s[k], s[l]>> \in R \/ <<s[l], s[k]>> \in R
    BY <2>1 DEF StrictOrder
  <2> QED BY <1>1, <2>1, <2>2, <2>3, <2>4
<1> QED BY <1>1, <1>a, <1>3, <1>4, <1>5, <1>6 DEF s

\* The same of numbers.
LEMMA AscendingProperties ==
    ASSUME NEW S \in SUBSET Nat, IsFiniteSet(S)
    PROVE  /\ Cardinality(S) \in Nat
           /\ Ascending(S) \in [1..Cardinality(S) -> S]
           /\ \A k, l \in 1..Cardinality(S) : Ascending(S)[k] = Ascending(S)[l] => k = l
           /\ \A x \in S : \E k \in 1..Cardinality(S) : Ascending(S)[k] = x
           /\ \A k, l \in 1..Cardinality(S) : k < l <=> Ascending(S)[k] < Ascending(S)[l]
<1> DEFINE R == {e \in S \X S : e[1] < e[2]}
<1>1. \A x, y \in S : <<x, y>> \in R <=> x < y
  OBVIOUS
<1>2. StrictOrder(S, R)
  <2> HIDE DEF R
  <2> QED BY <1>1 DEF StrictOrder
<1>3. Ascending(S) = Listed(S, R)
  BY DEF Ascending
<1> HIDE DEF R
<1>4. /\ Cardinality(S) \in Nat
      /\ Listed(S, R) \in [1..Cardinality(S) -> S]
      /\ \A k, l \in 1..Cardinality(S) : Listed(S, R)[k] = Listed(S, R)[l] => k = l
      /\ \A x \in S : \E k \in 1..Cardinality(S) : Listed(S, R)[k] = x
      /\ \A k, l \in 1..Cardinality(S) :
           k < l <=> <<Listed(S, R)[k], Listed(S, R)[l]>> \in R
  BY <1>2, ListedProperties
<1> QED BY <1>1, <1>3, <1>4

\* A WHERE keeps the entries that are in the set, and nothing else, each from a
\* place of its own.
SiftedFrom(s, T, kept, at) ==
    /\ at \in [1..Len(kept) -> {i \in DOMAIN s : s[i] \in T}]
    /\ \A k, l \in 1..Len(kept) : at[k] = at[l] => k = l
    /\ \A i \in DOMAIN s : s[i] \in T => \E k \in 1..Len(kept) : at[k] = i
    /\ \A k \in 1..Len(kept) : kept[k] = s[at[k]]

LEMMA SiftProperties ==
    ASSUME NEW E, NEW s \in Seq(E), NEW T
    PROVE  Sift(s, T) \in Seq(E) /\ \E at : SiftedFrom(s, T, Sift(s, T), at)
<1> DEFINE D == {i \in DOMAIN s : s[i] \in T}
           n == Cardinality(D)
<1>1. Len(s) \in Nat /\ DOMAIN s = 1..Len(s) /\ \A i \in DOMAIN s : s[i] \in E
  OBVIOUS
<1>2. IsFiniteSet(1..Len(s))
  BY <1>1, FS_Interval
<1>3. D \in SUBSET Nat /\ D \in SUBSET (1..Len(s)) /\ IsFiniteSet(D)
  <2>1. D \in SUBSET (1..Len(s))
    BY <1>1
  <2> QED BY <1>1, <1>2, <2>1, FS_Subset
<1>4. PICK at : at = Ascending(D)
  OBVIOUS
<1>5. Sift(s, T) = [k \in DOMAIN at |-> s[at[k]]]
  BY <1>4 DEF Sift
<1> HIDE DEF D
<1>6. /\ n \in Nat /\ at \in [1..n -> D]
      /\ \A k, l \in 1..n : at[k] = at[l] => k = l
      /\ \A x \in D : \E k \in 1..n : at[k] = x
  BY <1>3, <1>4, AscendingProperties
<1>7. Sift(s, T) = [k \in 1..n |-> s[at[k]]] /\ \A k \in 1..n : s[at[k]] \in E
  BY <1>1, <1>5, <1>6 DEF D
<1> HIDE DEF n
<1>8. Sift(s, T) \in Seq(E) /\ Len(Sift(s, T)) = n /\ \A k \in 1..n : Sift(s, T)[k] = s[at[k]]
  BY <1>6, <1>7
<1>9. \A i \in DOMAIN s : s[i] \in T => i \in D
  BY DEF D
<1>10. SiftedFrom(s, T, Sift(s, T), at)
  BY <1>6, <1>8, <1>9 DEF D, SiftedFrom
<1> QED BY <1>8, <1>10

\* The entries that are kept are in the set.
LEMMA SiftIn ==
    ASSUME NEW E, NEW s \in Seq(E), NEW T
    PROVE  Sift(s, T) \in Seq(E \cap T)
<1>1. PICK kept \in Seq(E) : kept = Sift(s, T)
  BY SiftProperties
<1>2. PICK at : SiftedFrom(s, T, kept, at)
  BY <1>1, SiftProperties
<1>3. ASSUME NEW k \in 1..Len(kept) PROVE kept[k] \in E \cap T
  <2>1. at[k] \in {i \in DOMAIN s : s[i] \in T} /\ kept[k] = s[at[k]]
    BY <1>2 DEF SiftedFrom
  <2> QED BY <2>1
<1>4. kept \in Seq(E \cap T)
  BY <1>3
<1> QED BY <1>1, <1>4

\* Every nonempty set of naturals has a least element.
LEMMA LeastNat ==
    ASSUME NEW T \in SUBSET Nat, T # {}
    PROVE  \E x \in T : \A y \in T : x <= y
<1> DEFINE R == OpToRel(<, Nat)
<1>1. IsWellFoundedOn(R, Nat)
  BY NatLessThanWellFounded
<1>2. \A i, j \in Nat : i < j => <<i, j>> \in R
  BY DEF OpToRel
<1> HIDE DEF R
<1>3. PICK x \in T : \A y \in T : ~(<<y, x>> \in R)
  BY <1>1, WFMin
<1>4. \A y \in T : ~(y < x)
  BY <1>2, <1>3
<1> QED BY <1>4

\* A list of numbers that ascends and has all of a set is the list of that set.
Ascends(at, n, S) ==
    /\ at \in [1..n -> S]
    /\ \A k, l \in 1..n : k < l => at[k] < at[l]
    /\ \A x \in S : \E k \in 1..n : at[k] = x

LEMMA AscendingIs ==
    ASSUME NEW S \in SUBSET Nat, NEW n \in Nat, NEW at, Ascends(at, n, S)
    PROVE  Ascending(S) = at /\ n = Cardinality(S)
<1> DEFINE R == {e \in S \X S : e[1] < e[2]}
<1>1. \A x, y \in S : <<x, y>> \in R <=> x < y
  OBVIOUS
<1>2. StrictOrder(S, R)
  <2> HIDE DEF R
  <2> QED BY <1>1 DEF StrictOrder
<1>3. Ascending(S) = Listed(S, R)
  BY DEF Ascending
<1> HIDE DEF R
<1>4. /\ at \in [1..n -> S] /\ \A x \in S : \E k \in 1..n : at[k] = x
      /\ \A k, l \in 1..n : k < l => at[k] < at[l]
  BY DEF Ascends
<1>a. \A k \in 1..n : at[k] \in Nat
  BY <1>4
<1>5. ASSUME NEW k \in 1..n, NEW l \in 1..n, at[k] = at[l] PROVE k = l
  <2>1. ~(k < l) /\ ~(l < k)
    BY <1>4, <1>5, <1>a
  <2> QED BY <2>1
<1>6. IsFiniteSet(1..n) /\ Cardinality(1..n) = n
  BY FS_Interval
<1>7. IsFiniteSet(S) /\ Cardinality(S) = n
  BY <1>4, <1>5, <1>6, OneToOne
<1>8. Listed(S, R) \in [1..n -> S] /\ \A k \in 1..n : Listed(S, R)[k] = OnPlace(S, R, k)
  BY <1>7, ListedIn
<1>9. ASSUME NEW k \in 1..n PROVE OnPlace(S, R, k) = at[k]
  <2> DEFINE f == [j \in 1..(k - 1) |-> at[j]]
             B == Below(S, R, at[k])
  <2>1. IsFiniteSet(1..(k - 1)) /\ Cardinality(1..(k - 1)) = k - 1
    BY FS_Interval
  <2>2. \A j \in 1..(k - 1) : j \in 1..n /\ j < k
    OBVIOUS
  <2>3. at[k] \in S
    BY <1>4
  <2>4. \A j \in 1..(k - 1) : at[j] \in B
    BY <1>1, <1>4, <2>2, <2>3 DEF Below
  <2>5. ASSUME NEW y \in B PROVE \E j \in 1..(k - 1) : at[j] = y
    <3>1. y \in S /\ y < at[k]
      BY <1>1, <2>3 DEF Below
    <3>2. PICK j \in 1..n : at[j] = y
      BY <1>4, <3>1
    <3>3. ~(k < j) /\ k # j
      <4>1. k < j => at[k] < at[j]
        BY <1>4
      <4>2. at[k] \in Nat /\ at[j] \in Nat /\ at[j] < at[k]
        BY <1>a, <3>1, <3>2
      <4> QED BY <4>1, <4>2
    <3> QED BY <3>2, <3>3
  <2>6. \A j \in 1..(k - 1) : f[j] = at[j]
    OBVIOUS
  <2>7. f \in [1..(k - 1) -> B]
    BY <2>4
  <2> HIDE DEF f, B
  <2>8. \A i, j \in 1..(k - 1) : f[i] = f[j] => i = j
    BY <1>5, <2>2, <2>6
  <2>9. \A y \in B : \E j \in 1..(k - 1) : f[j] = y
    BY <2>5, <2>6
  <2>10. Cardinality(B) = k - 1
    BY <2>1, <2>7, <2>8, <2>9, OneToOne
  <2>11. Rank(S, R, at[k]) = k - 1
    BY <2>10 DEF Rank, B
  <2>12. \A x \in S : Rank(S, R, x) = k - 1 => x = at[k]
    BY <1>2, <1>7, <2>3, <2>11, RankIsOne
  <2> QED BY <2>3, <2>11, <2>12 DEF OnPlace
<1>10. Listed(S, R) = at
  BY <1>4, <1>8, <1>9
<1> QED BY <1>3, <1>7, <1>10

\* The places of the entries of a list that are in a set.
In(s, T) == {i \in DOMAIN s : s[i] \in T}

\* A WHERE keeps what an ascending list of the places keeps.
LEMMA SiftIs ==
    ASSUME NEW E, NEW s \in Seq(E), NEW T, NEW n \in Nat, NEW at, Ascends(at, n, In(s, T))
    PROVE  /\ Sift(s, T) \in Seq(E) /\ Len(Sift(s, T)) = n
           /\ \A k \in 1..n : Sift(s, T)[k] = s[at[k]]
<1>1. In(s, T) \in SUBSET Nat
  BY DEF In
<1>2. Ascending(In(s, T)) = at
  BY <1>1, AscendingIs
<1>3. at \in [1..n -> In(s, T)]
  BY DEF Ascends
<1>4. \A i \in In(s, T) : s[i] \in E
  BY DEF In
<1>5. Sift(s, T) = [k \in 1..n |-> s[at[k]]]
  BY <1>2, <1>3 DEF Sift, In
<1>6. \A k \in 1..n : s[at[k]] \in E
  BY <1>3, <1>4
<1> QED BY <1>5, <1>6

\* The places that a WHERE keeps, in order.
LEMMA SiftedPlaces ==
    ASSUME NEW E, NEW s \in Seq(E), NEW T
    PROVE  \E n \in Nat : \E at : Ascends(at, n, In(s, T))
<1>1. In(s, T) \in SUBSET Nat /\ In(s, T) \in SUBSET (1..Len(s)) /\ Len(s) \in Nat
  BY DEF In
<1>2. IsFiniteSet(1..Len(s))
  BY <1>1, FS_Interval
<1>3. IsFiniteSet(In(s, T))
  BY <1>1, <1>2, FS_Subset
<1>4. Cardinality(In(s, T)) \in Nat /\ Ascends(Ascending(In(s, T)), Cardinality(In(s, T)), In(s, T))
  BY <1>1, <1>3, AscendingProperties DEF Ascends
<1> QED BY <1>4

\* A list after another.
Joins(s, t, u) ==
    /\ Len(u) = Len(s) + Len(t) /\ Len(s) \in Nat /\ Len(t) \in Nat
    /\ \A k \in 1..Len(s) : u[k] = s[k]
    /\ \A k \in 1..Len(t) : u[Len(s) + k] = t[k]
    /\ \A k \in 1..Len(u) : k \in 1..Len(s) \/ \E l \in 1..Len(t) : k = Len(s) + l

LEMMA Joined ==
    ASSUME NEW E, NEW s \in Seq(E), NEW t \in Seq(E)
    PROVE  s \o t \in Seq(E) /\ Joins(s, t, s \o t)
<1>0. PICK u : u = s \o t
  BY ONLY TRUE
<1>1. u \in Seq(E) /\ Len(u) = Len(s) + Len(t) /\ Len(s) \in Nat /\ Len(t) \in Nat
  BY <1>0
<1>2. \A k \in 1..Len(s) : u[k] = s[k]
  BY <1>0
<1>3. \A k \in 1..Len(t) : u[Len(s) + k] = t[k]
  BY <1>0
<1>4. ASSUME NEW k \in 1..Len(u)
      PROVE  k \in 1..Len(s) \/ \E l \in 1..Len(t) : k = Len(s) + l
  <2>1. CASE k <= Len(s)
    BY <1>1, <2>1
  <2>2. CASE k > Len(s)
    <3>1. k - Len(s) \in 1..Len(t) /\ k = Len(s) + (k - Len(s))
      BY <1>1, <2>2
    <3> QED BY <3>1
  <2> QED BY <1>1, <2>1, <2>2
<1> QED BY <1>0, <1>1, <1>2, <1>3, <1>4 DEF Joins

\* A WHERE of two lists one after the other keeps what it keeps of each.
LEMMA SiftConcat ==
    ASSUME NEW E, NEW s \in Seq(E), NEW t \in Seq(E), NEW T
    PROVE  Sift(s \o t, T) = Sift(s, T) \o Sift(t, T)
<1>1. PICK m \in Nat : \E at : Ascends(at, m, In(s, T))
  BY SiftedPlaces
<1>2. PICK a : Ascends(a, m, In(s, T))
  BY <1>1
<1>3. PICK n \in Nat : \E at : Ascends(at, n, In(t, T))
  BY SiftedPlaces
<1>4. PICK b : Ascends(b, n, In(t, T))
  BY <1>3
<1>5. PICK u : u = s \o t
  BY ONLY TRUE
<1>6. PICK p : p = Len(s)
  BY ONLY TRUE
<1>7. /\ u \in Seq(E) /\ p \in Nat /\ Len(u) = p + Len(t) /\ Len(t) \in Nat
      /\ DOMAIN s = 1..p /\ DOMAIN t = 1..Len(t) /\ DOMAIN u = 1..(p + Len(t))
      /\ \A i \in 1..p : u[i] = s[i]
      /\ \A i \in 1..Len(t) : u[p + i] = t[i]
  BY <1>5, <1>6
<1>8. \A i \in In(s, T) : i \in 1..p /\ i \in In(u, T) /\ u[i] = s[i]
  BY <1>7 DEF In
<1>9. \A i \in In(t, T) : i \in 1..Len(t) /\ p + i \in In(u, T) /\ u[p + i] = t[i]
  BY <1>7 DEF In
<1>10. ASSUME NEW i \in In(u, T) PROVE i \in In(s, T) \/ \E j \in In(t, T) : i = p + j
  <2>1. i \in 1..(p + Len(t)) /\ u[i] \in T
    BY <1>7 DEF In
  <2>2. CASE i <= p
    BY <1>7, <2>1, <2>2 DEF In
  <2>3. CASE i > p
    <3>1. i - p \in 1..Len(t) /\ i = p + (i - p)
      BY <1>7, <2>1, <2>3
    <3>2. u[p + (i - p)] = t[i - p]
      BY <1>7, <3>1
    <3> QED BY <1>7, <2>1, <3>1, <3>2 DEF In
  <2> QED BY <1>7, <2>1, <2>2, <2>3
<1> DEFINE at == [k \in 1..(m + n) |-> IF k <= m THEN a[k] ELSE p + b[k - m]]
<1>11. /\ a \in [1..m -> In(s, T)] /\ b \in [1..n -> In(t, T)]
       /\ \A k, l \in 1..m : k < l => a[k] < a[l]
       /\ \A k, l \in 1..n : k < l => b[k] < b[l]
       /\ \A x \in In(s, T) : \E k \in 1..m : a[k] = x
       /\ \A x \in In(t, T) : \E k \in 1..n : b[k] = x
  BY <1>2, <1>4 DEF Ascends
<1>12. \A k \in 1..m : at[k] = a[k] /\ a[k] \in In(s, T)
  BY <1>11
<1>13. \A k \in 1..n : at[m + k] = p + b[k] /\ b[k] \in In(t, T)
  BY <1>11
<1>14. \A k \in 1..(m + n) : k \in 1..m \/ \E l \in 1..n : k = m + l
  <2> TAKE k \in 1..(m + n)
  <2>1. CASE k <= m
    BY <2>1
  <2>2. CASE k > m
    <3>1. k - m \in 1..n /\ k = m + (k - m)
      BY <2>2
    <3> QED BY <3>1
  <2> QED BY <2>1, <2>2
<1>15. DOMAIN at = 1..(m + n) /\ at = [k \in 1..(m + n) |-> at[k]]
  OBVIOUS
<1> HIDE DEF at
<1>16. ASSUME NEW k \in 1..(m + n) PROVE at[k] \in In(u, T)
  <2>1. CASE k \in 1..m
    BY <1>8, <1>12, <2>1
  <2>2. ASSUME NEW l \in 1..n, k = m + l PROVE at[k] \in In(u, T)
    BY <1>9, <1>13, <2>2
  <2> QED BY <1>14, <2>1, <2>2
<1>17. at \in [1..(m + n) -> In(u, T)]
  BY <1>15, <1>16
<1>18. ASSUME NEW k \in 1..(m + n), NEW l \in 1..(m + n), k < l PROVE at[k] < at[l]
  <2>1. CASE k \in 1..m /\ l \in 1..m
    BY <1>11, <1>12, <1>18, <2>1
  <2>2. ASSUME k \in 1..m, NEW j \in 1..n, l = m + j PROVE at[k] < at[l]
    <3>1. at[k] \in 1..p /\ at[l] = p + b[j] /\ b[j] \in 1..Len(t)
      BY <1>8, <1>9, <1>12, <1>13, <2>2
    <3> QED BY <1>7, <3>1
  <2>3. ASSUME NEW i \in 1..n, k = m + i, NEW j \in 1..n, l = m + j PROVE at[k] < at[l]
    <3>1. i < j
      BY <1>18, <2>3
    <3>2. b[i] < b[j] /\ b[i] \in 1..Len(t) /\ b[j] \in 1..Len(t)
      BY <1>9, <1>11, <1>13, <3>1
    <3>3. at[k] = p + b[i] /\ at[l] = p + b[j]
      BY <1>13, <2>3
    <3> QED BY <1>7, <3>2, <3>3
  <2>4. ASSUME NEW i \in 1..n, k = m + i, l \in 1..m PROVE FALSE
    BY <1>18, <2>4
  <2> QED BY <1>14, <2>1, <2>2, <2>3, <2>4
<1>19. ASSUME NEW x \in In(u, T) PROVE \E k \in 1..(m + n) : at[k] = x
  <2>1. CASE x \in In(s, T)
    <3>1. PICK k \in 1..m : a[k] = x
      BY <1>11, <2>1
    <3>2. k \in 1..(m + n)
      OBVIOUS
    <3> QED BY <1>12, <3>1, <3>2
  <2>2. ASSUME NEW j \in In(t, T), x = p + j PROVE \E k \in 1..(m + n) : at[k] = x
    <3>1. PICK k \in 1..n : b[k] = j
      BY <1>11
    <3>2. m + k \in 1..(m + n)
      OBVIOUS
    <3> QED BY <1>13, <2>2, <3>1, <3>2
  <2> QED BY <1>10, <2>1, <2>2
<1>20. m + n \in Nat /\ Ascends(at, m + n, In(u, T))
  BY <1>17, <1>18, <1>19 DEF Ascends
<1>21. PICK x, y, z : x = Sift(s, T) /\ y = Sift(t, T) /\ z = Sift(u, T)
  BY ONLY TRUE
<1>22. x \in Seq(E) /\ Len(x) = m /\ \A k \in 1..m : x[k] = s[a[k]]
  BY <1>2, <1>21, SiftIs
<1>23. y \in Seq(E) /\ Len(y) = n /\ \A k \in 1..n : y[k] = t[b[k]]
  BY <1>4, <1>21, SiftIs
<1>24. z \in Seq(E) /\ Len(z) = m + n /\ \A k \in 1..(m + n) : z[k] = u[at[k]]
  BY <1>7, <1>20, <1>21, SiftIs
<1>25. \A k \in 1..m : z[k] = x[k]
  BY <1>8, <1>12, <1>22, <1>24
<1>26. ASSUME NEW k \in 1..n PROVE z[m + k] = y[k]
  <2>1. m + k \in 1..(m + n)
    OBVIOUS
  <2>2. z[m + k] = u[p + b[k]] /\ b[k] \in In(t, T)
    BY <1>13, <1>24, <2>1
  <2>3. u[p + b[k]] = t[b[k]]
    BY <1>9, <2>2
  <2> QED BY <1>23, <2>2, <2>3
<1>27. PICK v : v = x \o y
  BY ONLY TRUE
<1>28. /\ v \in Seq(E) /\ Len(v) = m + n
       /\ \A k \in 1..m : v[k] = x[k]
       /\ \A k \in 1..n : v[m + k] = y[k]
  <2>1. x \in Seq(E) /\ y \in Seq(E) /\ Len(x) = m /\ Len(y) = n
    BY <1>22, <1>23
  <2>2. /\ v \in Seq(E) /\ Len(v) = Len(x) + Len(y)
        /\ \A k \in 1..Len(x) : v[k] = x[k]
        /\ \A k \in 1..Len(y) : v[Len(x) + k] = y[k]
    <3>1. x \o y \in Seq(E) /\ Joins(x, y, x \o y)
      BY <2>1, Joined
    <3> QED BY <1>27, <3>1 DEF Joins
  <2> QED BY <2>1, <2>2
<1>29. \A k \in 1..(m + n) : z[k] = v[k]
  BY <1>14, <1>25, <1>26, <1>28
<1>30. z = v
  BY <1>24, <1>28, <1>29
<1> QED BY <1>5, <1>21, <1>27, <1>30

\* A WHERE keeps nothing if nothing is in the set, and everything if everything is.
LEMMA SiftNone ==
    ASSUME NEW E, NEW s \in Seq(E), NEW T, \A i \in DOMAIN s : s[i] \notin T
    PROVE  Sift(s, T) = <<>>
<1>1. In(s, T) = {}
  BY DEF In
<1>2. PICK at : at = [k \in 1..0 |-> k]
  BY ONLY TRUE
<1>3. Ascends(at, 0, In(s, T))
  BY <1>1, <1>2 DEF Ascends
<1>4. Sift(s, T) \in Seq(E) /\ Len(Sift(s, T)) = 0
  BY <1>3, SiftIs
<1> QED BY <1>4

LEMMA SiftAll ==
    ASSUME NEW E, NEW s \in Seq(E), NEW T, \A i \in DOMAIN s : s[i] \in T
    PROVE  Sift(s, T) = s
<1>1. In(s, T) = 1..Len(s) /\ Len(s) \in Nat
  BY DEF In
<1>2. PICK at : at = [k \in 1..Len(s) |-> k]
  BY ONLY TRUE
<1>3. Ascends(at, Len(s), In(s, T))
  BY <1>1, <1>2 DEF Ascends
<1>4. PICK x : x = Sift(s, T)
  BY ONLY TRUE
<1>5. x \in Seq(E) /\ Len(x) = Len(s) /\ \A k \in 1..Len(s) : x[k] = s[at[k]]
  BY <1>1, <1>3, <1>4, SiftIs
<1>6. \A k \in 1..Len(s) : x[k] = s[k]
  BY <1>2, <1>5
<1> QED BY <1>4, <1>5, <1>6

\* A function has finitely many values on a finite set.
LEMMA ImageFinite ==
    ASSUME NEW S, IsFiniteSet(S), NEW f, DOMAIN f = S, NEW T, T = {f[x] : x \in S}
    PROVE  IsFiniteSet(T)
<1>1. PICK g : g = [x \in S |-> f[x]]
  BY ONLY TRUE
<1>2. g \in [S -> T] /\ \A y \in T : \E x \in S : g[x] = y
  BY <1>1
<1>3. g \in Surjection(S, T)
  BY <1>2 DEF Surjection
<1> QED BY <1>3, FS_Surjection

\* The entries of a list are finitely many.
LEMMA EntriesFinite ==
    ASSUME NEW E, NEW s \in Seq(E)
    PROVE  /\ IsFiniteSet(DOMAIN s) /\ IsFiniteSet({s[i] : i \in DOMAIN s})
           /\ {s[i] : i \in DOMAIN s} \subseteq E
           /\ DOMAIN s = 1..Len(s) /\ \A i \in DOMAIN s : s[i] \in E
<1>1. DOMAIN s = 1..Len(s) /\ Len(s) \in Nat /\ \A i \in DOMAIN s : s[i] \in E
  OBVIOUS
<1>2. IsFiniteSet(DOMAIN s)
  BY <1>1, FS_Interval
<1>3. IsFiniteSet({s[i] : i \in DOMAIN s})
  BY <1>2, ImageFinite
<1> QED BY <1>1, <1>2, <1>3

\* What a list by two columns lists is what stands in the third.
LEMMA KeyedIn ==
    ASSUME NEW S, IsFiniteSet(S), NEW T, \A e \in S : e[3] \in T
    PROVE  Keyed(S) \in Seq(T)
<1> DEFINE Precedes(e, f) == e[1] < f[1] \/ (e[1] = f[1] /\ e[2] < f[2])
<1>1. PICK order : order = Listed(S, {e \in S \X S : Precedes(e[1], e[2])})
  BY ONLY TRUE
<1>2. order \in Seq(S)
  BY <1>1, ListedIn
<1>3. Keyed(S) = [k \in DOMAIN order |-> order[k][3]]
  BY <1>1 DEF Keyed
<1>4. \A k \in 1..Len(order) : order[k] \in S
  BY <1>2
<1> QED BY <1>2, <1>3, <1>4
================================================================================
