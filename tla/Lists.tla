--------------------------------- MODULE Lists ---------------------------------
(***************************************************************************)
(* Rows in an order: the finite sets that a query returns, listed.  A list   *)
(* says of every place which element stands there, by the number of elements *)
(* that come before it.                                                     *)
(***************************************************************************)
EXTENDS Naturals, Sequences, FiniteSets

\* ORDER BY: the elements of S by the strict order R, a set of pairs. An order that
\* does not tell all elements apart gives some list of them.
Listed(S, R) ==
    LET before == {<<x, Cardinality({y \in S : <<y, x>> \in R})>> : x \in S}
    IN [k \in 1..Cardinality(S) |->
          CHOOSE x \in S : <<x, k - 1>> \in before \/ \A y \in S : <<y, k - 1>> \notin before]

\* Numbers from the smallest to the largest.
Ascending(S) == Listed(S, {e \in S \X S : e[1] < e[2]})

\* ORDER BY two columns: the third components of the triples in S by the first, and
\* those of one first by the second.
Keyed(S) ==
    LET Precedes(e, f) == e[1] < f[1] \/ (e[1] = f[1] /\ e[2] < f[2])
        order == Listed(S, {e \in S \X S : Precedes(e[1], e[2])})
    IN [k \in DOMAIN order |-> order[k][3]]

\* WHERE: the entries of the list s that are in T, in their order.
Sift(s, T) ==
    LET at == Ascending({i \in DOMAIN s : s[i] \in T})
    IN [k \in DOMAIN at |-> s[at[k]]]
================================================================================
