-------------------------- MODULE MCObservationStore --------------------------
(* Three rows at most: enough for a chain of two supersessions. *)
EXTENDS ObservationStore, TLC

CONSTANTS t1, t2

\* The words of t1 occur in t2.
MCMatches == {<<t, t>> : t \in Titles} \cup ({<<t1, t2>>} \cap (Titles \X Titles))

Symmetry == Permutations(Contents) \cup Permutations(Scopes)

=============================================================================
