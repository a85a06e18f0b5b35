------------------------------ MODULE MCRegistry ------------------------------
(* Two projects, the first of which may go by two names. *)
EXTENDS Registry, TLC

CONSTANTS p, q, P1, P2, Q1

MCKeyOf == [n \in Names |-> IF n = Q1 THEN q ELSE p]

Symmetry == Permutations(Openers)

=============================================================================
