------------------------------ MODULE MCAnchors ------------------------------
(* Files that differ in the slice, in the rest only, or have lost the symbol. *)
EXTENDS Anchors

File(slice, symbol, rest) == [slice |-> slice, symbol |-> symbol, rest |-> rest]

MCFiles == {File("x", TRUE, 0), File("x", TRUE, 1), File("y", TRUE, 0), File("y", FALSE, 0)}
=============================================================================
