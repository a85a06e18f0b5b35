----------------------------- MODULE MCWorkspace -----------------------------
(* Two projects; the first is merged into the second. *)
EXTENDS Workspace, TLC

CONSTANTS pa, pb

IdSymmetry == Permutations(SyncIds)
OneWay == {<<pa, pb>>}

(* The hypothesis of SavedRowsAreSomewhere can be met: merging in one       *)
(* direction settles.                                                      *)
ASSUME OneWaySettles == \E down \in [Projects -> SUBSET Projects] : Settles(down)
=============================================================================
