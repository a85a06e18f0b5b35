---------------------------- MODULE MCWriteThread ----------------------------
(* A small write path: two plain requests and one Custom, a channel smaller   *)
(* than the number of callers, batches that can hold all of them.             *)
EXTENDS WriteThread

=============================================================================
