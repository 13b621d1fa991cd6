--------------------------- MODULE MCTaskDispatcher ---------------------------
(* Small instances of TaskDispatcher for TLC.                              *)
EXTENDS TaskDispatcher, TLC

Alike == Permutations(Runs)
=============================================================================
