------------------------------- MODULE MCWebChat -------------------------------
(***************************************************************************)
(* Instances of WebChat for TLC.  Messages, threads and stops are each     *)
(* interchangeable; the runs that check liveness use no symmetry.          *)
(***************************************************************************)
EXTENDS WebChat, TLC

Symmetry == Permutations(Messages) \cup Permutations(Threads) \cup Permutations(Stops)
===============================================================================
