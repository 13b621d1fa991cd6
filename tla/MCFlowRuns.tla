------------------------------ MODULE MCFlowRuns ------------------------------
(***************************************************************************)
(* Instances of FlowRuns for TLC.                                          *)
(***************************************************************************)
EXTENDS FlowRuns, TLC

Symmetry == Permutations(Resumes) \cup Permutations(Cancels)
===============================================================================
