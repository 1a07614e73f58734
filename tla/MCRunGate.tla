------------------------------- MODULE MCRunGate -------------------------------
(* The gate with interchangeable calls and Runs.                             *)
EXTENDS RunGate, TLC

Symmetry == Permutations(Callers) \cup Permutations(Runs)
=============================================================================
