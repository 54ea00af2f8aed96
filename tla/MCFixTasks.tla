------------------------------- MODULE MCFixTasks -------------------------------
(* Instances of FixTasks for TLC. *)
EXTENDS FixTasks, TLC

Symmetry == Permutations(Debuggers)
================================================================================
