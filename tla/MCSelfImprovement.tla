--------------------------- MODULE MCSelfImprovement ---------------------------
(* Instances of SelfImprovement for TLC. *)
EXTENDS SelfImprovement
================================================================================
