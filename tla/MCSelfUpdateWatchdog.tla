------------------------- MODULE MCSelfUpdateWatchdog -------------------------
(* Instances of SelfUpdateWatchdog for TLC. *)
EXTENDS SelfUpdateWatchdog, TLC

\* One task deploys c1.
OneTarget == [t \in Tasks |-> "c1"]
===============================================================================
