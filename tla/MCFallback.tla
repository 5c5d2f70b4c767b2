------------------------------ MODULE MCFallback ------------------------------
(* Instances of FallbackCoordinator for TLC. *)
EXTENDS FallbackCoordinator
===============================================================================
