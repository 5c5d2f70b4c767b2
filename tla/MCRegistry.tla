------------------------------ MODULE MCRegistry ------------------------------
(* An instance of PoolRegistry for TLC. *)
EXTENDS PoolRegistry

\* A plain client, one with custom work and one with standard jobs.
Flags == {<<FALSE, FALSE>>, <<TRUE, FALSE>>, <<FALSE, TRUE>>}
===============================================================================
