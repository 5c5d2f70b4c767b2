---------------------------- MODULE MCDeclaration ----------------------------
(* Instances of JobDeclaration for TLC. *)
EXTENDS JobDeclaration, TLC

CONSTANTS c1, c2, r1, r2

\* Clients and request ids are interchangeable, and both clients use both ids.
Symmetry == Permutations(Clients) \cup Permutations(Requests)
==============================================================================
