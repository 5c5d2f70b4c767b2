--------------------------- MODULE MCTranslatorJobs ---------------------------
(* The translator's jobs: many connections with few jobs, and the reverse. *)
EXTENDS TranslatorJobs

Bounds(a, c, j, s, k) ==
    [aggregated |-> a, conns |-> c, jobs |-> j, shares |-> s, keepalives |-> k]

MCSetups ==
    {Bounds(TRUE, 3, 1, 0, 0), Bounds(TRUE, 2, 2, 0, 0), Bounds(TRUE, 1, 3, 1, 1),
     Bounds(TRUE, 2, 1, 1, 1), Bounds(FALSE, 2, 2, 0, 0), Bounds(FALSE, 1, 3, 1, 1)}

Symmetry == Permutations(Downstreams)
=============================================================================
