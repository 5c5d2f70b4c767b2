------------------------- MODULE MCTranslatorTargets -------------------------
(* Two miners share a channel, or have one each; with and without vardiff,    *)
(* with a pool that answers in time and with one that does not.               *)
EXTENDS TranslatorTargets

\* The target 2 is no power of two: rounded to a harder one, or to an easier.
Harder == <<1, 1, 3>>
Easier == <<1, 3, 3>>
Powers == <<1, 2>>

Bounds(a, v, p, r, f, c, s, n) ==
    [aggregated |-> a, vardiff |-> v, prompt |-> p, rounded |-> r, first |-> f,
     conns |-> c, steps |-> s, notifies |-> n]

MCSetups ==
    {Bounds(TRUE, TRUE, TRUE, Harder, 2, 2, 2, 1), Bounds(TRUE, TRUE, TRUE, Powers, 1, 2, 2, 1),
     Bounds(FALSE, TRUE, TRUE, Easier, 2, 1, 3, 2), Bounds(FALSE, TRUE, FALSE, Harder, 2, 1, 2, 1),
     Bounds(TRUE, FALSE, TRUE, Easier, 2, 2, 2, 1), Bounds(FALSE, FALSE, TRUE, Harder, 2, 2, 2, 1)}

Symmetry == Permutations(Downstreams)
=============================================================================
