------------------------- MODULE MCTranslatorRuntime -------------------------
(* One fallback, with miners, with retries, with pools that stop reading, and *)
(* with pools that are compatible with the translator and not.                *)
EXTENDS TranslatorRuntime

Pool(supports, requires) == [supports |-> supports, requires |-> requires]
Bounds(u, r, pools, m) ==
    [upstreams |-> u, retries |-> r, pools |-> pools, miners |-> m, stalls |-> FALSE]

MCSetups ==
    {Bounds(1, 1, {Pool({"a"}, {})}, TRUE),
     [Bounds(2, 1, {Pool({"a"}, {})}, FALSE) EXCEPT !.stalls = TRUE],
     Bounds(1, 2, {Pool({"a"}, {})}, FALSE),
     Bounds(1, 1, {Pool({}, {}), Pool({"b"}, {}), Pool({"a", "b"}, {"b"}), Pool({"a", "c"}, {"c"})}, FALSE)}
=============================================================================
