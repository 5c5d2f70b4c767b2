------------------------- MODULE MCTemplateProviders -------------------------
(* The three providers with the messages each of them handles. *)
EXTENDS TemplateProviders

Provider(p, n, blocks, asks) ==
    [provider |-> p, constraints |-> 2, requests |-> asks, templates |-> n, tips |-> blocks]
AllSetups ==
    {Provider("ipc", 4, 3, TRUE), Provider("rpc", 4, 2, TRUE), Provider("sv2", 3, 2, FALSE)}
===============================================================================
