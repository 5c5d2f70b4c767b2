----------------------------- MODULE MCPoolShares -----------------------------
(* Shares and their answers; pulses; proofs and their spool. *)
EXTENDS PoolShares

\* Two channels with one channel id, of two connections, and one payout address.
SharedEntry == [c \in Channels |-> "entry"]

Bounds(levels, reserves, fees, n) ==
    [levels |-> levels, reserves |-> reserves, fees |-> fees, jobs |-> n[1], shares |-> n[2],
     refused |-> n[3], updates |-> n[4], clock |-> n[5], flushes |-> n[6], failures |-> n[7],
     crashes |-> n[8]]
\* jobs, shares, refused, updates, clock, flushes, failures, crashes
AllSetups ==
    {Bounds({1}, {4}, TRUE, <<2, 2, 1, 1, 2, 1, 1, 1>>),
     Bounds({2, 3}, {3, 4}, FALSE, <<1, 2, 0, 0, 3, 0, 0, 0>>),
     Bounds({4}, {4}, FALSE, <<2, 2, 0, 0, 1, 0, 1, 1>>)}
===============================================================================
