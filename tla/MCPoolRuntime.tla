---------------------------- MODULE MCPoolRuntime ----------------------------
(* Configurations of the pool, and chains with declarations for its engine. *)
EXTENDS PoolRuntime, Sequences

CONSTANTS common, rare      \* a transaction Core has, and one that only miners have

Idling(p, jds) ==
    [provider |-> p, jds |-> jds, faults |-> TRUE, stops |-> TRUE, clients |-> ~jds,
     tips |-> 1, times |-> 1, mempool |-> <<{}>>, jobs |-> {}, declarations |-> 0, crash |-> jds, early |-> TRUE, contended |-> TRUE]

Job(t, txs, sound) == [tip |-> t, txs |-> txs, sound |-> sound]
Validating(mempool, seconds, n, jobs, hard) ==
    [provider |-> "ipc", jds |-> TRUE, faults |-> FALSE, stops |-> FALSE, clients |-> FALSE,
     tips |-> Len(mempool), times |-> seconds, mempool |-> mempool, jobs |-> jobs,
     declarations |-> n, crash |-> hard, early |-> hard, contended |-> hard]

AllSetups ==
    {Idling(p, FALSE) : p \in {"sv2", "ipc", "rpc", "auto"}} \cup {Idling("ipc", TRUE), Idling("rpc", TRUE)}
    \cup {Validating(<<{common}, {}>>, 2, 2, {Job(1, {rare}, TRUE), Job(2, {}, TRUE)}, FALSE),
          Validating(<<{common}, {}>>, 2, 2, {Job(1, {common, rare}, TRUE), Job(1, {}, FALSE)}, FALSE),
          Validating(<<{}>>, 1, 1, {Job(1, {}, FALSE)}, TRUE)}
==============================================================================
